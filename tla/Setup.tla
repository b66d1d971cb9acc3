------------------------------- MODULE Setup -------------------------------
(***************************************************************************)
(* The validate-first setup engine behind `icebeam init` and `icebeam      *)
(* reconfigure` (internal/cli/{init,reconfigure,setup,prompt}.go), with    *)
(* the two things it writes: config.toml (internal/config/config.go) and   *)
(* the secret files (internal/credentials).                                *)
(*                                                                         *)
(* One machine is modelled.  Its disk survives across invocations, its     *)
(* process does not: `config' and `secrets' are on disk, the variables     *)
(* from `pc' to `lines' are the memory of the one setup process that may   *)
(* be running, and `repo' is the outside world, the restic repositories    *)
(* reachable at each URL.                                                  *)
(*                                                                         *)
(* Data is abstract: a URL, a password or a set name is a model value.     *)
(* Blank stands for the empty string, NoSecret for a secret file that does *)
(* not exist.  A password made by --generate-password is an element of     *)
(* Passwords like one the user types.                                      *)
(***************************************************************************)
EXTENDS Naturals, Sequences, FiniteSets

CONSTANTS
    URLs,           \* repository URLs a user may enter
    RestURLs,       \* the ones that name a REST server (IsRESTEndpoint)
    Passwords,      \* repository passwords
    Users,          \* REST-server usernames
    RestPasswords,  \* REST-server passwords
    SetNames,       \* names of backup sets the user gives at the prompt or by flag
    UserSets,       \* names of the sets the user writes into config.toml
    Accepts,        \* URL -> the <<user, password>> pairs its server lets in
    Faults,         \* what may go wrong, a subset of FaultKinds
    MaxLines,       \* bound on the answers left on stdin for the probe loop
    NoConfig,       \* there is no config.toml
    BadConfig,      \* config.toml was truncated and never rewritten
    NoSecret,       \* there is no such secret file
    Blank,          \* the empty string
    NoRepo,         \* no repository at this URL
    NoParams        \* no setup process is past its prompts

FaultKinds == {"crash",      \* the setup process is killed at any step
               "probe",      \* restic cannot run, or cannot reach the server
               "init",       \* `restic init` fails
               "write",      \* writing config.toml or a secret fails
               "otherHost"}  \* another machine initialises a repository

SecretNames == {"repo.password", "rest.username", "rest.password"}

SecretType(n) == CASE n = "repo.password" -> Passwords \cup {Blank}
                   [] n = "rest.username" -> Users \cup {Blank}
                   [] n = "rest.password" -> RestPasswords \cup {Blank}

SecretValues == Passwords \cup Users \cup RestPasswords \cup {Blank}

Credentials == (Users \cup {Blank}) \X (RestPasswords \cup {Blank})

\* A saved config.toml: the repository and the backup sets, first set first.
Config == [url : URLs, sets : Seq(SetNames \cup UserSets)]

\* A server either lets everyone in or wants a full username and password.
ASSUME SetupAssumption ==
    /\ RestURLs \subseteq URLs
    /\ Faults \subseteq FaultKinds
    /\ MaxLines \in Nat
    /\ Accepts \in [URLs -> SUBSET Credentials]
    /\ \A u \in URLs \ RestURLs : Accepts[u] = Credentials
    /\ \A u \in URLs : \/ Accepts[u] = Credentials
                       \/ Accepts[u] \subseteq Users \X RestPasswords
    /\ Blank \notin Passwords \cup Users \cup RestPasswords
    /\ NoSecret \notin SecretValues
    /\ NoRepo \notin SecretValues \cup {NoSecret}
    /\ NoConfig \notin Config \cup {BadConfig}
    /\ BadConfig \notin Config

VARIABLES
    config,       \* config.toml: NoConfig, BadConfig or a saved configuration
    secrets,      \* the secret files, by name
    repo,         \* URL -> the password that opens its repository, or NoRepo
    pc,           \* what the setup process does next, "idle" when none runs
    outcome,      \* how the last (or current) invocation ended
    existing,     \* the config the process loaded when it started
    stored,       \* the secrets it loaded, Blank for an absent one
    params,       \* setupParams
    created,      \* the probe found no repository
    pending,      \* the secrets CopyInto still has to write
    lines,        \* answers left on stdin
    interrupted   \* history: the last invocation to touch the disk stopped
                  \* half-way, and no probed invocation has completed since

disk == <<config, secrets>>
process == <<pc, outcome, existing, stored, params, created, pending, lines>>
vars == <<disk, repo, process, interrupted>>

-----------------------------------------------------------------------------
(* Types *)

Params == [cfg : Config,
           password : SecretType("repo.password"),
           restUsername : SecretType("rest.username"),
           restPassword : SecretType("rest.password"),
           skipProbe : BOOLEAN]

PCs == {"idle", "collect", "probe", "askRetry", "askPassword",
        "save", "encode", "secrets"}

Outcomes == {"none", "running", "configured", "aborted", "failed", "crashed"}

TypeOK ==
    /\ config \in Config \cup {NoConfig, BadConfig}
    /\ secrets \in [SecretNames -> SecretValues \cup {NoSecret}]
    /\ \A n \in SecretNames : secrets[n] \in SecretType(n) \cup {NoSecret}
    /\ repo \in [URLs -> Passwords \cup {NoRepo}]
    /\ pc \in PCs
    /\ outcome \in Outcomes
    /\ existing \in Config \cup {NoConfig}
    /\ stored \in [SecretNames -> SecretValues]
    /\ \A n \in SecretNames : stored[n] \in SecretType(n)
    /\ params \in Params \cup {NoParams}
    /\ created \in BOOLEAN
    /\ pending \subseteq SecretNames
    /\ lines \in 0..MaxLines
    /\ interrupted \in BOOLEAN

-----------------------------------------------------------------------------
(* What restic sees *)

\* The REST credentials restic is given: both or none.
restServerEnv(user, password) ==
    IF NoSecret \in {user, password} THEN <<Blank, Blank>>
                                     ELSE <<user, password>>

Authorized(url, user, password) ==
    restServerEnv(user, password) \in Accepts[url]

\* restic, given these secrets, opens the repository at url.
Opens(url, password, user, restPassword) ==
    /\ Authorized(url, user, restPassword)
    /\ repo[url] = password

\* What restic would meet if it ran now on what is on disk.
DiskAuthorized(url) ==
    Authorized(url, secrets["rest.username"], secrets["rest.password"])

Saved == config \notin {NoConfig, BadConfig}

Usable ==
    /\ Saved
    /\ Opens(config.url, secrets["repo.password"],
             secrets["rest.username"], secrets["rest.password"])

-----------------------------------------------------------------------------
(* Collecting the inputs *)

\* What the user asks for.  user and rest are the REST credentials given by
\* flag, in the URL, on stdin or at a prompt; Blank when none of them gave one.
\* pw is the password typed, piped or generated; Blank keeps the stored one.
Inputs == [url : URLs,
           passwordStdin : BOOLEAN,
           restPasswordStdin : BOOLEAN,
           user : Users \cup {Blank},
           rest : RestPasswords \cup {Blank},
           pw : Passwords \cup {Blank},
           setName : SetNames]

scripted(in) == in.passwordStdin \/ in.restPasswordStdin

\* ErrNotFound passed on instead of read as "not stored".
GetStoredSecretRaw(name) == secrets[name]

\* getStoredSecret: a missing secret reads as the empty string.
getStoredSecret(name) ==
    IF secrets[name] = NoSecret THEN Blank ELSE secrets[name]

loadStoredSecrets == [n \in SecretNames |-> getStoredSecret(n)]

\* A prompt that offers the stored value, suppressed when stdin is reserved.
KeepOrReplace(answer, keep, in) ==
    IF answer # Blank THEN answer
    ELSE IF scripted(in) THEN Blank ELSE keep

collectRESTUsername(in, old) ==
    IF in.url \in RestURLs
    THEN KeepOrReplace(in.user, old["rest.username"], in)
    ELSE in.user

collectRESTPassword(in, old) ==
    IF in.url \in RestURLs
    THEN KeepOrReplace(in.rest, old["rest.password"], in)
    ELSE Blank

collectPassword(in, old) ==
    IF in.pw # Blank THEN in.pw ELSE old["repo.password"]

\* The flag combinations and empty answers that end the run before the probe.
InputRejected(in) ==
    \/ in.passwordStdin /\ in.restPasswordStdin
    \/ in.passwordStdin /\ in.pw = Blank

\* With nothing stored an empty answer generates a password, so Blank is an
\* effective answer only when there is one to keep.
KeepsPassword(in) ==
    in.pw = Blank => secrets["repo.password"] # NoSecret

\* The sets of the existing config are replaced by the one asked about.
buildConfig(in, old) == [url |-> in.url, sets |-> <<in.setName>>]

\* Variations of the engine, used to show that each property can fail.
SkipProbeIgnoringREST(in, old) ==
    /\ existing # NoConfig
    /\ collectPassword(in, old) = old["repo.password"]
    /\ in.url = existing.url

SkipProbeIgnoringURL(in, old) ==
    /\ existing # NoConfig
    /\ collectPassword(in, old) = old["repo.password"]
    /\ collectRESTUsername(in, old) = old["rest.username"]
    /\ collectRESTPassword(in, old) = old["rest.password"]

\* passwordChanged, repoURLUnchanged and restCredentialsUnchanged.
skipProbe(in, old) ==
    /\ existing # NoConfig
    /\ collectPassword(in, old) = old["repo.password"]
    /\ in.url = existing.url
    /\ collectRESTUsername(in, old) = old["rest.username"]
    /\ collectRESTPassword(in, old) = old["rest.password"]

-----------------------------------------------------------------------------
(* Starting and ending an invocation *)

NoStored == [n \in SecretNames |-> Blank]

Init ==
    /\ config = NoConfig
    /\ secrets = [n \in SecretNames |-> NoSecret]
    /\ repo \in [URLs -> Passwords \cup {NoRepo}]
    /\ pc = "idle"
    /\ outcome = "none"
    /\ existing = NoConfig
    /\ stored = NoStored
    /\ params = NoParams
    /\ created = FALSE
    /\ pending = {}
    /\ lines = 0
    /\ interrupted = FALSE

\* The process ends and its memory with it.
Exit(how) ==
    /\ pc' = "idle"
    /\ outcome' = how
    /\ existing' = NoConfig
    /\ stored' = NoStored
    /\ params' = NoParams
    /\ created' = FALSE
    /\ pending' = {}
    /\ lines' = 0

\* It ends before its first write.
ExitClean(how) == Exit(how) /\ UNCHANGED <<disk, repo, interrupted>>

\* It ends once config.toml may have been opened for writing.
ExitDirty(how) == Exit(how) /\ interrupted' = TRUE

\* runInit and runReconfigure: a malformed config is an error for both, a
\* missing one only for reconfigure.
StartSetup(cmd) ==
    /\ pc = "idle"
    /\ config # BadConfig
    /\ cmd = "reconfigure" => config # NoConfig
    /\ pc' = "collect"
    /\ outcome' = "running"
    /\ existing' = config
    /\ UNCHANGED <<disk, repo, stored, params, created, pending, lines, interrupted>>

StartRefused(cmd) ==
    /\ pc = "idle"
    /\ config = BadConfig \/ (cmd = "reconfigure" /\ config = NoConfig)
    /\ ExitClean("failed")

\* runSetupFlow up to its call of runSetup: everything is read and asked, and
\* nothing is written.  l answers are left on stdin for the probe loop.
CollectInputs(in, l) ==
    /\ pc = "collect"
    /\ ~InputRejected(in)
    /\ KeepsPassword(in)
    /\ lines' = l
    /\ LET old == loadStoredSecrets IN
       /\ stored' = old
       /\ params' = [cfg |-> buildConfig(in, existing),
                     password |-> collectPassword(in, old),
                     restUsername |-> collectRESTUsername(in, old),
                     restPassword |-> collectRESTPassword(in, old),
                     skipProbe |-> skipProbe(in, old)]
       /\ pc' = IF skipProbe(in, old) THEN "save" ELSE "probe"
    /\ UNCHANGED <<disk, repo, outcome, existing, created, pending, interrupted>>

\* Contradictory flags, an exhausted stdin, an invalid URL, an unreadable
\* secret or an unwritable log end the run here.
CollectFails ==
    /\ pc = "collect"
    /\ ExitClean("failed")

-----------------------------------------------------------------------------
(* probeRepository *)

ProbeAuthorized ==
    Authorized(params.cfg.url, params.restUsername, params.restPassword)

\* Exit 0: the repository exists and the password opens it.
ProbeVerifies ==
    /\ pc = "probe"
    /\ ProbeAuthorized
    /\ repo[params.cfg.url] = params.password
    /\ pc' = "save"
    /\ created' = FALSE
    /\ UNCHANGED <<disk, repo, outcome, existing, stored, params, pending, lines, interrupted>>

\* IsRepoNotExist: the caller has to run `restic init' after persisting.
ProbeFindsNothing ==
    /\ pc = "probe"
    /\ ProbeAuthorized
    /\ repo[params.cfg.url] = NoRepo
    /\ pc' = "save"
    /\ created' = TRUE
    /\ UNCHANGED <<disk, repo, outcome, existing, stored, params, pending, lines, interrupted>>

\* IsWrongPassword: only the password is asked for again.
ProbeRejectsPassword ==
    /\ pc = "probe"
    /\ ProbeAuthorized
    /\ repo[params.cfg.url] \notin {NoRepo, params.password}
    /\ pc' = "askPassword"
    /\ UNCHANGED <<disk, repo, outcome, existing, stored, params, created, pending, lines, interrupted>>

\* Any other failure: the server refuses the REST credentials, is out of
\* reach, the repository is locked, the run was cancelled.
ProbeFails ==
    /\ pc = "probe"
    /\ ~ProbeAuthorized \/ "probe" \in Faults
    /\ pc' = "askRetry"
    /\ UNCHANGED <<disk, repo, outcome, existing, stored, params, created, pending, lines, interrupted>>

\* newResticRunner finds no restic binary.
ProbeCannotRun ==
    /\ pc = "probe"
    /\ "probe" \in Faults
    /\ ExitClean("failed")

\* askYesNo, default no: an empty line and the end of input both abort.
RetryDeclined ==
    /\ pc = "askRetry"
    /\ ExitClean("aborted")

RetryAccepted ==
    /\ pc = "askRetry"
    /\ lines > 0
    /\ lines' = lines - 1
    /\ pc' = "askPassword"
    /\ UNCHANGED <<disk, repo, outcome, existing, stored, params, created, pending, interrupted>>

\* Neither yes nor no: the question is repeated.
RetryUnclear ==
    /\ pc = "askRetry"
    /\ lines > 0
    /\ lines' = lines - 1
    /\ UNCHANGED <<disk, repo, pc, outcome, existing, stored, params, created, pending, interrupted>>

\* The loop over an exhausted stdin that errInputEnded was introduced to end.
AskPasswordForever ==
    /\ pc = "askPassword"
    /\ lines = 0
    /\ pc' = "probe"
    /\ UNCHANGED <<disk, repo, outcome, existing, stored, params, created, pending, lines, interrupted>>

\* askSecret at the end of input: errInputEnded.
AskPasswordEnds ==
    /\ pc = "askPassword"
    /\ lines = 0
    /\ ExitClean("failed")

\* A secret written as soon as it is typed, before the probe has accepted it.
AskPasswordPersisting(pw) ==
    /\ pc = "askPassword"
    /\ lines > 0
    /\ lines' = lines - 1
    /\ IF pw = Blank
       THEN UNCHANGED <<pc, params, secrets>>
       ELSE /\ pc' = "probe"
            /\ params' = [params EXCEPT !.password = pw]
            /\ secrets' = [secrets EXCEPT !["repo.password"] = pw]
    /\ UNCHANGED <<config, repo, outcome, existing, stored, created, pending, interrupted>>

\* askSecret: an empty answer is asked for again, any other goes to the probe.
AskPassword(pw) ==
    /\ pc = "askPassword"
    /\ lines > 0
    /\ lines' = lines - 1
    /\ IF pw = Blank
       THEN UNCHANGED <<pc, params>>
       ELSE /\ pc' = "probe"
            /\ params' = [params EXCEPT !.password = pw]
    /\ UNCHANGED <<disk, repo, outcome, existing, stored, created, pending, interrupted>>

-----------------------------------------------------------------------------
(* SaveFile: the file is truncated when it is opened and filled afterwards. *)

SaveRefused ==
    /\ pc = "save"
    /\ "write" \in Faults
    /\ ExitClean("failed")

SaveOpen ==
    /\ pc = "save"
    /\ config' = BadConfig
    /\ pc' = "encode"
    /\ UNCHANGED <<secrets, repo, outcome, existing, stored, params, created, pending, lines, interrupted>>

\* Mutant: only the password is copied to the disk.
ToPersistPassword == {"repo.password"}

\* The secrets persistSecrets puts into its memory store: empty REST
\* credentials are left out, so whatever the disk holds for them stays.
ToPersist ==
    {"repo.password"}
    \cup {n \in {"rest.username"} : params.restUsername # Blank}
    \cup {n \in {"rest.password"} : params.restPassword # Blank}

SaveEncode ==
    /\ pc = "encode"
    /\ config' = params.cfg
    /\ pc' = "secrets"
    /\ pending' = ToPersist
    /\ UNCHANGED <<secrets, repo, outcome, existing, stored, params, created, lines, interrupted>>

\* Encode or Close fails and the file stays truncated, or Chmod fails on the
\* complete file.
SaveFails ==
    /\ pc = "encode"
    /\ "write" \in Faults
    /\ config' \in {BadConfig, params.cfg}
    /\ UNCHANGED <<secrets, repo>>
    /\ ExitDirty("failed")

-----------------------------------------------------------------------------
(* persistSecrets and CopyInto: the secrets are written in no fixed order. *)

Collected(n) == CASE n = "repo.password" -> params.password
                  [] n = "rest.username" -> params.restUsername
                  [] n = "rest.password" -> params.restPassword

PersistSecret(n) ==
    /\ pc = "secrets"
    /\ n \in pending
    /\ secrets' = [secrets EXCEPT ![n] = Collected(n)]
    /\ pending' = pending \ {n}
    /\ UNCHANGED <<config, repo, pc, outcome, existing, stored, params, created, lines, interrupted>>

\* The file cannot be opened, is left empty, or cannot be chmod'ed.
PersistFails(n) ==
    /\ pc = "secrets"
    /\ n \in pending
    /\ "write" \in Faults
    /\ \E v \in {secrets[n], Blank, Collected(n)} : secrets' = [secrets EXCEPT ![n] = v]
    /\ UNCHANGED <<config, repo>>
    /\ ExitDirty("failed")

-----------------------------------------------------------------------------
(* The end of runSetup *)

\* A repository that was there needs nothing more.
FinishVerified ==
    /\ pc = "secrets"
    /\ pending = {}
    /\ ~created
    /\ Exit("configured")
    /\ interrupted' = (interrupted /\ params.skipProbe)
    /\ UNCHANGED <<disk, repo>>

\* `restic init' with the secrets of the probe, ahead of the secret files.
InitRepositoryFirst ==
    /\ pc = "secrets"
    /\ created
    /\ repo[params.cfg.url] = NoRepo
    /\ ProbeAuthorized
    /\ params.password \in Passwords
    /\ repo' = [repo EXCEPT ![params.cfg.url] = params.password]
    /\ Exit("configured")
    /\ interrupted' = FALSE
    /\ UNCHANGED disk

\* `restic init' reads the password file that persistSecrets has written.
initRepository ==
    /\ pc = "secrets"
    /\ pending = {}
    /\ created
    /\ repo[params.cfg.url] = NoRepo
    /\ DiskAuthorized(params.cfg.url)
    /\ secrets["repo.password"] \in Passwords
    /\ repo' = [repo EXCEPT ![params.cfg.url] = secrets["repo.password"]]
    /\ Exit("configured")
    /\ interrupted' = FALSE
    /\ UNCHANGED disk

InitRepositoryFails ==
    /\ pc = "secrets"
    /\ pending = {}
    /\ created
    /\ \/ "init" \in Faults
       \/ repo[params.cfg.url] # NoRepo
       \/ ~DiskAuthorized(params.cfg.url)
       \/ secrets["repo.password"] \notin Passwords
    /\ UNCHANGED <<disk, repo>>
    /\ ExitDirty("failed")

-----------------------------------------------------------------------------
(* The environment *)

\* SIGKILL, power loss, or a signal the prompts do not watch for.
Crash ==
    /\ "crash" \in Faults
    /\ pc # "idle"
    /\ Exit("crashed")
    /\ interrupted' = (interrupted \/ pc \in {"encode", "secrets"})
    /\ UNCHANGED <<disk, repo>>

\* The same repository is set up from another machine.
OtherHostInit(url, pw) ==
    /\ "otherHost" \in Faults
    /\ repo[url] = NoRepo
    /\ repo' = [repo EXCEPT ![url] = pw]
    /\ UNCHANGED <<disk, process, interrupted>>

\* The user adds a [[set]] to config.toml between two invocations.
UserAddsSet(name) ==
    /\ pc = "idle"
    /\ Saved
    /\ \A i \in DOMAIN config.sets : config.sets[i] # name
    /\ config' = [config EXCEPT !.sets = Append(@, name)]
    /\ outcome' = "none"
    /\ UNCHANGED <<secrets, repo, pc, existing, stored, params, created, pending, lines, interrupted>>

-----------------------------------------------------------------------------
(* The specification *)

Collect == pc = "collect" /\ \E in \in Inputs, l \in 0..MaxLines : CollectInputs(in, l)

Probe ==
    \/ ProbeVerifies
    \/ ProbeFindsNothing
    \/ ProbeRejectsPassword
    \/ ProbeFails
    \/ ProbeCannotRun

Answer ==
    \/ RetryDeclined
    \/ RetryAccepted
    \/ RetryUnclear
    \/ AskPasswordEnds
    \/ \E pw \in Passwords \cup {Blank} : AskPassword(pw)

Save == SaveRefused \/ SaveOpen \/ SaveEncode \/ SaveFails

Persist == \E n \in SecretNames : PersistSecret(n) \/ PersistFails(n)

Finish == FinishVerified \/ initRepository \/ InitRepositoryFails

\* A step of the running setup process, other than being killed.
SetupStep ==
    Collect \/ CollectFails \/ Probe \/ Answer \/ Save \/ Persist \/ Finish

Next ==
    \/ \E cmd \in {"init", "reconfigure"} : StartSetup(cmd) \/ StartRefused(cmd)
    \/ SetupStep
    \/ Crash
    \/ \E url \in URLs, pw \in Passwords : OtherHostInit(url, pw)
    \/ \E name \in UserSets : UserAddsSet(name)

Spec == Init /\ [][Next]_vars

\* A setup process that has a step to take takes it: restic answers, the file
\* system answers, and the user or the end of stdin answers each prompt.
FairSpec == Spec /\ WF_vars(SetupStep)

-----------------------------------------------------------------------------
(* Properties *)

\* The connection the process is about to write down is one that was verified:
\* restic has opened the repository with it, or was let in and found nothing
\* there, or it is the connection that was on disk when the process started.
Verified ==
    \/ Opens(params.cfg.url, params.password, params.restUsername, params.restPassword)
    \/ created /\ ProbeAuthorized
    \/ /\ existing # NoConfig
       /\ params.cfg.url = existing.url
       /\ params.password = stored["repo.password"]
       /\ params.restUsername = stored["rest.username"]
       /\ params.restPassword = stored["rest.password"]

\* "Now - and only now - persist config and copy the verified secrets": in
\* every state from which config.toml or a secret may be written, whatever was
\* retried, retyped or taken over by another host before, the connection in
\* the parameters is a verified one.
OnlyVerifiedIsWritten ==
    pc \in {"save", "encode", "secrets"} => Verified

\* A run that gives up while probing, by declining, by running out of stdin, by
\* a missing binary or by being killed, leaves the config and the secrets as
\* the process found them, however many passwords were tried.
AbortLeavesNothing ==
    [][(pc \in {"probe", "askRetry", "askPassword"} /\ pc' = "idle")
         => /\ config' = existing
            /\ loadStoredSecrets' = stored]_vars

\* `restic init' only ever creates a repository under the password that the
\* password file already holds, at the URL config.toml already names: no crash
\* can leave a repository whose (perhaps generated) password is nowhere.
NewRepositoryIsOnDisk ==
    [][outcome = "running" /\ outcome' = "configured" /\ repo' # repo
         => /\ Saved
            /\ repo[config.url] = NoRepo
            /\ repo'[config.url] = secrets["repo.password"]
            /\ secrets["repo.password"] = params.password]_vars

\* As long as no invocation was cut short between its first and its last
\* write, there is no config.toml yet or it is complete and what is on disk
\* opens the repository, through every re-run that kept, changed or skipped
\* anything, and whatever else went wrong.
UsableUnlessInterrupted ==
    pc = "idle" /\ ~interrupted => config = NoConfig \/ Usable

\* "a working, initialized repository": a setup that reports success leaves a
\* disk with which restic opens the repository.
ConfiguredMeansUsable ==
    pc = "idle" /\ outcome = "configured" => Usable

\* "runs `restic init` if the repository does not yet exist": after a setup
\* that reports success there is a repository at the configured URL.
ConfiguredMeansInitialized ==
    pc = "idle" /\ outcome = "configured" => repo[config.url] # NoRepo

\* What a setup that has begun to write will have replaced when it ends, read
\* the way the next setup reads it.
ConnectionURL ==
    LET c == IF pc \in {"encode", "secrets"} THEN existing ELSE config
    IN  IF c \in {NoConfig, BadConfig} THEN c ELSE c.url

ConnectionSecrets ==
    IF pc \in {"encode", "secrets"} THEN stored ELSE loadStoredSecrets

C == INSTANCE Connection WITH url <- ConnectionURL, secrets <- ConnectionSecrets

\* "Now - and only now - persist": the many writes of a setup replace the
\* connection, that is config.toml's URL, the three secrets and perhaps the new
\* repository, as if in one step, or not at all; a skipped probe and a user's
\* edit leave it alone; and what a cut leaves is a mixture of the old connection
\* and the one that was verified, and of nothing that was merely tried.
ImplementsConnection == C!Spec

\* Every invocation ends, on a terminal and on a pipe that runs dry alike.
SetupTerminates == (pc # "idle") ~> (pc = "idle")

\* What a setup may still do: the rounds of the probe loop its stdin allows, and
\* its writes.
StepsLeft ==
    LET writes == Cardinality(SecretNames) IN
    CASE pc = "collect"     -> 3 * MaxLines + writes + 7
      [] pc = "probe"       -> 3 * lines + writes + 6
      [] pc = "askRetry"    -> 3 * lines + writes + 5
      [] pc = "askPassword" -> 3 * lines + writes + 4
      [] pc = "save"        -> writes + 3
      [] pc = "encode"      -> writes + 2
      [] pc = "secrets"     -> Cardinality(pending) + 1
      [] pc = "idle"        -> 0

\* Each step of a setup brings its end closer, however often the probe fails and
\* the user is asked again: no prompt of the loop goes round without taking a
\* line of stdin (errInputEnded), and no secret is written twice (CopyInto).
EveryStepCounts == [][pc # "idle" /\ process' # process => StepsLeft' < StepsLeft]_vars

=============================================================================
