----------------------------- MODULE Connection -----------------------------
(***************************************************************************)
(* What `icebeam init' and `icebeam reconfigure' promise about the         *)
(* connection on disk, with none of their prompts, probes and writes: it   *)
(* is replaced as a whole, by one that opens a repository, or not at all,  *)
(* and only a cut in the middle of the writes leaves a mixture.            *)
(*                                                                         *)
(* Setup implements this module.                                           *)
(***************************************************************************)

CONSTANTS
    URLs,           \* repository URLs
    Passwords,      \* repository passwords
    Users,          \* REST-server usernames
    RestPasswords,  \* REST-server passwords
    Accepts,        \* URL -> the <<user, password>> pairs its server lets in
    NoConfig,       \* there is no config.toml
    BadConfig,      \* config.toml is truncated
    Blank,          \* an empty or absent secret
    NoRepo          \* no repository at this URL

VARIABLES
    url,            \* the repository config.toml names, NoConfig or BadConfig
    secrets,        \* the secrets as setup reads them
    repo,           \* URL -> the password that opens its repository, or NoRepo
    interrupted     \* the last invocation to touch the disk stopped half-way,
                    \* and no probed invocation has completed since

vars == <<url, secrets, repo, interrupted>>

Secrets == {s \in [{"repo.password", "rest.username", "rest.password"}
                     -> Passwords \cup Users \cup RestPasswords \cup {Blank}] :
               /\ s["repo.password"] \in Passwords \cup {Blank}
               /\ s["rest.username"] \in Users \cup {Blank}
               /\ s["rest.password"] \in RestPasswords \cup {Blank}}

LetsIn(u, s) == <<s["rest.username"], s["rest.password"]>> \in Accepts[u]

Init ==
    /\ url = NoConfig
    /\ secrets = [n \in {"repo.password", "rest.username", "rest.password"} |-> Blank]
    /\ repo \in [URLs -> Passwords \cup {NoRepo}]
    /\ interrupted = FALSE

\* A setup completes: the repository was there, or restic has just created it.
Establish(u, s) ==
    /\ LetsIn(u, s)
    /\ s["repo.password"] \in Passwords
    /\ \/ repo[u] = s["repo.password"] /\ UNCHANGED repo
       \/ repo[u] = NoRepo /\ repo' = [repo EXCEPT ![u] = s["repo.password"]]
    /\ url' = u
    /\ secrets' = s
    /\ interrupted' = FALSE

\* A setup is cut short while it writes u and s, which are a connection the
\* server lets in or the one that was on disk: each secret is the old one, the
\* new one or empty.
CutShort(u, s) ==
    /\ LetsIn(u, s) \/ (u = url /\ s = secrets)
    /\ url' \in {BadConfig, u}
    /\ secrets' \in Secrets
    /\ \A n \in DOMAIN secrets : secrets'[n] \in {secrets[n], s[n], Blank}
    /\ interrupted' = TRUE
    /\ UNCHANGED repo

\* The repository is created from another machine.
Appear(u, pw) ==
    /\ repo[u] = NoRepo
    /\ repo' = [repo EXCEPT ![u] = pw]
    /\ UNCHANGED <<url, secrets, interrupted>>

Next ==
    \/ \E u \in URLs, s \in Secrets : Establish(u, s) \/ CutShort(u, s)
    \/ \E u \in URLs, pw \in Passwords : Appear(u, pw)

Spec == Init /\ [][Next]_vars

\* Unless a setup was cut short, what is on disk opens its repository.
Settled ==
    ~interrupted /\ url # NoConfig
        => /\ url \in URLs
           /\ LetsIn(url, secrets)
           /\ repo[url] = secrets["repo.password"]
=============================================================================
