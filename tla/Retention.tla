------------------------------ MODULE Retention ------------------------------
(***************************************************************************)
(* The snapshots of one restic repository as icebeam makes and forgets     *)
(* them: `backup' tags each set's snapshots (backupArgs, cli/backup.go),   *)
(* `forget' applies the configured policy to every group of snapshots of   *)
(* one host and one list of tags (forgetArgs, cli/maintenance.go).         *)
(*                                                                         *)
(* restic is external: it keeps, for each period the policy names, the     *)
(* newest snapshot of each of the last so many days, weeks, months or      *)
(* years that have one.  Pruning reclaims the data of snapshots already    *)
(* removed; which snapshots exist does not depend on it.                   *)
(***************************************************************************)
EXTENDS Naturals, FiniteSets

CONSTANTS
    Sources,    \* the backup sets of all hosts that share the repository
    HostOf,     \* source -> the host it is backed up from
    TagsOf,     \* source -> the tags of its set
    Calendar,   \* period -> time -> the day, week, month or year of that time
    Policies,   \* the values [retention] takes: period -> how many to keep
    MaxTime     \* bound on the clock

Periods == {"daily", "weekly", "monthly", "yearly"}
Times == 0 .. MaxTime

\* What the constants satisfy.
RetentionAssumption ==
    /\ MaxTime \in Nat
    /\ Calendar \in [Periods -> [Times -> Nat]]
    /\ \A k \in Periods : \A t, u \in Times : t <= u => Calendar[k][t] <= Calendar[k][u]
    /\ Policies \subseteq [Periods -> Nat]

VARIABLES
    now,         \* the time of the next snapshot
    snapshots,   \* the snapshots in the repository
    made         \* history: every snapshot that was ever made

vars == <<now, snapshots, made>>

Snapshots == [source : Sources, at : Times]

TypeOK ==
    /\ now \in Times \cup {MaxTime + 1}
    /\ snapshots \subseteq Snapshots
    /\ made \subseteq Snapshots

Init ==
    /\ now = 1
    /\ snapshots = {}
    /\ made = {}

-----------------------------------------------------------------------------
(* What a policy keeps *)

Bucket(k, x) == Calendar[k][x.at]

NewestOfBucket(k, x, S) == \A y \in S : Bucket(k, y) = Bucket(k, x) => y.at <= x.at

LaterBuckets(k, x, S) == {Bucket(k, y) : y \in {z \in S : Bucket(k, z) > Bucket(k, x)}}

\* What restic keeps of a group S of snapshots.
Kept(S, policy) ==
    {x \in S : \E k \in Periods :
        /\ policy[k] > 0
        /\ NewestOfBucket(k, x, S)
        /\ Cardinality(LaterBuckets(k, x, S)) < policy[k]}

\* `--group-by host,tags'.  Mutants: one of them alone.
GroupByTags(x) == TagsOf[x.source]
GroupByHost(x) == HostOf[x.source]

GroupOf(x) == <<HostOf[x.source], TagsOf[x.source]>>

Group(x) == {y \in snapshots : GroupOf(y) = GroupOf(x)}

\* Each positive count becomes a --keep flag; without any, restic removes nothing.
NoPolicy(policy) == \A k \in Periods : policy[k] = 0

Forgotten(policy, dryRun) ==
    IF dryRun \/ NoPolicy(policy) THEN {}
    ELSE {x \in snapshots : x \notin Kept(Group(x), policy)}

-----------------------------------------------------------------------------
(* The operations *)

Tick ==
    /\ now < MaxTime
    /\ now' = now + 1
    /\ UNCHANGED <<snapshots, made>>

Backup(s) ==
    /\ now <= MaxTime
    /\ snapshots' = snapshots \cup {[source |-> s, at |-> now]}
    /\ made' = made \cup {[source |-> s, at |-> now]}
    /\ now' = now + 1

Forget(policy, dryRun) ==
    /\ snapshots' = snapshots \ Forgotten(policy, dryRun)
    /\ UNCHANGED <<now, made>>

Next ==
    \/ Tick
    \/ \E s \in Sources : Backup(s)
    \/ \E policy \in Policies, dryRun \in BOOLEAN : Forget(policy, dryRun)

Spec == Init /\ [][Next]_vars

-----------------------------------------------------------------------------
(* Properties *)

Of(s) == {x \in snapshots : x.source = s}
Made(s) == {x \in made : x.source = s}

\* Whatever sequence of backups and forgets ran before, the last snapshot of
\* every set of every host is still there (maintenance.go:58-59: each set's
\* snapshots are pruned independently).
LatestSurvives ==
    \A x \in made : (\A y \in Made(x.source) : y.at <= x.at) => x \in snapshots

\* A step that removes snapshots leaves of every set's snapshots what one of
\* the configured policies keeps of that set's own (maintenance.go:182-183).
PrunedIndependently ==
    [][~(snapshots \subseteq snapshots') =>
          \E policy \in Policies : \A s \in Sources : Of(s)' = Kept(Of(s), policy)]_vars

\* No two sets of a host have the same tags.  The code does not ask for it.
TagsDistinct ==
    \A s, r \in Sources : HostOf[s] = HostOf[r] /\ TagsOf[s] = TagsOf[r] => s = r
=============================================================================
