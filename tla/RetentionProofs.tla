--------------------------- MODULE RetentionProofs ---------------------------
(***************************************************************************)
(* Proofs about Retention: with tags that tell the sets of a host apart,   *)
(* no sequence of backups and forgets mixes up their snapshots, whatever   *)
(* the policies and the calendar.                                          *)
(***************************************************************************)
EXTENDS Retention, FiniteSetTheorems, WellFoundedInduction, TLAPS

-----------------------------------------------------------------------------
(* Type correctness *)

LEMMA TypeInit ==
  ASSUME RetentionAssumption PROVE Init => TypeOK
  BY DEF RetentionAssumption, Init, TypeOK, Times, Snapshots

LEMMA TypeNext ==
  ASSUME RetentionAssumption PROVE TypeOK /\ [Next]_vars => TypeOK'
<1> SUFFICES ASSUME TypeOK, [Next]_vars PROVE TypeOK'
  OBVIOUS
<1> USE DEF RetentionAssumption, TypeOK, Times, Snapshots
<1>1. CASE Tick
  BY <1>1 DEF Tick
<1>2. ASSUME NEW s \in Sources, Backup(s) PROVE TypeOK'
  BY <1>2 DEF Backup
<1>3. ASSUME NEW policy \in Policies, NEW dryRun \in BOOLEAN, Forget(policy, dryRun)
      PROVE TypeOK'
  BY <1>3 DEF Forget
<1>4. CASE UNCHANGED vars
  BY <1>4 DEF vars
<1> QED
  BY <1>1, <1>2, <1>3, <1>4 DEF Next

\* The variables keep their types for every repository, policy and calendar.
THEOREM TypeCorrect ==
  ASSUME RetentionAssumption PROVE Spec => []TypeOK
  BY TypeInit, TypeNext, PTL DEF Spec

-----------------------------------------------------------------------------
(* Nothing is in the repository that was never made *)

RecentInv ==
    /\ snapshots \subseteq made
    /\ \A x \in made : x.at < now

LEMMA RecentInit == Init => RecentInv
  BY DEF Init, RecentInv

LEMMA RecentNext ==
  ASSUME RetentionAssumption PROVE TypeOK /\ RecentInv /\ [Next]_vars => RecentInv'
<1> SUFFICES ASSUME TypeOK, RecentInv, [Next]_vars PROVE RecentInv'
  OBVIOUS
<1> USE DEF RetentionAssumption, TypeOK, Times, Snapshots, RecentInv
<1>1. CASE Tick
  BY <1>1 DEF Tick
<1>2. ASSUME NEW s \in Sources, Backup(s) PROVE RecentInv'
  BY <1>2 DEF Backup
<1>3. ASSUME NEW policy \in Policies, NEW dryRun \in BOOLEAN, Forget(policy, dryRun)
      PROVE RecentInv'
  BY <1>3 DEF Forget
<1>4. CASE UNCHANGED vars
  BY <1>4 DEF vars
<1> QED
  BY <1>1, <1>2, <1>3, <1>4 DEF Next

-----------------------------------------------------------------------------
(* What restic does to a group *)

\* A group is the snapshots of one set.
LEMMA GroupIsOf ==
  ASSUME TypeOK, TagsDistinct, NEW x \in snapshots
  PROVE  Group(x) = Of(x.source)
  BY DEF TypeOK, TagsDistinct, Group, GroupOf, Of, Snapshots

\* The newest snapshot of a group is kept by any policy that keeps any.
LEMMA NewestIsKept ==
  ASSUME RetentionAssumption, NEW S \in SUBSET Snapshots, NEW policy \in Policies, ~NoPolicy(policy),
         NEW x \in S, \A y \in S : y.at <= x.at
  PROVE  x \in Kept(S, policy)
<1>1. PICK k \in Periods : policy[k] > 0
  BY DEF RetentionAssumption, NoPolicy
<1>2. LaterBuckets(k, x, S) = {}
  <2>1. \A y \in S : ~(Bucket(k, y) > Bucket(k, x))
    BY DEF RetentionAssumption, Bucket, Snapshots, Times
  <2> QED
    BY <2>1 DEF LaterBuckets
<1>3. Cardinality(LaterBuckets(k, x, S)) < policy[k]
  BY <1>1, <1>2, FS_EmptySet
<1> QED
  BY <1>1, <1>3 DEF Kept, NewestOfBucket

-----------------------------------------------------------------------------
(* The last snapshot of a set survives *)

LEMMA LatestNext ==
  ASSUME RetentionAssumption, TagsDistinct, TypeOK, RecentInv, LatestSurvives, [Next]_vars
  PROVE  LatestSurvives'
<1> SUFFICES ASSUME NEW x \in made', \A y \in Made(x.source)' : y.at <= x.at
             PROVE  x \in snapshots'
  BY DEF LatestSurvives
<1>1. CASE Tick
  BY <1>1 DEF Tick, LatestSurvives, Made
<1>2. ASSUME NEW s \in Sources, Backup(s) PROVE x \in snapshots'
  BY <1>2 DEF Backup, LatestSurvives, Made
<1>3. ASSUME NEW policy \in Policies, NEW dryRun \in BOOLEAN, Forget(policy, dryRun)
      PROVE x \in snapshots'
  <2>1. x \in snapshots /\ \A y \in Made(x.source) : y.at <= x.at
    BY <1>3 DEF Forget, LatestSurvives, Made
  <2>2. CASE dryRun \/ NoPolicy(policy)
    BY <1>3, <2>1, <2>2 DEF Forget, Forgotten
  <2>3. CASE ~dryRun /\ ~NoPolicy(policy)
    <3>1. Group(x) = Of(x.source)
      BY <2>1, GroupIsOf
    <3>2. Of(x.source) \in SUBSET Snapshots /\ x \in Of(x.source)
      BY <2>1 DEF TypeOK, Of
    <3>3. \A y \in Of(x.source) : y.at <= x.at
      BY <2>1 DEF Of, Made, RecentInv
    <3>4. x \in Kept(Of(x.source), policy)
      BY <2>3, <3>2, <3>3, NewestIsKept
    <3> QED
      BY <1>3, <2>1, <3>1, <3>4 DEF Forget, Forgotten
  <2> QED
    BY <2>2, <2>3
<1>4. CASE UNCHANGED vars
  BY <1>4 DEF vars, LatestSurvives, Made
<1> QED
  BY <1>1, <1>2, <1>3, <1>4 DEF Next

\* For any sets told apart by their tags, any policies and any calendar, the
\* last snapshot of each set is never forgotten.
THEOREM LatestTheorem ==
  ASSUME RetentionAssumption, TagsDistinct PROVE Spec => []LatestSurvives
<1>1. Init => TypeOK /\ RecentInv /\ LatestSurvives
  BY TypeInit, RecentInit DEF Init, LatestSurvives
<1>2. TypeOK /\ RecentInv /\ LatestSurvives /\ [Next]_vars
        => (TypeOK /\ RecentInv /\ LatestSurvives)'
  BY TypeNext, RecentNext, LatestNext
<1> QED
  BY <1>1, <1>2, PTL DEF Spec

-----------------------------------------------------------------------------
(* The sets are pruned independently *)

PrunedStep ==
    ~(snapshots \subseteq snapshots') =>
        \E policy \in Policies : \A s \in Sources : Of(s)' = Kept(Of(s), policy)

LEMMA ForgetIsIndependent ==
  ASSUME TagsDistinct, TypeOK, NEW policy \in Policies, ~NoPolicy(policy),
         Forget(policy, FALSE), NEW s \in Sources
  PROVE  Of(s)' = Kept(Of(s), policy)
<1>1. Forgotten(policy, FALSE) = {x \in snapshots : x \notin Kept(Group(x), policy)}
  BY DEF Forgotten
<1>2. \A x \in Of(s) : Group(x) = Of(s)
  BY GroupIsOf DEF Of
<1>3. Of(s)' = {x \in Of(s) : x \notin Forgotten(policy, FALSE)}
  BY DEF Forget, Of
<1>4. Of(s)' = {x \in Of(s) : x \in Kept(Of(s), policy)}
  BY <1>1, <1>2, <1>3 DEF Of
<1> QED
  BY <1>4 DEF Kept

LEMMA PrunedNext ==
  ASSUME TagsDistinct, TypeOK, [Next]_vars
  PROVE  PrunedStep
<1> SUFFICES ASSUME ~(snapshots \subseteq snapshots')
             PROVE  \E policy \in Policies : \A s \in Sources : Of(s)' = Kept(Of(s), policy)
  BY DEF PrunedStep
<1>1. PICK policy \in Policies, dryRun \in BOOLEAN : Forget(policy, dryRun)
  BY DEF Next, Tick, Backup, vars
<1>2. ~NoPolicy(policy) /\ ~dryRun
  BY <1>1 DEF Forget, Forgotten
<1>3. Forget(policy, FALSE)
  BY <1>1, <1>2
<1> QED
  BY <1>2, <1>3, ForgetIsIndependent

\* Under the same condition, a forget leaves of every set what a configured
\* policy keeps of that set alone.
THEOREM PrunedTheorem ==
  ASSUME RetentionAssumption, TagsDistinct PROVE Spec => PrunedIndependently
<1>1. TypeOK /\ [Next]_vars => [PrunedStep]_vars
  BY PrunedNext
<1> QED
  BY <1>1, TypeCorrect, PTL DEF Spec, PrunedIndependently, PrunedStep

-----------------------------------------------------------------------------
(* Forgetting again *)

\* There are only finitely many days, weeks, months and years.
LEMMA BucketsAreFinite ==
  ASSUME RetentionAssumption, NEW S \in SUBSET Snapshots, NEW k \in Periods, NEW x \in Snapshots
  PROVE  IsFiniteSet(LaterBuckets(k, x, S))
<1> DEFINE last == Calendar[k][MaxTime]
<1>1. last \in Nat /\ \A t \in Times : Calendar[k][t] \in Nat /\ Calendar[k][t] <= last
  BY DEF RetentionAssumption, Times
<1>2. LaterBuckets(k, x, S) \in SUBSET Nat /\ \A n \in LaterBuckets(k, x, S) : n <= last
  BY <1>1 DEF LaterBuckets, Bucket, Snapshots
<1> QED
  BY <1>1, <1>2, FS_BoundedSetOfNaturals

\* A snapshot that is kept of more snapshots is kept of fewer.
LEMMA KeptOfFewer ==
  ASSUME RetentionAssumption, NEW S \in SUBSET Snapshots, NEW R \in SUBSET S,
         NEW policy \in [Periods -> Nat]
  PROVE  Kept(S, policy) \cap R \subseteq Kept(R, policy)
<1> SUFFICES ASSUME NEW x \in R, x \in Kept(S, policy) PROVE x \in Kept(R, policy)
  OBVIOUS
<1>1. PICK k \in Periods : /\ policy[k] > 0
                           /\ NewestOfBucket(k, x, S)
                           /\ Cardinality(LaterBuckets(k, x, S)) < policy[k]
  BY DEF Kept
<1>2. NewestOfBucket(k, x, R)
  BY <1>1 DEF NewestOfBucket
<1>3. IsFiniteSet(LaterBuckets(k, x, S)) /\ LaterBuckets(k, x, R) \in SUBSET LaterBuckets(k, x, S)
  BY BucketsAreFinite DEF LaterBuckets
<1>4. /\ Cardinality(LaterBuckets(k, x, R)) <= Cardinality(LaterBuckets(k, x, S))
      /\ Cardinality(LaterBuckets(k, x, R)) \in Nat /\ Cardinality(LaterBuckets(k, x, S)) \in Nat
  BY <1>3, FS_Subset, FS_CardinalityType
<1> QED
  BY <1>1, <1>2, <1>4 DEF Kept

\* What a policy has kept it keeps.
LEMMA KeptIsKept ==
  ASSUME RetentionAssumption, NEW S \in SUBSET Snapshots, NEW policy \in [Periods -> Nat]
  PROVE  Kept(Kept(S, policy), policy) = Kept(S, policy)
<1>1. Kept(S, policy) \in SUBSET S /\ Kept(Kept(S, policy), policy) \subseteq Kept(S, policy)
  BY Zenon DEF Kept
<1>2. Kept(S, policy) \cap Kept(S, policy) \subseteq Kept(Kept(S, policy), policy)
  BY <1>1, KeptOfFewer, Zenon
<1> QED
  BY <1>1, <1>2, Zenon

\* A policy that keeps more of every period keeps more.
LEMMA KeptGrows ==
  ASSUME RetentionAssumption, NEW S \in SUBSET Snapshots,
         NEW policy \in [Periods -> Nat], NEW larger \in [Periods -> Nat],
         \A k \in Periods : policy[k] <= larger[k]
  PROVE  Kept(S, policy) \subseteq Kept(S, larger)
<1> SUFFICES ASSUME NEW x \in Kept(S, policy) PROVE x \in Kept(S, larger)
  OBVIOUS
<1>1. PICK k \in Periods : /\ policy[k] > 0
                           /\ NewestOfBucket(k, x, S)
                           /\ Cardinality(LaterBuckets(k, x, S)) < policy[k]
  BY DEF Kept
<1>2. Cardinality(LaterBuckets(k, x, S)) \in Nat
  BY BucketsAreFinite, FS_CardinalityType DEF Kept
<1> QED
  BY <1>1, <1>2 DEF Kept

\* A forget that is run again, after a backup of nothing or because the first
\* was thought to have failed, removes nothing more: with whatever tags, a group
\* is what the policy keeps of it.
RepeatedForget ==
    [][\A policy \in Policies :
          Forget(policy, FALSE) => Forgotten(policy, FALSE)' = {}]_vars

THEOREM RepeatedTheorem ==
  ASSUME RetentionAssumption PROVE Spec => RepeatedForget
<1>1. ASSUME TypeOK, NEW policy \in Policies, Forget(policy, FALSE)
      PROVE  Forgotten(policy, FALSE)' = {}
  <2>1. CASE NoPolicy(policy)
    BY <2>1 DEF Forgotten
  <2>2. CASE ~NoPolicy(policy)
    <3>1. snapshots' = {x \in snapshots : x \in Kept(Group(x), policy)}
      BY <1>1, <2>2 DEF Forget, Forgotten
    <3>2. SUFFICES ASSUME NEW x \in snapshots'
                   PROVE  x \in Kept(Group(x)', policy)
      BY <2>2 DEF Forgotten
    <3>3. Group(x) \in SUBSET Snapshots /\ policy \in [Periods -> Nat]
      BY <1>1 DEF Group, TypeOK, RetentionAssumption
    <3>4. \A y \in Group(x) : Group(y) = Group(x)
      BY DEF Group
    <3>5. Group(x)' = Kept(Group(x), policy)
      <4>1. Group(x)' = {y \in Group(x) : y \in snapshots'}
        BY <3>1 DEF Group, GroupOf
      <4>2. \A y \in Group(x) : y \in snapshots' <=> y \in Kept(Group(x), policy)
        BY <3>1, <3>4 DEF Group
      <4> QED
        BY <4>1, <4>2 DEF Kept
    <3>6. x \in Kept(Group(x), policy)
      BY <3>1, <3>2
    <3> QED
      BY <3>3, <3>5, <3>6, KeptIsKept
  <2> QED
    BY <2>1, <2>2
<1>2. TypeOK /\ [Next]_vars =>
        [\A policy \in Policies : Forget(policy, FALSE) => Forgotten(policy, FALSE)' = {}]_vars
  BY <1>1
<1> QED
  BY <1>2, TypeCorrect, PTL DEF Spec, RepeatedForget

\* Raising counts of the policy, or adding one to a policy that had some, never
\* makes a forget remove a snapshot that it would have left.
THEOREM LargerPolicyTheorem ==
  ASSUME RetentionAssumption, NEW policy \in Policies, NEW larger \in Policies,
         ~NoPolicy(policy), \A k \in Periods : policy[k] <= larger[k]
  PROVE  TypeOK => Forgotten(larger, FALSE) \subseteq Forgotten(policy, FALSE)
<1> SUFFICES ASSUME TypeOK, NEW x \in snapshots, x \in Kept(Group(x), policy)
             PROVE  x \in Kept(Group(x), larger)
  BY DEF Forgotten
<1>1. Group(x) \in SUBSET Snapshots /\ policy \in [Periods -> Nat] /\ larger \in [Periods -> Nat]
  BY DEF Group, TypeOK, RetentionAssumption
<1> QED
  BY <1>1, KeptGrows

-----------------------------------------------------------------------------
(* Forgetting in between *)

\* A bounded set of numbers has a largest one.
LEMMA Largest ==
  ASSUME NEW N \in Nat, NEW D \in SUBSET (0 .. N), D # {}
  PROVE  \E d \in D : \A e \in D : e <= d
<1> DEFINE Short == {N - d : d \in D}
           Less == OpToRel(<, Nat)
<1>1. Short \in SUBSET Nat /\ Short # {}
  OBVIOUS
<1>2. PICK m \in Short : \A j \in Short : ~(<<j, m>> \in Less)
  BY <1>1, WFMin, NatLessThanWellFounded
<1>3. \A j \in Short : ~(j < m)
  BY <1>1, <1>2 DEF OpToRel
<1>4. PICK d \in D : m = N - d
  BY <1>2
<1>5. \A e \in D : e <= d
  <2> SUFFICES ASSUME NEW e \in D PROVE e <= d
    OBVIOUS
  <2>1. N - e \in Short /\ ~(N - e < N - d)
    BY <1>3, <1>4
  <2> QED
    BY <2>1
<1> QED
  BY <1>5

\* Each day that has a snapshot has a last one.
LEMMA BucketHasNewest ==
  ASSUME RetentionAssumption, NEW S \in SUBSET Snapshots, NEW k \in Periods, NEW x \in S
  PROVE  \E z \in S : Bucket(k, z) = Bucket(k, x) /\ NewestOfBucket(k, z, S) /\ x.at <= z.at
<1> DEFINE Ats == {y.at : y \in {z \in S : Bucket(k, z) = Bucket(k, x)}}
<1>1. MaxTime \in Nat /\ Ats \in SUBSET (0 .. MaxTime) /\ x.at \in Ats
  BY DEF RetentionAssumption, Snapshots, Times
<1>2. PICK t \in Ats : \A u \in Ats : u <= t
  BY <1>1, Largest
<1>3. PICK z \in S : Bucket(k, z) = Bucket(k, x) /\ z.at = t
  BY <1>2
<1>4. \A y \in S : Bucket(k, y) = Bucket(k, z) => y.at <= z.at
  BY <1>2, <1>3
<1> QED
  BY <1>1, <1>2, <1>3, <1>4 DEF NewestOfBucket

\* What a policy keeps of S is enough to count the days after x, as long as they
\* are fewer than the policy keeps.
LEMMA LastBucketsStay ==
  ASSUME RetentionAssumption, NEW S \in SUBSET Snapshots, NEW T \in SUBSET Snapshots,
         NEW policy \in [Periods -> Nat], NEW k \in Periods, NEW x \in Snapshots,
         NEW R \in SUBSET Snapshots, R = Kept(S, policy) \cup T,
         Cardinality(LaterBuckets(k, x, R)) < policy[k]
  PROVE  LaterBuckets(k, x, S \cup T) \subseteq LaterBuckets(k, x, R)
<1> DEFINE Gone == LaterBuckets(k, x, S \cup T) \ LaterBuckets(k, x, R)
           last == Calendar[k][MaxTime]
<1>1. R \in SUBSET (S \cup T)
  BY Zenon DEF Kept
<1>2. last \in Nat /\ \A t \in Times : Calendar[k][t] \in Nat /\ Calendar[k][t] <= last
  BY DEF RetentionAssumption, Times
<1>3. \A y \in Snapshots : Bucket(k, y) \in 0 .. last
  BY <1>2 DEF Bucket, Snapshots
<1>4. SUFFICES ASSUME Gone # {} PROVE FALSE
  BY Zenon
<1>5. Gone \in SUBSET (0 .. last)
  BY <1>3 DEF LaterBuckets
<1>6. PICK d \in Gone : \A e \in Gone : e <= d
  BY <1>2, <1>4, <1>5, Largest
<1>7. PICK w \in S \cup T : Bucket(k, w) = d /\ d > Bucket(k, x)
  BY <1>6 DEF LaterBuckets
<1>8. \A y \in R : Bucket(k, y) # d
  BY <1>6, <1>7 DEF LaterBuckets
<1>9. w \in S
  BY <1>7, <1>8
<1>10. PICK z \in S : Bucket(k, z) = d /\ NewestOfBucket(k, z, S)
  BY <1>7, <1>9, BucketHasNewest
<1>11. LaterBuckets(k, z, S) \subseteq LaterBuckets(k, x, R)
  <2> SUFFICES ASSUME NEW y \in S, Bucket(k, y) > Bucket(k, z)
               PROVE  Bucket(k, y) \in LaterBuckets(k, x, R)
    BY DEF LaterBuckets
  <2>1. Bucket(k, y) > d /\ Bucket(k, y) > Bucket(k, x)
    BY <1>3, <1>7, <1>10
  <2>2. Bucket(k, y) \in LaterBuckets(k, x, S \cup T)
    BY <2>1 DEF LaterBuckets
  <2>3. Bucket(k, y) \notin Gone
    <3>1. Bucket(k, y) \in Nat /\ d \in Nat /\ ~(Bucket(k, y) <= d)
      BY <1>2, <1>3, <1>5, <1>6, <2>1
    <3> QED
      BY <1>6, <3>1, Zenon
  <2> QED
    BY <2>2, <2>3
<1>12. Cardinality(LaterBuckets(k, z, S)) < policy[k]
  <2>1. IsFiniteSet(LaterBuckets(k, x, R))
    BY <1>1, BucketsAreFinite
  <2>2. /\ Cardinality(LaterBuckets(k, z, S)) <= Cardinality(LaterBuckets(k, x, R))
        /\ Cardinality(LaterBuckets(k, x, R)) \in Nat
        /\ Cardinality(LaterBuckets(k, z, S)) \in Nat
    BY <1>11, <2>1, FS_Subset, FS_CardinalityType
  <2> QED
    BY <2>2
<1>13. z \in Kept(S, policy)
  <2>1. Cardinality(LaterBuckets(k, z, S)) \in Nat
    BY <1>10, BucketsAreFinite, FS_CardinalityType
  <2> QED
    BY <1>10, <1>12, <2>1 DEF Kept
<1> QED
  BY <1>8, <1>10, <1>13

\* It makes no difference to what a forget leaves in the end how often the
\* policy was applied before, and when: what was forgotten in between would be
\* forgotten now, and the days it is counted by are still there.
THEOREM ForgettingInBetween ==
  ASSUME RetentionAssumption, NEW S \in SUBSET Snapshots, NEW T \in SUBSET Snapshots,
         NEW policy \in [Periods -> Nat]
  PROVE  Kept(Kept(S, policy) \cup T, policy) = Kept(S \cup T, policy)
<1> DEFINE R == Kept(S, policy) \cup T
<1>1. R \in SUBSET (S \cup T) /\ S \cup T \in SUBSET Snapshots /\ S \in SUBSET (S \cup T)
  BY Zenon DEF Kept
<1>2. ASSUME NEW x \in Kept(S \cup T, policy) PROVE x \in Kept(R, policy)
  <2>1. x \in S => x \in Kept(S, policy)
    BY <1>1, <1>2, KeptOfFewer
  <2>2. x \in R
    BY <1>2, <2>1 DEF Kept
  <2> QED
    BY <1>1, <1>2, <2>2, KeptOfFewer
<1>3. ASSUME NEW x \in Kept(R, policy) PROVE x \in Kept(S \cup T, policy)
  <2>1. x \in R /\ x \in S \cup T /\ x \in Snapshots
    BY <1>1, <1>3 DEF Kept
  <2>2. PICK k \in Periods : /\ policy[k] > 0
                             /\ NewestOfBucket(k, x, R)
                             /\ Cardinality(LaterBuckets(k, x, R)) < policy[k]
    BY <1>3 DEF Kept
  <2>3. LaterBuckets(k, x, R) = LaterBuckets(k, x, S \cup T)
    <3>1. LaterBuckets(k, x, R) \subseteq LaterBuckets(k, x, S \cup T)
      BY <1>1, Zenon DEF LaterBuckets
    <3>2. R \in SUBSET Snapshots
      BY <1>1
    <3>3. LaterBuckets(k, x, S \cup T) \subseteq LaterBuckets(k, x, R)
      BY <2>1, <2>2, <3>2, LastBucketsStay
    <3> QED
      BY <3>1, <3>3
  <2>4. ASSUME NEW y \in S, Bucket(k, y) = Bucket(k, x) PROVE y.at <= x.at
    <3>1. PICK z \in S : Bucket(k, z) = Bucket(k, y) /\ NewestOfBucket(k, z, S) /\ y.at <= z.at
      BY BucketHasNewest
    <3>2. LaterBuckets(k, z, S) \subseteq LaterBuckets(k, x, S \cup T)
      BY <2>4, <3>1 DEF LaterBuckets
    <3>3. Cardinality(LaterBuckets(k, z, S)) < policy[k]
      <4>1. /\ IsFiniteSet(LaterBuckets(k, x, R))
            /\ LaterBuckets(k, z, S) \in SUBSET LaterBuckets(k, x, R)
        BY <1>1, <2>1, <2>3, <3>2, BucketsAreFinite
      <4>2. /\ Cardinality(LaterBuckets(k, z, S)) <= Cardinality(LaterBuckets(k, x, R))
            /\ Cardinality(LaterBuckets(k, x, R)) \in Nat
            /\ Cardinality(LaterBuckets(k, z, S)) \in Nat
        BY <4>1, FS_Subset, FS_CardinalityType
      <4> QED
        BY <2>2, <4>2
    <3>4. z \in R
      BY <2>2, <3>1, <3>3 DEF Kept
    <3>5. z.at <= x.at
      BY <2>2, <2>4, <3>1, <3>4 DEF NewestOfBucket
    <3> QED
      BY <2>1, <3>1, <3>5 DEF Snapshots, Times
  <2>5. NewestOfBucket(k, x, S \cup T)
    BY <2>2, <2>4 DEF NewestOfBucket
  <2> QED
    BY <2>1, <2>2, <2>3, <2>5 DEF Kept
<1> QED
  BY <1>2, <1>3

\* What a backup and a forget do to the snapshots of one set.
LEMMA BackupOf ==
  ASSUME NEW s \in Sources, NEW r \in Sources, Backup(r)
  PROVE  \E T \in SUBSET {[source |-> r, at |-> now]} :
             Of(s)' = Of(s) \cup T /\ Made(s)' = Made(s) \cup T
<1> DEFINE b == [source |-> r, at |-> now]
<1>1. snapshots' = snapshots \cup {b} /\ made' = made \cup {b} /\ b.source = r
  BY DEF Backup
<1>2. CASE s = r
  <2>1. Of(s)' = Of(s) \cup {b} /\ Made(s)' = Made(s) \cup {b}
    BY <1>1, <1>2 DEF Of, Made
  <2> QED
    BY <2>1
<1>3. CASE s # r
  <2>1. Of(s)' = Of(s) \cup {} /\ Made(s)' = Made(s) \cup {}
    BY <1>1, <1>3 DEF Of, Made
  <2>2. {} \in SUBSET {b}
    OBVIOUS
  <2> QED
    BY <2>1, <2>2, Zenon
<1> QED
  BY <1>2, <1>3

LEMMA ForgetOf ==
  ASSUME TagsDistinct, TypeOK, NEW policy \in Policies, NEW dryRun \in BOOLEAN,
         Forget(policy, dryRun), NEW s \in Sources
  PROVE  /\ \/ Of(s)' = Of(s)
            \/ ~NoPolicy(policy) /\ Of(s)' = Kept(Of(s), policy)
         /\ Made(s)' = Made(s)
<1>1. Made(s)' = Made(s)
  BY DEF Forget, Made
<1>2. CASE dryRun \/ NoPolicy(policy)
  BY <1>1, <1>2 DEF Forget, Forgotten, Of
<1>3. CASE ~dryRun /\ ~NoPolicy(policy)
  BY <1>1, <1>3, ForgetIsIndependent
<1> QED
  BY <1>2, <1>3

LEMMA SetTypes ==
  ASSUME TypeOK, RecentInv, NEW s \in Sources
  PROVE  Of(s) \in SUBSET Made(s) /\ Made(s) \in SUBSET Snapshots /\ Of(s) \in SUBSET Snapshots
  BY DEF TypeOK, RecentInv, Of, Made

\* However often forget runs between the backups, what is in the repository of a
\* set is worth all the snapshots ever made of it: the policy keeps the same of
\* both, so that after a forget the set has what the policy would have kept had
\* nothing been forgotten before.
THEOREM HistoryTheorem ==
  ASSUME RetentionAssumption, TagsDistinct, NEW policy \in [Periods -> Nat],
         \A other \in Policies : other = policy \/ NoPolicy(other)
  PROVE  Spec => [](\A s \in Sources : Kept(Of(s), policy) = Kept(Made(s), policy))
<1> DEFINE Inv == \A s \in Sources : Kept(Of(s), policy) = Kept(Made(s), policy)
<1>1. Init => TypeOK /\ RecentInv /\ Inv
  BY TypeInit, RecentInit DEF Init, Of, Made
<1>2. ASSUME TypeOK, RecentInv, Inv, [Next]_vars, NEW s \in Sources
      PROVE  Kept(Of(s)', policy) = Kept(Made(s)', policy)
  <2>1. CASE UNCHANGED <<snapshots, made>>
    BY <1>2, <2>1 DEF Of, Made
  <2>2. ASSUME NEW r \in Sources, Backup(r)
        PROVE  Kept(Of(s)', policy) = Kept(Made(s)', policy)
    <3>1. PICK T \in SUBSET {[source |-> r, at |-> now]} :
              Of(s)' = Of(s) \cup T /\ Made(s)' = Made(s) \cup T
      BY <2>2, BackupOf
    <3>2. T \in SUBSET Snapshots
      BY <1>2, <2>2 DEF Backup, TypeOK, Snapshots, Times, RetentionAssumption
    <3>3. /\ Kept(Of(s) \cup T, policy) = Kept(Kept(Of(s), policy) \cup T, policy)
          /\ Kept(Made(s) \cup T, policy) = Kept(Kept(Made(s), policy) \cup T, policy)
      <4>1. Of(s) \in SUBSET Snapshots /\ Made(s) \in SUBSET Snapshots
        BY <1>2, SetTypes
      <4>2. Kept(Of(s) \cup T, policy) = Kept(Kept(Of(s), policy) \cup T, policy)
        BY <3>2, <4>1, ForgettingInBetween
      <4>3. Kept(Made(s) \cup T, policy) = Kept(Kept(Made(s), policy) \cup T, policy)
        BY <3>2, <4>1, ForgettingInBetween
      <4> QED
        BY <4>2, <4>3
    <3> QED
      BY <1>2, <3>1, <3>3
  <2>3. ASSUME NEW q \in Policies, NEW dryRun \in BOOLEAN, Forget(q, dryRun)
        PROVE  Kept(Of(s)', policy) = Kept(Made(s)', policy)
    <3>1. Of(s)' = Of(s) \/ Of(s)' = Kept(Of(s), policy)
      BY <1>2, <2>3, ForgetOf
    <3>2. Made(s)' = Made(s)
      BY <1>2, <2>3, ForgetOf
    <3>3. Kept(Kept(Of(s), policy), policy) = Kept(Of(s), policy)
      BY <1>2, SetTypes, KeptIsKept
    <3> QED
      BY <1>2, <3>1, <3>2, <3>3
  <2> QED
    BY <1>2, <2>1, <2>2, <2>3 DEF Next, Tick, vars
<1>3. TypeOK /\ RecentInv /\ Inv /\ [Next]_vars => (TypeOK /\ RecentInv /\ Inv)'
  BY <1>2, TypeNext, RecentNext
<1> QED
  BY <1>1, <1>3, PTL DEF Spec

\* The policy may change from one forget to the next: as long as none of them
\* keeps less of any period, the set has whatever this policy keeps of all the
\* snapshots ever made of it.
THEOREM CoverTheorem ==
  ASSUME RetentionAssumption, TagsDistinct, NEW policy \in [Periods -> Nat],
         \A other \in Policies :
             NoPolicy(other) \/ \A k \in Periods : policy[k] <= other[k]
  PROVE  Spec => [](\A s \in Sources : Kept(Made(s), policy) \subseteq Of(s))
<1> DEFINE Inv == \A s \in Sources : Kept(Made(s), policy) \subseteq Of(s)
<1>1. Init => TypeOK /\ RecentInv /\ Inv
  BY TypeInit, RecentInit DEF Init, Made, Kept
<1>2. ASSUME TypeOK, RecentInv, Inv, [Next]_vars, NEW s \in Sources
      PROVE  Kept(Made(s)', policy) \subseteq Of(s)'
  <2>1. CASE UNCHANGED <<snapshots, made>>
    BY <1>2, <2>1 DEF Of, Made
  <2>2. ASSUME NEW r \in Sources, Backup(r)
        PROVE  Kept(Made(s)', policy) \subseteq Of(s)'
    <3>1. PICK T \in SUBSET {[source |-> r, at |-> now]} :
              Of(s)' = Of(s) \cup T /\ Made(s)' = Made(s) \cup T
      BY <2>2, BackupOf
    <3>2. Made(s) \cup T \in SUBSET Snapshots /\ Made(s) \in SUBSET (Made(s) \cup T)
      BY <1>2, <2>2, SetTypes DEF Backup, TypeOK, Snapshots, Times, RetentionAssumption
    <3>3. Kept(Made(s) \cup T, policy) \cap Made(s) \subseteq Kept(Made(s), policy)
      BY <3>2, KeptOfFewer
    <3>4. Kept(Made(s) \cup T, policy) \subseteq Made(s) \cup T
      BY DEF Kept
    <3> QED
      BY <1>2, <3>1, <3>3, <3>4
  <2>3. ASSUME NEW q \in Policies, NEW dryRun \in BOOLEAN, Forget(q, dryRun)
        PROVE  Kept(Made(s)', policy) \subseteq Of(s)'
    <3>1. CASE Of(s)' = Of(s)
      BY <1>2, <2>3, <3>1, ForgetOf
    <3>2. CASE ~NoPolicy(q) /\ Of(s)' = Kept(Of(s), q)
      <4>1. Kept(Made(s), policy) \cap Of(s) \subseteq Kept(Of(s), policy)
        BY <1>2, SetTypes, KeptOfFewer
      <4>2. Kept(Of(s), policy) \subseteq Kept(Of(s), q)
        <5>1. q \in [Periods -> Nat]
          BY DEF RetentionAssumption
        <5> QED
          BY <1>2, <3>2, <5>1, SetTypes, KeptGrows
      <4>3. Made(s)' = Made(s)
        BY <1>2, <2>3, ForgetOf
      <4> QED
        BY <1>2, <3>2, <4>1, <4>2, <4>3
    <3> QED
      BY <1>2, <2>3, <3>1, <3>2, ForgetOf
  <2> QED
    BY <1>2, <2>1, <2>2, <2>3 DEF Next, Tick, vars
<1>3. TypeOK /\ RecentInv /\ Inv /\ [Next]_vars => (TypeOK /\ RecentInv /\ Inv)'
  BY <1>2, TypeNext, RecentNext
<1> QED
  BY <1>1, <1>3, PTL DEF Spec

=============================================================================
