--------------------------- MODULE VersionsProofs ---------------------------
(***************************************************************************)
(* The comparison of versions, component by component with missing ones    *)
(* taken for zero, is an order, and that of releases as numbers.           *)
(***************************************************************************)
EXTENDS Versions, SequenceTheorems, WellFoundedInduction, TLAPS

\* The values of a component.
Digits == 0 .. Radix - 1

LEMMA ComponentType ==
  ASSUME NEW u, Release(u), NEW i \in 1 .. 3
  PROVE  Component(u, i) \in Digits
<1>1. u \in Seq(Digits) /\ Len(u) \in Nat
  BY SMT DEF Release, Digits
<1>2. CASE i <= Len(u)
  <2>1. i \in 1 .. Len(u)
    BY <1>1, <1>2, SMT
  <2>2. u[i] \in Digits
    BY <1>1, <2>1, ElementOfSeq, Zenon
  <2> QED
    BY <1>2, <2>2, Zenon DEF Component
<1>3. CASE ~(i <= Len(u))
  BY <1>3, SMT DEF Component, Digits, Radix
<1> QED
  BY <1>2, <1>3, Zenon

\* Number, of the three components.
Value(a, b, c) == (a * Radix + b) * Radix + c

\* The first component that differs decides.
Precedes(a, b, c, d, e, f) == a < d \/ (a = d /\ b < e) \/ (a = d /\ b = e /\ c < f)

LEMMA ValueType ==
  ASSUME NEW a \in Nat, NEW b \in Nat, NEW c \in Nat
  PROVE  Value(a, b, c) \in Nat
  BY SMT DEF Value, Radix

LEMMA NumberType ==
  ASSUME NEW v, Release(v)
  PROVE  Number(v) \in Nat
<1>1. 1 \in 1 .. 3 /\ 2 \in 1 .. 3 /\ 3 \in 1 .. 3 /\ \A m \in Digits : m \in Nat
  BY SMT DEF Digits, Radix
<1>2. Component(v, 1) \in Nat /\ Component(v, 2) \in Nat /\ Component(v, 3) \in Nat
  BY <1>1, ComponentType, Zenon
<1> QED
  BY <1>2, ValueType, SMT DEF Number, Value

LEMMA FirstDifference ==
  ASSUME NEW a \in Digits, NEW b \in Digits, NEW c \in Digits,
         NEW d \in Digits, NEW e \in Digits, NEW f \in Digits
  PROVE  Precedes(a, b, c, d, e, f) <=> Value(a, b, c) < Value(d, e, f)
<1>1. /\ (a * 1000 + b) * 1000 + c = 1000000 * a + 1000 * b + c
      /\ (d * 1000 + e) * 1000 + f = 1000000 * d + 1000 * e + f
  BY SMT DEF Digits, Radix
<1>2. Precedes(a, b, c, d, e, f)
        <=> 1000000 * a + 1000 * b + c < 1000000 * d + 1000 * e + f
  BY SMT DEF Digits, Radix, Precedes
<1> QED
  BY <1>1, <1>2, SMT DEF Value, Radix

\* For any two releases of at most three components below 1000, compareVersions
\* orders them as the numbers they stand for.
THEOREM OlderIsSmaller ==
  ASSUME NEW v, NEW w, Release(v), Release(w)
  PROVE  Older(v, w) <=> Number(v) < Number(w)
<1>1. \A i \in 1 .. 3 : i > Longer(v, w) => Component(v, i) = Component(w, i)
  BY SMT DEF Release, Component, Longer
<1>2. Longer(v, w) \in 1 .. 3
  BY SMT DEF Release, Longer
<1>3. \A i \in 1 .. 3 : Component(v, i) \in Digits /\ Component(w, i) \in Digits
  BY ComponentType, Zenon
<1>4. Older(v, w) <=>
        \E i \in 1 .. 3 : /\ Component(v, i) < Component(w, i)
                        /\ \A j \in 1 .. i - 1 : Component(v, j) = Component(w, j)
  BY <1>1, <1>2, <1>3, SMTT(30) DEF Older, Digits, Radix
<1>5. Older(v, w) <=> Precedes(Component(v, 1), Component(v, 2), Component(v, 3),
                               Component(w, 1), Component(w, 2), Component(w, 3))
  BY <1>4, SMT DEF Precedes
<1>6. 1 \in 1 .. 3 /\ 2 \in 1 .. 3 /\ 3 \in 1 .. 3
  BY SMT
<1>7. /\ Component(v, 1) \in Digits /\ Component(w, 1) \in Digits
      /\ Component(v, 2) \in Digits /\ Component(w, 2) \in Digits
      /\ Component(v, 3) \in Digits /\ Component(w, 3) \in Digits
  BY <1>3, <1>6, Zenon
<1>8. Older(v, w) <=> Value(Component(v, 1), Component(v, 2), Component(v, 3))
                        < Value(Component(w, 1), Component(w, 2), Component(w, 3))
  BY <1>5, <1>7, FirstDifference, Zenon
<1> QED
  BY <1>8, SMT DEF Number, Value
-----------------------------------------------------------------------------
(* Versions of any number of components *)

\* compareVersions(v, w) = 0.
Same(v, w) == \A i \in 1 .. Longer(v, w) : Component(v, i) = Component(w, i)

LEMMA Components ==
  ASSUME NEW v \in Seq(Nat), NEW w \in Seq(Nat)
  PROVE  /\ Longer(v, w) \in Nat /\ Longer(v, w) = Longer(w, v)
         /\ \A i \in Nat \ {0} : Component(v, i) \in Nat /\ Component(w, i) \in Nat
         /\ \A i \in Nat : i > Longer(v, w) => Component(v, i) = Component(w, i)
<1>1. Len(v) \in Nat /\ Len(w) \in Nat
  BY SMT
<1>2. ASSUME NEW u \in Seq(Nat), NEW i \in Nat \ {0} PROVE Component(u, i) \in Nat
  <2>1. CASE i <= Len(u)
    <3>1. i \in 1 .. Len(u)
      BY <2>1, SMT
    <3> QED
      BY <2>1, <3>1, ElementOfSeq, Zenon DEF Component
  <2> QED
    BY <2>1, SMT DEF Component
<1> QED
  BY <1>1, <1>2, SMT DEF Longer, Component

\* The position that decides need not be looked for below the longer of the two.
LEMMA OlderAt ==
  ASSUME NEW v \in Seq(Nat), NEW w \in Seq(Nat), NEW i \in Nat \ {0},
         Component(v, i) < Component(w, i),
         \A j \in 1 .. i - 1 : Component(v, j) = Component(w, j)
  PROVE  Older(v, w)
<1>1. /\ Longer(v, w) \in Nat
      /\ Component(v, i) \in Nat /\ Component(w, i) \in Nat
      /\ i > Longer(v, w) => Component(v, i) = Component(w, i)
  BY Components, Zenon
<1>2. i \in 1 .. Longer(v, w)
  BY <1>1, SMT
<1> QED
  BY <1>2, Zenon DEF Older

LEMMA OlderTransitive ==
  ASSUME NEW u \in Seq(Nat), NEW v \in Seq(Nat), NEW w \in Seq(Nat), Older(u, v), Older(v, w)
  PROVE  Older(u, w)
<1>1. PICK i \in 1 .. Longer(u, v) :
          /\ Component(u, i) < Component(v, i)
          /\ \A m \in 1 .. i - 1 : Component(u, m) = Component(v, m)
  BY Zenon DEF Older
<1>2. PICK j \in 1 .. Longer(v, w) :
          /\ Component(v, j) < Component(w, j)
          /\ \A m \in 1 .. j - 1 : Component(v, m) = Component(w, m)
  BY Zenon DEF Older
<1>3. i \in Nat \ {0} /\ j \in Nat \ {0}
  BY Components, SMT
<1>4. \A m \in Nat \ {0} :
         Component(u, m) \in Nat /\ Component(v, m) \in Nat /\ Component(w, m) \in Nat
  BY Components, Zenon
<1>5. CASE i <= j
  <2>1. Component(u, i) < Component(w, i)
    <3>1. CASE i = j
      <4>1. Component(u, i) < Component(v, i) /\ Component(v, i) < Component(w, i)
        BY <1>1, <1>2, <3>1, Zenon
      <4> QED
        BY <1>3, <1>4, <4>1, SMT
    <3>2. CASE i < j
      BY <1>1, <1>2, <1>3, <1>4, <3>2, SMT
    <3> QED
      BY <1>3, <1>5, <3>1, <3>2, SMT
  <2>2. \A m \in 1 .. i - 1 : Component(u, m) = Component(w, m)
    BY <1>1, <1>2, <1>3, <1>5, SMT
  <2> QED
    BY <1>3, <2>1, <2>2, OlderAt
<1>6. CASE j < i
  <2>1. Component(u, j) < Component(w, j)
    BY <1>1, <1>2, <1>3, <1>4, <1>6, SMT
  <2>2. \A m \in 1 .. j - 1 : Component(u, m) = Component(w, m)
    BY <1>1, <1>2, <1>3, <1>6, SMT
  <2> QED
    BY <1>3, <2>1, <2>2, OlderAt
<1> QED
  BY <1>3, <1>5, <1>6, SMT

LEMMA OlderAsymmetric ==
  ASSUME NEW v \in Seq(Nat), NEW w \in Seq(Nat), Older(v, w)
  PROVE  ~Older(w, v) /\ ~Same(v, w)
<1>1. PICK i \in 1 .. Longer(v, w) :
          /\ Component(v, i) < Component(w, i)
          /\ \A m \in 1 .. i - 1 : Component(v, m) = Component(w, m)
  BY Zenon DEF Older
<1>2. \A m \in Nat \ {0} : Component(v, m) \in Nat /\ Component(w, m) \in Nat
  BY Components, Zenon
<1>3. i \in Nat \ {0}
  BY Components, SMT
<1>4. ~Same(v, w)
  BY <1>1, <1>2, <1>3, SMT DEF Same
<1>5. ASSUME Older(w, v) PROVE FALSE
  <2>1. PICK j \in 1 .. Longer(w, v) :
            /\ Component(w, j) < Component(v, j)
            /\ \A m \in 1 .. j - 1 : Component(w, m) = Component(v, m)
    BY <1>5, Zenon DEF Older
  <2>2. j \in Nat \ {0}
    BY Components, SMT
  <2>3. CASE i < j
    <3>1. Component(w, i) = Component(v, i)
      BY <1>3, <2>1, <2>2, <2>3, SMT
    <3> QED
      BY <1>1, <1>2, <1>3, <3>1, SMT
  <2>4. CASE j < i
    <3>1. Component(w, j) = Component(v, j)
      BY <1>1, <1>3, <2>2, <2>4, SMT
    <3> QED
      BY <1>2, <2>1, <2>2, <3>1, SMT
  <2>5. CASE i = j
    <3>1. Component(v, i) < Component(w, i) /\ Component(w, i) < Component(v, i)
      BY <1>1, <2>1, <2>5, Zenon
    <3> QED
      BY <1>2, <1>3, <3>1, SMT
  <2> QED
    BY <1>3, <2>2, <2>3, <2>4, <2>5, SMT
<1> QED
  BY <1>4, <1>5

\* Of two versions that differ, the least position at which they do decides.
LEMMA OlderTotal ==
  ASSUME NEW v \in Seq(Nat), NEW w \in Seq(Nat), ~Same(v, w)
  PROVE  Older(v, w) \/ Older(w, v)
<1> DEFINE Differ == {i \in Nat \ {0} : Component(v, i) # Component(w, i)}
           Less == OpToRel(<, Nat)
<1>0. Longer(v, w) \in Nat
  BY Components, Zenon
<1>1. Differ \in SUBSET Nat /\ Differ # {}
  <2>1. PICK i \in 1 .. Longer(v, w) : Component(v, i) # Component(w, i)
    BY Zenon DEF Same
  <2>2. i \in Nat \ {0} /\ Differ \in SUBSET Nat
    BY <1>0, SMT
  <2> QED
    BY <2>1, <2>2, Zenon
<1>2. PICK i \in Differ : \A j \in Differ : ~(<<j, i>> \in Less)
  BY <1>1, WFMin, NatLessThanWellFounded
<1>3. \A j \in Nat : j < i => j \notin Differ
  <2>1. \A j \in Nat : j < i => <<j, i>> \in Less
    BY <1>1, <1>2 DEF OpToRel
  <2> QED
    BY <1>2, <2>1, Zenon
<1>4. \A j \in 1 .. i - 1 : Component(v, j) = Component(w, j)
  BY <1>3, SMT
<1>5. i \in Nat \ {0} /\ Component(v, i) \in Nat /\ Component(w, i) \in Nat
  BY Components
<1>6. Component(v, i) < Component(w, i) \/ Component(w, i) < Component(v, i)
  BY <1>5, SMT
<1>7. CASE Component(v, i) < Component(w, i)
  BY <1>4, <1>5, <1>7, OlderAt
<1>8. CASE Component(w, i) < Component(v, i)
  <2>1. \A j \in 1 .. i - 1 : Component(w, j) = Component(v, j)
    BY <1>4
  <2> QED
    BY <1>5, <1>8, <2>1, OlderAt
<1> QED
  BY <1>6, <1>7, <1>8

\* For versions of any number of components compareVersions is a strict order,
\* and exactly one of older, same (0.16 and 0.16.0) and newer holds: the gate
\* cannot refuse one release and accept an older one.
THEOREM OlderIsAnOrder ==
  ASSUME NEW u \in Seq(Nat), NEW v \in Seq(Nat), NEW w \in Seq(Nat)
  PROVE  /\ ~Older(v, v)
         /\ Older(u, v) /\ Older(v, w) => Older(u, w)
         /\ Older(v, w) => ~Older(w, v) /\ ~Same(v, w)
         /\ Older(v, w) \/ Same(v, w) \/ Older(w, v)
<1>1. ~Older(v, v)
  BY OlderAsymmetric
<1> QED
  BY <1>1, OlderTransitive, OlderAsymmetric, OlderTotal

LEMMA SameIsEqual ==
  ASSUME NEW v \in Seq(Nat), NEW w \in Seq(Nat), Same(v, w), NEW i \in Nat \ {0}
  PROVE  Component(v, i) = Component(w, i)
<1>1. Longer(v, w) \in Nat /\ (i > Longer(v, w) => Component(v, i) = Component(w, i))
  BY Components, Zenon
<1>2. CASE i \in 1 .. Longer(v, w)
  BY <1>2, Zenon DEF Same
<1> QED
  BY <1>1, <1>2, SMT

\* The gate is monotonic: once an installed release is accepted, no later one is
\* refused, and no earlier minimum refuses it.
THEOREM GateIsMonotonic ==
  ASSUME NEW u \in Seq(Nat), NEW v \in Seq(Nat), NEW w \in Seq(Nat),
         ~Older(u, v), ~Older(v, w)
  PROVE  ~Older(u, w)
<1> SUFFICES ASSUME Older(u, w) PROVE FALSE
  OBVIOUS
<1>1. CASE Older(v, u)
  BY <1>1, OlderTransitive
<1>2. CASE Same(u, v)
  <2>1. PICK i \in 1 .. Longer(u, w) :
            /\ Component(u, i) < Component(w, i)
            /\ \A j \in 1 .. i - 1 : Component(u, j) = Component(w, j)
    BY Zenon DEF Older
  <2>2. Longer(u, w) \in Nat
    BY Components, Zenon
  <2>3. i \in Nat \ {0} /\ \A j \in 1 .. i - 1 : j \in Nat \ {0}
    BY <2>2, SMT
  <2>4. /\ Component(v, i) < Component(w, i)
        /\ \A j \in 1 .. i - 1 : Component(v, j) = Component(w, j)
    BY <1>2, <2>1, <2>3, SameIsEqual, Zenon
  <2> QED
    BY <2>3, <2>4, OlderAt
<1> QED
  BY <1>1, <1>2, OlderTotal
=====
