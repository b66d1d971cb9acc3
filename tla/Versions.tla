------------------------------ MODULE Versions ------------------------------
(***************************************************************************)
(* The comparison behind the version gate (internal/restic/version.go).  A *)
(* version is the sequence of its dotted components; what follows a `-' or *)
(* a `+' is dropped before.  NotANumber is a component Atoi rejects.       *)
(***************************************************************************)
EXTENDS Integers, Sequences

NotANumber == -1

Parses(v) == \A i \in DOMAIN v : v[i] # NotANumber

\* Missing components are zero.
Component(v, i) == IF i <= Len(v) THEN v[i] ELSE 0

Longer(v, w) == IF Len(v) < Len(w) THEN Len(w) ELSE Len(v)

\* Mutant: the comparison ends with the shorter version.
OlderOnCommon(v, w) ==
    \E i \in 1 .. (IF Len(v) < Len(w) THEN Len(v) ELSE Len(w)) :
        /\ v[i] < w[i]
        /\ \A j \in 1 .. i - 1 : v[j] = w[j]

\* compareVersions(v, w) < 0: the first component that differs decides.
Older(v, w) ==
    \E i \in 1 .. Longer(v, w) :
        /\ Component(v, i) < Component(w, i)
        /\ \A j \in 1 .. i - 1 : Component(v, j) = Component(w, j)

-----------------------------------------------------------------------------
(* The reference: releases of up to three components, as numbers *)

Radix == 1000

Release(v) == v \in Seq(0 .. Radix - 1) /\ Len(v) \in 1 .. 3

Number(v) == (Component(v, 1) * Radix + Component(v, 2)) * Radix + Component(v, 3)
=============================================================================
