------------------------------- MODULE Ordered -------------------------------
(* Sorting and filtering: the members of a finite set in ascending order, and *)
(* the entries of a sequence that a filter keeps.                             *)
EXTENDS Integers, FiniteSets

\* f lists the set of numbers K in ascending order.
Lists(f, K) ==
    /\ \A i, j \in DOMAIN f : i < j => f[i] < f[j]
    /\ {f[i] : i \in DOMAIN f} = K

\* The entries of q at the positions K, in their order.
Entries(q, K) ==
    LET at == CHOOSE f \in [1..Cardinality(K) -> K] : Lists(f, K) IN
    [i \in 1..Cardinality(K) |-> q[at[i]]]

\* The members of S as a sequence; order is the set of pairs of them in which
\* the first one is before the second.
Sorted(S, order) ==
    [i \in 1..Cardinality(S) |->
        CHOOSE x \in S : Cardinality({y \in S : <<y, x>> \in order}) = i - 1]
=============================================================================
