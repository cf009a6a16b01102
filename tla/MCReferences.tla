---------------------------- MODULE MCReferences ----------------------------
(* Values for the constants of References and LibraryObjects.               *)
EXTENDS LibraryObjects, TLC

CONSTANTS v1, v2, t1, t2, o1, o2, io

TwoVariants == {v1, v2}
TwoTables == {t1, t2}
TwoObjects == {o1, o2}
OneName == {io}
Addresses == TwoTables \cup TwoObjects

\* Every address has its own key: no two agree in the low 32 bits.
OwnKey == [a \in Addresses |-> a]
Symmetry == Permutations(TwoVariants)
=============================================================================
