---------------------------- MODULE MCFileHandler ----------------------------
(* Values for the constants of FileHandler.                                 *)
EXTENDS FileHandler, TLC

CONSTANTS h1, h2, f1, t1

TwoHandlers == {h1, h2}
OneFile == {f1}
OneTemp == {t1}
AllModes == {{}, {"write"}, {"append"}, {"append", "write"}}
Lengths == [f \in {f1, t1} |-> IF f = f1 THEN 3 ELSE 1]
Symmetry == Permutations(TwoHandlers)
Words == {<<>>, <<"a">>, <<"a", NL>>, <<NL, NL>>}
=============================================================================
