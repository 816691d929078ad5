----------------------------- MODULE MCSessions ------------------------------
(***************************************************************************)
(* Small instances of Sessions for TLC.                                    *)
(***************************************************************************)
EXTENDS Sessions, TLC

CONSTANTS r1, r2, r3, s1, s2, k1, k2

MCFirstPassword == [a \in Admins |-> "old"]

MCDerived == [s \in Secrets |-> IF s = s1 THEN k1 ELSE k2]

Symmetry == Permutations({r1, r2, r3})
=============================================================================
