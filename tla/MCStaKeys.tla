----------------------------- MODULE MCStaKeys -----------------------------
(* Instances of StaKeys for TLC.                                           *)
EXTENDS StaKeys, TLC

CONSTANTS v1, v2

(* A group key index that both interfaces use, and one of v2's own.        *)
SharedKey == (v1 :> {0}) @@ (v2 :> {0, 1})

OneKey == v1 :> {0}

Symmetry == Permutations(Stas)

============================================================================
