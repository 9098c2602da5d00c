------------------------------- MODULE MCCod -------------------------------
(* Small instances of Cod. *)
EXTENDS Cod, TLC

CONSTANTS o1, o2, a1, a2, b1, f1, t1, t2, r1, r2, m1, m2

\* Documents of one kind are interchangeable, and so are parcels and agents.
MCSymmetry ==
    Permutations(Obligations) \cup Permutations(Agents) \cup Permutations(Transfers)
        \cup Permutations(Reconciliations) \cup Permutations(Remittances)
=============================================================================
