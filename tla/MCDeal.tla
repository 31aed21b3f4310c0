------------------------------- MODULE MCDeal -------------------------------
(* Small instances of Deal for TLC.                                        *)
EXTENDS Deal, TLC
Symmetry == Permutations(User) \cup Permutations(Courier)
=============================================================================
