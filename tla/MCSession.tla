----------------------------- MODULE MCSession ------------------------------
(* Session for TLC: accounts are interchangeable. *)
EXTENDS Session, TLC

Symmetry == Permutations(Accounts)
=============================================================================
