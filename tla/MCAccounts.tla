----------------------------- MODULE MCAccounts -----------------------------
(* Accounts for TLC. *)
EXTENDS Accounts, TLC

\* Handlers run the same code.
MCSymmetry == Permutations(Handlers)
=============================================================================
