------------------------------ MODULE MCOnramp ------------------------------
(* Onramp for TLC. *)
EXTENDS Onramp, TLC

\* Handlers run the same code.
MCSymmetry == Permutations(Handlers)
=============================================================================
