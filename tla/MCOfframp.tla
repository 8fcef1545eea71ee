------------------------------ MODULE MCOfframp -----------------------------
(* Offramp for TLC: deposits are model values of two cents each. *)
EXTENDS Offramp, FiniteSetsExt, TLC

MCAmount == [d \in Deposits |-> 2]

MCTotal == [S \in SUBSET Deposits |-> MapThenSumSet(LAMBDA d : MCAmount[d], S)]

\* Handlers run the same code and all deposits have the same amount.
MCSymmetry == Permutations(Handlers) \union Permutations(Deposits)
=============================================================================
