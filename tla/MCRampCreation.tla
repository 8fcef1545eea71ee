---------------------------- MODULE MCRampCreation ---------------------------
(* RampCreation for TLC: one quote of each kind. *)
EXTENDS RampCreation, TLC

CONSTANTS qon, qoff

MCQuotes == {qon, qoff}

MCQuoteKind == (qon :> "onramp") @@ (qoff :> "offramp")

\* Requests are told apart by their bodies only, and ids by nothing.
MCSymmetry == Permutations(Requests) \union Permutations(Ids)
=============================================================================
