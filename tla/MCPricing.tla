----------------------------- MODULE MCPricing -----------------------------
(* Pricing for TLC.  One key is the pair's rule on both sides (Sell = Buy):  *)
(* a quote reads one side's rule only, and one quote is followed at a time.  *)
EXTENDS Pricing, TLC

\* The pair has a markup from the start.
MCConfigRules == [k \in MarkupKeys |-> IF k = Sell THEN 1 ELSE None]

MCInput ==
    [kind |-> "offramp", fixed |-> "send", amount |-> 7, whole |-> FALSE, usd |-> FALSE,
     wire |-> FALSE, double |-> FALSE, named |-> FALSE,
     fee |-> [type |-> "PERCENTAGE", value |-> 1]]

\* Sales that fix what is received, round to whole units, are of dollars by
\* wire, or are half of a fiat-to-fiat transfer; purchases of each account.
MCInputs ==
    {[MCInput EXCEPT !.fixed = "receive", !.amount = 101],
     [MCInput EXCEPT !.whole = TRUE, !.double = TRUE],
     [MCInput EXCEPT !.usd = TRUE, !.wire = TRUE, !.fee = [type |-> "FLAT", value |-> 2]],
     [MCInput EXCEPT !.kind = "onramp", !.amount = 70],
     [MCInput EXCEPT !.kind = "onramp", !.named = TRUE, !.fixed = "receive"]}
=============================================================================
