--------------------------- MODULE PayoutContract ---------------------------
(***************************************************************************)
(* What an offramp promises about money, with no database, no handler and   *)
(* no webhook in it: fiat leaves only against crypto that was credited, and *)
(* a new payout is minted only once the one it replaces has failed.  The    *)
(* module Offramp implements this specification.                            *)
(***************************************************************************)
EXTENDS Naturals

CONSTANTS
    Deposits,   \* the crypto deposits the customer may send to the address
    Total,      \* Total[S] is the amount of the deposits of S together
    Expected,   \* the quoted deposit
    Tolerance,  \* the underpayment still taken for a complete deposit
    MaxPayout   \* how many payouts an instance may mint for one offramp

VARIABLES
    counted,    \* the deposits the offramp has been credited with
    payout      \* the state of each fiat payout at the liquidity provider

vars == <<counted, payout>>

Payouts == 1..MaxPayout

\* The quoted amount is covered, or short by less than the tolerance.
Funded(S) == Total[S] >= Expected \/ Expected < Total[S] + Tolerance

Init ==
    /\ counted = {}
    /\ payout = [n \in Payouts |-> "none"]

\* A deposit is credited, once.
Credit(d) ==
    /\ d \notin counted
    /\ counted' = counted \union {d}
    /\ UNCHANGED payout

\* The first payout needs the deposit to be complete.
Pay ==
    /\ 1 \in Payouts
    /\ payout[1] = "none"
    /\ Funded(counted)
    /\ payout' = [payout EXCEPT ![1] = "pending"]
    /\ UNCHANGED counted

\* The provider moves a payout forward; paid and failed are final.
Settle(n) ==
    /\ \/ payout[n] = "pending" /\ payout' = [payout EXCEPT ![n] = "funded"]
       \/ /\ payout[n] \in {"pending", "funded"}
          /\ \E s \in {"successful", "failed"} : payout' = [payout EXCEPT ![n] = s]
    /\ UNCHANGED counted

\* A failed payout is replaced by the next one.
Reissue(n) ==
    /\ n + 1 \in Payouts
    /\ payout[n] = "failed"
    /\ payout[n + 1] = "none"
    /\ payout' = [payout EXCEPT ![n + 1] = "pending"]
    /\ UNCHANGED counted

Next ==
    \/ \E d \in Deposits : Credit(d)
    \/ Pay
    \/ \E n \in Payouts : Settle(n) \/ Reissue(n)

Spec == Init /\ [][Next]_vars
-----------------------------------------------------------------------------
\* The customer is never paid twice: a payout exists only when every earlier
\* one of the offramp has failed at the provider.
OneLivePayout ==
    \A m, n \in Payouts : m < n /\ payout[n] # "none" => payout[m] = "failed"

\* No fiat leaves before the crypto is in.
PayoutIsFunded ==
    (\E n \in Payouts : payout[n] # "none") => Funded(counted)
=============================================================================
