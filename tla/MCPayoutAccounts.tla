-------------------------- MODULE MCPayoutAccounts --------------------------
(* PayoutAccounts for TLC. *)
EXTENDS PayoutAccounts, TLC

MCWith(f) == [k \in Keys |-> IF k \in DOMAIN f THEN f[k] ELSE None]

\* A destination in canonical keys, one in the keys of other providers, and a
\* patch that adds the phone and takes the bank's code away.
MCInputs ==
    {MCWith([bank_code |-> "v1", account_number |-> "v1"]),
     MCWith([swift_code |-> "v2", routing_number |-> "v1", iban |-> "v2"]),
     MCWith("beneficiary.phone" :> "v1" @@ "country" :> "v1" @@ "bank_code" :> Null)}

\* The stored account of updateAccount.test.ts.
MCOldOnes == {MCWith([account_number |-> "v1", swift_code |-> "v2"])}

MCRequirements ==
    {{"account_number", "bank_code"}, {"account_number", "beneficiary.phone_number"}}

\* Handlers run the same code.
MCSymmetry == Permutations(Handlers)
=============================================================================
