------------------------------- MODULE MCKyb -------------------------------
(* Kyb for TLC. *)
EXTENDS Kyb, TLC

\* The provider approves the user for a rail, takes the application back to
\* incomplete, and speaks of the rail without a status.
MCDecisions ==
    {[user |-> "q1", type |-> "kyb.approved", status |-> None, rails |-> {"USD"}],
     [user |-> "q1", type |-> "kyb.status_updated", status |-> "incomplete", rails |-> {}],
     [user |-> "q1", type |-> "kyb.status_updated", status |-> None, rails |-> {"USD"}]}

\* Handlers run the same code; e-mails are only compared.
MCSymmetry == Permutations(Handlers) \cup Permutations(Emails)
=============================================================================
