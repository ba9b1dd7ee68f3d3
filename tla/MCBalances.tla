---------------------------- MODULE MCBalances ----------------------------
(* Instances of Balances for TLC. *)
EXTENDS Balances

\* Both signs, and the amount that is refused.
MCAmounts == {-5, 0, 5}

\* Twice the price, twice the charge; the same for the share of the votes.
MCCharge == [x \in Prices \X Votes |-> 5 * x[1] * x[2]]

=============================================================================
