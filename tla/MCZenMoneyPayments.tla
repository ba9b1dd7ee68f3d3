------------------------- MODULE MCZenMoneyPayments -------------------------
(***************************************************************************)
(* Values for the constants of ZenMoneyPayments.  A transfer of the sender *)
(* "anna" has the payee Anna, the name of user u1; one of the sender       *)
(* "both" has a comment as well, which names u2.  What is learned and      *)
(* blacklisted is made from the payee, and applies to both.                *)
(***************************************************************************)
EXTENDS PaymentsPage, TLC

CONSTANTS u1, u2, anna, both

\* Matching by name only.
MCNameUsers == [s \in Senders |-> IF s = both THEN {u1, u2} ELSE {u1}]
MCContactUsers == [s \in Senders |-> {}]

MCRulePattern == [s \in Senders |-> anna]
MCLabel == [s \in Senders |-> anna]
MCRuleCovers == [q \in Patterns |-> Senders]
MCBlocks == [q \in Patterns |-> Senders]

\* Transfers are told apart by nothing but their rows.
TransferSymmetry == Permutations(Transfers)

=============================================================================
