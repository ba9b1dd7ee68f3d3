--------------------------- MODULE MCZenMoneyRaces ---------------------------
(* Values for ZenMoneyRaces: every sender is matched by name with every user. *)
EXTENDS ZenMoneyRaces, TLC

\* Sessions are told apart by nothing but what they hold.
SessionSymmetry == Permutations(Sessions)

MCNames == [s \in Senders |-> Users]
MCNoUsers == [s \in Senders |-> {}]
MCRulePattern == [s \in Senders |-> NoPattern]
MCLabel == [s \in Senders |-> s]
MCCovers == [q \in Patterns |-> {q}]

=============================================================================
