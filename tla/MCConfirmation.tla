--------------------------- MODULE MCConfirmation ---------------------------
(* Values for Confirmation: every sender is matched by name with every user. *)
EXTENDS Confirmation

MCNames == [s \in Senders |-> Users]
MCNoUsers == [s \in Senders |-> {}]
MCRulePattern == [s \in Senders |-> NoPattern]
MCLabel == [s \in Senders |-> s]
MCCovers == [q \in Patterns |-> {q}]

=============================================================================
