---------------------------- MODULE PaymentsPage ----------------------------
(***************************************************************************)
(* What the payments page shows as accepted                                *)
(* (frontend/src/pages/PaymentsPage.tsx).                                  *)
(***************************************************************************)
EXTENDS ZenMoneyPayments

\* The rows list_transactions returns: those of configured accounts.
Listed(t) == Decidable(t)

\* The view of accepted operations, with the filters set to show all they can.
InAccepted(t) ==
  Listed(t) /\ Linked(transactions[t]) /\ transactions[t].status = "matched"

-----------------------------------------------------------------------------
(* Properties *)

\* What the page shows as accepted counts in the balance, with the user, the date
\* and the amount the row shows, after any mix of synchronisations, decisions and
\* changes of the settings (PaymentsPage.tsx:81, zenmoney.py:606-613).
AcceptedCounts ==
  \A t \in Transfers : InAccepted(t) =>
    LET row == payments[transactions[t].payment]
    IN  /\ row.included
        /\ row.user = transactions[t].user
        /\ row.money = transactions[t].money

=============================================================================
