----------------------------- MODULE Confirmation -----------------------------
(***************************************************************************)
(* What the page of the bank transfers promises an editor: first load and  *)
(* look through the incoming operations, "the balance will change only     *)
(* after a separate confirmation of the operation" (PaymentsPage.tsx:87).  *)
(* ZenMoneyPayments with a record of what was decided.                     *)
(***************************************************************************)
EXTENDS ZenMoneyPayments

VARIABLE decided   \* history: the transfers an editor has decided about

ConfirmationInit == Init /\ decided = {}

ConfirmationNext ==
  \/ \E t \in Transfers :
       /\ Decide(t) \/ ApproveMatched(t)
       /\ decided' = decided \cup {t}
  \/ /\ \/ Sync
        \/ \E requested \in [Accounts -> PaymentTypes \cup {NoType}],
              lists \in [Accounts -> SUBSET Patterns] : SaveSettings(requested, lists)
        \/ \E u \in Users, type \in PaymentTypes, m \in Money : CreatePayment(u, type, m)
        \/ \E p \in Positions : DeletePayment(p)
     /\ UNCHANGED decided

ConfirmationSpec == ConfirmationInit /\ [][ConfirmationNext]_<<vars, decided>>

\* What the payment at p adds to the balances.
Contribution(p) ==
  IF payments[p] = NoRow \/ ~payments[p].included THEN {}
  ELSE {<<payments[p].user, payments[p].money>>}

\* A synchronisation changes the balance by no operation an editor has not decided about
\* (PaymentsPage.tsx:87).  The code lets it: _upsert_payment adopts a payment that was
\* entered by hand for a matched transfer (zenmoney.py:561-579), and what ZenMoney says
\* of the transfer later is written into it (zenmoney.py:607-613, 709-713).
OnlyConfirmedCounts ==
  [][Sync => \A p \in Positions :
       Contribution(p)' # Contribution(p) =>
         \E t \in decided : Linked(transactions[t]) /\ transactions[t].payment = p]_<<vars, decided>>

=============================================================================
