----------------------- MODULE ZenMoneyPaymentsProofs -----------------------
(***************************************************************************)
(* What ZenMoneyPayments, PaymentsPage and ZenMoneyRaces keep true for all *)
(* users, accounts, transfers, senders and sessions and every matching of  *)
(* senders with users.                                                     *)
(***************************************************************************)
EXTENDS PaymentsPage, ZenMoneyRaces, TLAPS

Tables == [Transfers -> Transaction \cup {NoRow}]

\* match_sender returns a status, and with "matched" a user.
LEMMA MatchType ==
  ASSUME NEW s \in Senders, NEW blocked, NEW learned
  PROVE  /\ match_sender(s, blocked, learned).status \in Statuses
         /\ match_sender(s, blocked, learned).user \in Users \cup {NoUser}
         /\ match_sender(s, blocked, learned).status = "matched"
              => match_sender(s, blocked, learned).user \in Users
<1>1. CASE \E q \in blocked : s \in Blocks[q]
  BY <1>1 DEF match_sender, Statuses
<1>2. CASE /\ ~ \E q \in blocked : s \in Blocks[q]
           /\ \E u \in Users : SenderUsers(s, learned) = {u}
  BY <1>2 DEF match_sender, Statuses
<1>3. CASE /\ ~ \E q \in blocked : s \in Blocks[q]
           /\ ~ \E u \in Users : SenderUsers(s, learned) = {u}
  BY <1>3 DEF match_sender, Statuses
<1>4. QED BY <1>1, <1>2, <1>3

\* Two rows of one transaction that differ at most in status, user and source.
SameTransfer(r, x) ==
  /\ x.account = r.account
  /\ x.sender = r.sender
  /\ x.money = r.money
  /\ x.hold = r.hold
  /\ x.deleted = r.deleted
  /\ x.payment = r.payment

\* Matching again changes status and user of a row, and nothing else.
LEMMA RematchedType ==
  ASSUME NEW r \in Transaction, NEW blocked, NEW learned
  PROVE  /\ Rematched(r, blocked, learned) \in Transaction
         /\ SameTransfer(r, Rematched(r, blocked, learned))
         /\ Rematched(r, blocked, learned).source = r.source
         /\ Rematched(r, blocked, learned).status = "matched"
              => Rematched(r, blocked, learned).user \in Users
<1>1. r.sender \in Senders
  BY DEF Transaction
<1> DEFINE m == match_sender(r.sender, blocked, learned)
<1>2. /\ m.status \in Statuses
      /\ m.user \in Users \cup {NoUser}
      /\ m.status = "matched" => m.user \in Users
  BY <1>1, MatchType
<1> HIDE DEF m
<1>3. Rematched(r, blocked, learned) = [r EXCEPT !.status = m.status, !.user = m.user]
  BY DEF Rematched, m
<1>4. QED BY <1>2, <1>3 DEF Transaction, SameTransfer

LEMMA RematchPendingType ==
  ASSUME NEW tab \in Tables, NEW a, NEW blocked, NEW learned
  PROVE  rematch_pending(tab, a, blocked, learned) \in Tables
<1>1. ASSUME NEW t \in Transfers, tab[t] # NoRow
      PROVE  Rematched(tab[t], blocked, learned) \in Transaction
  BY <1>1, RematchedType DEF Tables
<1>2. QED BY <1>1 DEF rematch_pending, Pending, Tables

-----------------------------------------------------------------------------
(* The inductive invariant.  A linked transaction has its payment; this is *)
(* what the other parts need to speak of the payment of a link.            *)

LinksLive ==
  \A t \in Transfers :
    Linked(transactions[t]) => payments[transactions[t].payment] # NoRow

RowsOK ==
  /\ transactions \in Tables
  /\ payments \in [Positions -> Payment \cup {NoRow}]

Inv ==
  /\ RowsOK
  /\ LinksLive
  /\ LinksInjective
  /\ SourceKeyOwned
  /\ ExcludedIsLinked
  /\ UnsettledNotCounted
  /\ CountedAgrees

SettingsOK ==
  /\ configs \in [Accounts -> PaymentTypes \cup {NoType}]
  /\ blacklist \in [Accounts -> SUBSET Patterns]
  /\ rules \in [Patterns -> Users \cup {NoUser}]

IInv == Inv /\ SettingsOK

\* The table a handler has built for transaction t before it turns to the
\* payment: no link has changed, and no other linked transaction.
Prepared(tab, t) ==
  /\ tab \in Tables
  /\ tab[t] # NoRow
  /\ \A x \in Transfers :
       /\ transactions[x] # NoRow => tab[x] # NoRow
       /\ Linked(tab[x]) <=> Linked(transactions[x])
       /\ Linked(tab[x]) => tab[x].payment = transactions[x].payment
       /\ x # t /\ Linked(tab[x]) => tab[x] = transactions[x]

LEMMA PreparedLink ==
  ASSUME NEW tab, NEW t \in Transfers, Prepared(tab, t)
  PROVE  /\ tab[t] \in Transaction
         /\ tab[t].payment \in Positions \cup {NoPayment}
         /\ Linked(tab[t]) <=> tab[t].payment \in Positions
BY NullsAssumption DEF Prepared, Tables, Transaction, Linked

\* Taking the payment of t out of the balance keeps the invariant, whatever
\* became of the row of t.
LEMMA DeactivateKeeps ==
  ASSUME Inv, NEW tab, NEW t \in Transfers, Prepared(tab, t),
         deactivate_payment(tab, t)
  PROVE  Inv'
<1>1. /\ tab[t] \in Transaction
      /\ tab[t].payment \in Positions \cup {NoPayment}
      /\ Linked(tab[t]) <=> tab[t].payment \in Positions
  BY PreparedLink
<1>2. transactions' = tab
  BY DEF deactivate_payment
<1>3. Linked(tab[t]) => payments[tab[t].payment] \in Payment
  BY <1>1 DEF Inv, RowsOK, LinksLive, Prepared
<1>4. \A p \in Positions :
        IF tab[t].payment = p
        THEN /\ payments[p] \in Payment
             /\ payments'[p] \in Payment
             /\ payments'[p] = [payments[p] EXCEPT !.included = FALSE]
        ELSE payments'[p] = payments[p]
  <2>1. CASE tab[t].payment = NoPayment
    BY <2>1, NullsAssumption DEF deactivate_payment
  <2>2. CASE tab[t].payment \in Positions
    <3>1. payments' = [payments EXCEPT ![tab[t].payment].included = FALSE]
      BY <2>2, NullsAssumption DEF deactivate_payment
    <3>2. payments[tab[t].payment] \in Payment
      BY <1>1, <1>3, <2>2
    <3>3. [payments[tab[t].payment] EXCEPT !.included = FALSE] \in Payment
      BY <3>2 DEF Payment
    <3>4. QED BY <3>1, <3>2, <3>3, <2>2 DEF Inv, RowsOK
  <2>3. QED BY <1>1, <2>1, <2>2
<1>5. \A p \in Positions :
        /\ payments'[p] # NoRow <=> payments[p] # NoRow
        /\ payments[p] # NoRow => payments'[p].key = payments[p].key
  BY <1>4, NullsAssumption DEF Payment
<1>6. RowsOK'
  <2>1. \A p \in Positions : payments'[p] \in Payment \cup {NoRow}
    BY <1>4 DEF Inv, RowsOK
  <2>2. payments' = [p \in Positions |-> payments'[p]]
    BY DEF deactivate_payment, Inv, RowsOK
  <2>3. QED BY <1>2, <2>1, <2>2 DEF RowsOK, Prepared
<1>7. LinksLive'
  BY <1>2, <1>5, NullsAssumption DEF LinksLive, Inv, Prepared, RowsOK, Tables, Transaction, Linked
<1>8. LinksInjective'
  BY <1>2 DEF LinksInjective, Inv, Prepared
<1>9. SourceKeyOwned'
  BY <1>2, <1>5, NullsAssumption DEF SourceKeyOwned, Inv, Prepared, Linked
<1>10. ExcludedIsLinked'
  <2> SUFFICES ASSUME NEW p \in Positions, payments'[p] # NoRow, ~payments'[p].included
               PROVE  \E x \in Transfers : Linked(tab[x]) /\ tab[x].payment = p
    BY <1>2 DEF ExcludedIsLinked
  <2>1. CASE tab[t].payment = p
    BY <2>1, <1>1
  <2>2. CASE tab[t].payment # p
    <3>1. payments'[p] = payments[p]
      BY <2>2, <1>4
    <3>2. PICK x \in Transfers : Linked(transactions[x]) /\ transactions[x].payment = p
      BY <3>1 DEF Inv, ExcludedIsLinked
    <3>3. QED BY <3>2 DEF Prepared
  <2>3. QED BY <2>1, <2>2
<1>11. \A x \in Transfers, p \in Positions :
         Counts(x, p)' => /\ Counts(x, p)
                          /\ tab[x] = transactions[x]
                          /\ payments'[p] = payments[p]
  <2> SUFFICES ASSUME NEW x \in Transfers, NEW p \in Positions, Counts(x, p)'
               PROVE  /\ Counts(x, p)
                      /\ tab[x] = transactions[x]
                      /\ payments'[p] = payments[p]
    OBVIOUS
  <2>1. /\ Linked(tab[x]) /\ tab[x].payment = p
        /\ payments'[p] # NoRow /\ payments'[p].included
    BY <1>2 DEF Counts
  <2>2. tab[t].payment # p
    BY <2>1, <1>4 DEF Payment
  <2>3. x # t
    BY <2>1, <2>2
  <2>4. QED BY <2>1, <2>2, <2>3, <1>4 DEF Prepared, Counts
<1>12. UnsettledNotCounted'
  BY <1>11, <1>2 DEF UnsettledNotCounted, Inv
<1>13. CountedAgrees'
  BY <1>11, <1>2 DEF CountedAgrees, Inv
<1>14. QED BY <1>6, <1>7, <1>8, <1>9, <1>10, <1>12, <1>13 DEF Inv

\* Leaving the payments alone keeps the invariant when the transaction has no
\* payment, or goes to review because its amount is fractional.
LEMMA TableKeeps ==
  ASSUME Inv, NEW tab, NEW t \in Transfers, Prepared(tab, t),
         transactions' = tab, UNCHANGED payments,
         Linked(tab[t]) =>
           /\ ~tab[t].hold /\ ~tab[t].deleted
           /\ tab[t].status = "review" /\ tab[t].user = NoUser
           /\ tab[t].money \in Fractional
  PROVE  Inv'
<1>1. RowsOK'
  BY DEF RowsOK, Inv, Prepared
<1>2. LinksLive'
  BY DEF LinksLive, Inv, Prepared
<1>3. LinksInjective'
  BY DEF LinksInjective, Inv, Prepared
<1>4. SourceKeyOwned'
  BY NullsAssumption DEF SourceKeyOwned, Inv, Prepared, Linked
<1>5. ExcludedIsLinked'
  BY DEF ExcludedIsLinked, Inv, Prepared
<1>6. \A x \in Transfers, p \in Positions :
        Counts(x, p)' => Counts(x, p) /\ (x # t => tab[x] = transactions[x])
  BY DEF Counts, Prepared
<1>7. UnsettledNotCounted'
  BY <1>6 DEF UnsettledNotCounted, Inv, Counts
<1>8. CountedAgrees'
  BY <1>6 DEF CountedAgrees, Inv, Counts
<1>9. QED BY <1>1, <1>2, <1>3, <1>4, <1>5, <1>7, <1>8 DEF Inv

\* Writing payment p and linking t with it keeps the invariant when p is the
\* payment of t, or that of nobody, or new and created from t.
LEMMA LinkKeeps ==
  ASSUME Inv, NEW tab, NEW t \in Transfers, Prepared(tab, t),
         Settled(tab[t]), tab[t].status = "matched", tab[t].money \notin Fractional,
         NEW p \in Positions, NEW type \in PaymentTypes, NEW key,
         \/ tab[t].payment = p
         \/ ~Linked(tab[t]) /\ p \notin LinkedPositions(tab),
         \/ payments[p] # NoRow /\ key = payments[p].key
         \/ payments[p] = NoRow /\ key = t,
         Link(tab, t, p, type, key)
  PROVE  Inv'
<1>1. /\ tab[t] \in Transaction
      /\ Linked(tab[t]) <=> tab[t].payment \in Positions
  BY PreparedLink
<1>2. /\ [tab[t] EXCEPT !.payment = p] \in Transaction
      /\ [tab[t] EXCEPT !.payment = p].payment = p
      /\ [tab[t] EXCEPT !.payment = p].hold = tab[t].hold
      /\ [tab[t] EXCEPT !.payment = p].deleted = tab[t].deleted
      /\ [tab[t] EXCEPT !.payment = p].status = tab[t].status
      /\ [tab[t] EXCEPT !.payment = p].user = tab[t].user
      /\ [tab[t] EXCEPT !.payment = p].money = tab[t].money
  BY <1>1 DEF Transaction, SameTransfer
<1>3. key \in Transfers \cup {Manual}
  BY DEF Inv, RowsOK, Payment
<1>4. Written(tab[t], type, key) \in Payment
  BY <1>1, <1>3 DEF Written, Payment, Transaction, Settled
<1>5. /\ transactions' \in Tables
      /\ \A x \in Transfers :
           transactions'[x] = IF x = t THEN [tab[t] EXCEPT !.payment = p] ELSE tab[x]
  BY <1>2 DEF Link, Prepared, Tables
<1>6. /\ payments' \in [Positions -> Payment \cup {NoRow}]
      /\ \A q \in Positions :
           payments'[q] = IF q = p THEN Written(tab[t], type, key) ELSE payments[q]
  BY <1>4 DEF Link, Inv, RowsOK
<1>7. /\ Linked(transactions'[t])
      /\ transactions'[t].payment = p
      /\ transactions'[t] # NoRow
      /\ Settled(transactions'[t])
      /\ transactions'[t].status = "matched"
      /\ transactions'[t].user = tab[t].user
      /\ transactions'[t].money = tab[t].money
  BY <1>2, <1>5, NullsAssumption DEF Linked, Settled
<1>8. /\ payments'[p] # NoRow
      /\ payments'[p].key = key
      /\ payments'[p].user = tab[t].user
      /\ payments'[p].money = tab[t].money
      /\ payments'[p].included
  <2> DEFINE w == Written(tab[t], type, key)
  <2>1. w.key = key /\ w.user = tab[t].user /\ w.money = tab[t].money /\ w.included = TRUE
    BY DEF Written
  <2> HIDE DEF w
  <2>2. payments'[p] = w /\ w \in Payment
    BY <1>4, <1>6 DEF w
  <2>3. QED BY <2>1, <2>2, NullsAssumption
<1>9. \A x \in Transfers : x # t /\ Linked(transactions'[x]) =>
        /\ transactions'[x] = transactions[x]
        /\ Linked(transactions[x])
        /\ transactions[x].payment # p
        /\ transactions[x].payment \in Positions
  <2> SUFFICES ASSUME NEW x \in Transfers, x # t, Linked(transactions'[x])
               PROVE  /\ transactions'[x] = transactions[x]
                      /\ Linked(transactions[x])
                      /\ transactions[x].payment # p
                      /\ transactions[x].payment \in Positions
    OBVIOUS
  <2>1. Linked(tab[x]) /\ tab[x] = transactions[x] /\ transactions'[x] = transactions[x]
    BY <1>5 DEF Prepared
  <2>2. transactions[x].payment # p
    <3>1. CASE tab[t].payment = p
      BY <3>1, <2>1, <1>1 DEF Inv, LinksInjective, Prepared
    <3>2. CASE p \notin LinkedPositions(tab)
      BY <3>2, <2>1 DEF LinkedPositions
    <3>3. QED BY <3>1, <3>2
  <2>3. transactions[x].payment \in Positions
    BY <2>1 DEF Inv, RowsOK, Tables, Transaction, Linked
  <2>4. QED BY <2>1, <2>2, <2>3
<1>10. RowsOK'
  BY <1>5, <1>6 DEF RowsOK
<1>11. LinksLive'
  BY <1>6, <1>7, <1>8, <1>9 DEF LinksLive, Inv
<1>12. LinksInjective'
  BY <1>7, <1>9 DEF LinksInjective, Inv
<1>13. SourceKeyOwned'
  <2> SUFFICES ASSUME NEW q \in Positions, NEW x \in Transfers,
                      payments'[q] # NoRow, payments'[q].key = x
               PROVE  transactions'[x] # NoRow /\ transactions'[x].payment = q
    BY DEF SourceKeyOwned
  <2>1. CASE payments[q] # NoRow
    <3>1. payments[q].key = x
      BY <2>1, <1>6, <1>8
    <3>2. transactions[x] # NoRow /\ transactions[x].payment = q
      BY <3>1, <2>1 DEF Inv, SourceKeyOwned
    <3>3. tab[x] # NoRow /\ Linked(tab[x]) /\ tab[x].payment = q
      BY <3>2, NullsAssumption DEF Prepared, Linked
    <3>4. CASE x # t
      BY <3>4, <3>3, <1>5
    <3>5. CASE x = t
      BY <3>5, <3>3, <1>7
    <3>6. QED BY <3>4, <3>5
  <2>2. CASE payments[q] = NoRow
    BY <2>2, <1>6, <1>7, <1>8
  <2>3. QED BY <2>1, <2>2
<1>14. ExcludedIsLinked'
  <2> SUFFICES ASSUME NEW q \in Positions, payments'[q] # NoRow, ~payments'[q].included
               PROVE  \E x \in Transfers :
                        Linked(transactions'[x]) /\ transactions'[x].payment = q
    BY DEF ExcludedIsLinked
  <2>1. q # p /\ payments'[q] = payments[q]
    BY <1>6, <1>8
  <2>2. PICK x \in Transfers : Linked(transactions[x]) /\ transactions[x].payment = q
    BY <2>1 DEF Inv, ExcludedIsLinked
  <2>3. x # t
    BY <2>1, <2>2 DEF Prepared
  <2>4. QED BY <2>2, <2>3, <1>5 DEF Prepared
<1>15. \A x \in Transfers, q \in Positions :
         Counts(x, q)' => \/ x = t /\ q = p
                         \/ /\ Counts(x, q)
                            /\ transactions'[x] = transactions[x]
                            /\ payments'[q] = payments[q]
  BY <1>6, <1>7, <1>9 DEF Counts
<1>16. UnsettledNotCounted'
  BY <1>15, <1>7 DEF UnsettledNotCounted, Inv, Settled
<1>17. CountedAgrees'
  BY <1>15, <1>7, <1>8 DEF CountedAgrees, Inv
<1>18. QED BY <1>10, <1>11, <1>12, <1>13, <1>14, <1>16, <1>17 DEF Inv

LEMMA InReviewPrepared ==
  ASSUME NEW tab, NEW t \in Transfers, Prepared(tab, t)
  PROVE  LET new == [tab EXCEPT ![t] = InReview(tab[t])]
         IN  /\ Prepared(new, t)
             /\ Linked(new[t]) <=> Linked(tab[t])
             /\ new[t].hold = tab[t].hold /\ new[t].deleted = tab[t].deleted
             /\ new[t].money = tab[t].money
             /\ new[t].status = "review" /\ new[t].user = NoUser
<1>1. tab[t] \in Transaction
  BY PreparedLink
<1> DEFINE r == InReview(tab[t])
           new == [tab EXCEPT ![t] = r]
<1>2. /\ r \in Transaction /\ r # NoRow
      /\ r.payment = tab[t].payment
      /\ r.hold = tab[t].hold /\ r.deleted = tab[t].deleted
      /\ r.money = tab[t].money
      /\ r.status = "review" /\ r.user = NoUser
  BY <1>1, NullsAssumption DEF InReview, Transaction, Statuses
<1> HIDE DEF r
<1>3. /\ new \in Tables
      /\ \A x \in Transfers : new[x] = IF x = t THEN r ELSE tab[x]
  BY <1>2 DEF Prepared, Tables
<1>4. Linked(r) <=> Linked(tab[t])
  BY <1>1, <1>2, NullsAssumption DEF Linked
<1> HIDE DEF new
<1>5. Prepared(new, t)
  BY <1>2, <1>3, <1>4 DEF Prepared
<1>6. QED BY <1>2, <1>3, <1>4, <1>5 DEF new, r

\* upsert_payment keeps the invariant when it is called, as every handler
\* calls it, for a matched transaction.
LEMMA UpsertKeeps ==
  ASSUME Inv, NEW tab, NEW t \in Transfers, Prepared(tab, t),
         tab[t].status = "matched",
         NEW type \in PaymentTypes, NEW create \in BOOLEAN,
         upsert_payment(tab, t, type, create)
  PROVE  Inv'
<1>1. tab[t] \in Transaction /\ (Linked(tab[t]) <=> tab[t].payment \in Positions)
  BY PreparedLink
<1>2. CASE ~Settled(tab[t]) /\ deactivate_payment(tab, t)
  BY <1>2, DeactivateKeeps
<1> DEFINE new == [tab EXCEPT ![t] = InReview(tab[t])]
<1>3. /\ Prepared(new, t)
      /\ Linked(new[t]) <=> Linked(tab[t])
      /\ new[t].hold = tab[t].hold /\ new[t].deleted = tab[t].deleted
      /\ new[t].money = tab[t].money
      /\ new[t].status = "review" /\ new[t].user = NoUser
  BY InReviewPrepared
<1> HIDE DEF new
<1>4. CASE /\ Settled(tab[t]) /\ tab[t].money \in Fractional
           /\ transactions' = new /\ UNCHANGED payments
  BY <1>3, <1>4, TableKeeps DEF Settled
<1>5. CASE /\ Settled(tab[t]) /\ tab[t].money \notin Fractional
           /\ Linked(tab[t])
           /\ Link(tab, t, tab[t].payment, type, payments[tab[t].payment].key)
  <2>1. tab[t].payment \in Positions
    BY <1>1, <1>5
  <2>2. payments[tab[t].payment] # NoRow
    BY <1>5 DEF Inv, LinksLive, Prepared
  <2>3. QED BY <1>5, <2>1, <2>2, LinkKeeps
<1>6. CASE /\ Settled(tab[t]) /\ tab[t].money \notin Fractional
           /\ ~Linked(tab[t])
           /\ upsert_unlinked(tab, t, type, create)
  <2> DEFINE found == Candidates(tab, tab[t], type)
  <2>1. CASE \E p \in Positions : found = {p} /\ Link(tab, t, p, type, payments[p].key)
    <3>1. PICK p \in Positions : found = {p} /\ Link(tab, t, p, type, payments[p].key)
      BY <2>1
    <3>2. payments[p] # NoRow /\ p \notin LinkedPositions(tab)
      BY <3>1 DEF Candidates
    <3>3. QED BY <1>6, <3>1, <3>2, LinkKeeps
  <2>2. CASE transactions' = new /\ UNCHANGED payments
    BY <1>3, <1>6, <2>2, TableKeeps
  <2>3. CASE transactions' = tab /\ UNCHANGED payments
    BY <1>6, <2>3, TableKeeps
  <2>4. CASE \E p \in Positions : IsNextPosition(p) /\ Link(tab, t, p, type, t)
    <3>1. PICK p \in Positions : IsNextPosition(p) /\ Link(tab, t, p, type, t)
      BY <2>4
    <3>2. payments[p] = NoRow
      BY <3>1, ConstantsAssumption DEF IsNextPosition, Positions
    <3>3. p \notin LinkedPositions(tab)
      BY <3>2 DEF LinkedPositions, Inv, LinksLive, Prepared
    <3>4. QED BY <1>6, <3>1, <3>2, <3>3, LinkKeeps
  <2>5. QED BY <1>6, <2>1, <2>2, <2>3, <2>4 DEF upsert_unlinked, new
<1>7. QED BY <1>2, <1>4, <1>5, <1>6 DEF upsert_payment, new

LEMMA SettleKeeps ==
  ASSUME Inv, NEW tab, NEW t \in Transfers, Prepared(tab, t),
         NEW type \in PaymentTypes, settle(tab, t, type)
  PROVE  Inv'
BY DeactivateKeeps, UpsertKeeps DEF settle

-----------------------------------------------------------------------------
(* The tables the handlers build are prepared. *)

\* A table in which only the row of t differs, and that row keeps its link.
LEMMA OneRowPrepared ==
  ASSUME Inv, NEW t \in Transfers, NEW r \in Transaction,
         transactions[t] # NoRow => r.payment = transactions[t].payment,
         transactions[t] = NoRow => r.payment = NoPayment
  PROVE  Prepared([transactions EXCEPT ![t] = r], t)
<1> DEFINE tab == [transactions EXCEPT ![t] = r]
<1>1. tab \in Tables /\ \A x \in Transfers : tab[x] = IF x = t THEN r ELSE transactions[x]
  BY DEF Inv, RowsOK, Tables
<1> HIDE DEF tab
<1>2. Prepared(tab, t)
  BY <1>1, NullsAssumption DEF Prepared, Linked
<1>3. QED BY <1>2 DEF tab

LEMMA RematchPrepared ==
  ASSUME NEW tab, NEW t \in Transfers, Prepared(tab, t), NEW a, NEW blocked, NEW learned
  PROVE  /\ Prepared(rematch_pending(tab, a, blocked, learned), t)
         /\ tab[t].source = "manual" => rematch_pending(tab, a, blocked, learned)[t] = tab[t]
<1> DEFINE new == rematch_pending(tab, a, blocked, learned)
<1>1. new \in Tables
  BY RematchPendingType DEF Prepared
<1>2. \A x \in Transfers :
        \/ new[x] = tab[x]
        \/ /\ new[x] # NoRow /\ tab[x] # NoRow /\ tab[x].source # "manual"
           /\ ~Linked(new[x]) /\ ~Linked(tab[x])
  <2> SUFFICES ASSUME NEW x \in Transfers, Pending(tab, x, a)
               PROVE  /\ new[x] # NoRow /\ tab[x] # NoRow /\ tab[x].source # "manual"
                      /\ ~Linked(new[x]) /\ ~Linked(tab[x])
    BY DEF rematch_pending
  <2>1. tab[x] \in Transaction
    BY DEF Prepared, Tables, Pending
  <2>2. /\ Rematched(tab[x], blocked, learned) \in Transaction
        /\ SameTransfer(tab[x], Rematched(tab[x], blocked, learned))
    BY <2>1, RematchedType
  <2>3. QED BY <2>1, <2>2, NullsAssumption DEF rematch_pending, Pending, SameTransfer, Linked
<1> HIDE DEF new
<1>3. QED BY <1>1, <1>2 DEF Prepared, new

-----------------------------------------------------------------------------
(* One lemma per action *)

LEMMA SyncItemKeeps ==
  ASSUME IInv, NEW a \in Accounts, NEW i \in Items, SyncItem(a, i)
  PROVE  IInv'
<1>1. i.id \in Transfers /\ configs[a] \in PaymentTypes
  BY DEF Items, SyncItem, IInv, SettingsOK
<1>2. /\ Received(i, a) \in Transaction
      /\ transactions[i.id] # NoRow => Received(i, a).payment = transactions[i.id].payment
      /\ transactions[i.id] = NoRow => Received(i, a).payment = NoPayment
  <2>1. CASE transactions[i.id] = NoRow
    BY <2>1, <1>1 DEF Received, Items, Transaction, Statuses
  <2>2. CASE transactions[i.id] # NoRow
    <3>1. transactions[i.id] \in Transaction
      BY <2>2, <1>1 DEF IInv, Inv, RowsOK, Tables
    <3>2. QED BY <2>2, <3>1, <1>1 DEF Received, Items, Transaction
  <2>3. QED BY <2>1, <2>2
<1> DEFINE r == Received(i, a)
           x == Judged(r, a)
<1>3. x \in Transaction /\ x.payment = r.payment
  <2>1. /\ Rematched(r, blacklist[a], rules) \in Transaction
        /\ Rematched(r, blacklist[a], rules).payment = r.payment
    BY <1>2, RematchedType DEF SameTransfer
  <2> HIDE DEF r
  <2>2. r \in Transaction
    BY <1>2 DEF r
  <2>3. QED BY <2>1, <2>2 DEF Judged, Transaction, Statuses
<1> DEFINE tab == [transactions EXCEPT ![i.id] = x]
<1>4. settle(tab, i.id, configs[a]) /\ UNCHANGED <<configs, blacklist, rules>>
  BY DEF SyncItem
<1> HIDE DEF x
<1>5. Prepared(tab, i.id)
  BY <1>1, <1>2, <1>3, OneRowPrepared DEF IInv
<1> HIDE DEF tab
<1>6. QED BY <1>1, <1>4, <1>5, SettleKeeps DEF IInv, SettingsOK

LEMMA SyncDeletionKeeps ==
  ASSUME IInv, NEW a \in Accounts, NEW t \in Transfers, SyncDeletion(a, t)
  PROVE  IInv'
<1> DEFINE r == [transactions[t] EXCEPT !.deleted = TRUE, !.status = "rejected", !.user = NoUser]
           tab == [transactions EXCEPT ![t] = r]
<1>1. transactions[t] \in Transaction
  BY DEF SyncDeletion, IInv, Inv, RowsOK, Tables
<1>2. r \in Transaction /\ r.payment = transactions[t].payment
  BY <1>1 DEF Transaction, Statuses
<1>3. deactivate_payment(tab, t) /\ UNCHANGED <<configs, blacklist, rules>>
  BY DEF SyncDeletion
<1> HIDE DEF r
<1>4. Prepared(tab, t)
  BY <1>1, <1>2, OneRowPrepared, NullsAssumption DEF IInv
<1>5. QED BY <1>3, <1>4, DeactivateKeeps DEF IInv, SettingsOK

LEMMA TypeOfDecidable ==
  ASSUME IInv, NEW t \in Transfers, Decidable(t)
  PROVE  /\ transactions[t] \in Transaction /\ transactions[t] # NoRow
         /\ TypeOf(t) \in PaymentTypes
         /\ Prepared(transactions, t)
<1>1. transactions[t] \in Transaction /\ transactions[t] # NoRow
  BY DEF Decidable, IInv, Inv, RowsOK, Tables
<1>2. transactions[t].account \in Accounts
  BY <1>1 DEF Transaction
<1>3. TypeOf(t) \in PaymentTypes
  BY <1>2 DEF Decidable, IInv, SettingsOK, TypeOf
<1>4. Prepared(transactions, t)
  BY <1>1 DEF Prepared, IInv, Inv, RowsOK
<1>5. QED BY <1>1, <1>3, <1>4

LEMMA ApproveKeeps ==
  ASSUME IInv, NEW t \in Transfers, Approve(t) \/ ApproveMatched(t)
  PROVE  IInv'
<1>1. /\ Decidable(t) /\ transactions[t].status = "matched"
      /\ upsert_payment(transactions, t, TypeOf(t), TRUE)
      /\ UNCHANGED <<configs, blacklist, rules>>
  BY DEF Approve, ApproveMatched
<1>2. TypeOf(t) \in PaymentTypes /\ Prepared(transactions, t)
  BY <1>1, TypeOfDecidable
<1>3. QED BY <1>1, <1>2, UpsertKeeps DEF IInv, SettingsOK

LEMMA RejectKeeps ==
  ASSUME IInv, NEW t \in Transfers, Reject(t)
  PROVE  IInv'
<1> DEFINE r == [transactions[t] EXCEPT !.status = "rejected", !.user = NoUser,
                                        !.source = "manual"]
           tab == [transactions EXCEPT ![t] = r]
<1>1. transactions[t] \in Transaction
  BY TypeOfDecidable DEF Reject
<1>2. r \in Transaction /\ r.payment = transactions[t].payment
  BY <1>1 DEF Transaction, Statuses
<1>3. deactivate_payment(tab, t) /\ UNCHANGED <<configs, blacklist, rules>>
  BY DEF Reject
<1> HIDE DEF r
<1>4. Prepared(tab, t)
  BY <1>1, <1>2, OneRowPrepared, NullsAssumption DEF IInv
<1>5. QED BY <1>3, <1>4, DeactivateKeeps DEF IInv, SettingsOK

LEMMA BlacklistKeeps ==
  ASSUME IInv, NEW t \in Transfers, Blacklist(t)
  PROVE  IInv'
<1> DEFINE a == transactions[t].account
           blocked == blacklist[a] \cup {Label[transactions[t].sender]}
           r == [transactions[t] EXCEPT !.status = "blacklisted", !.user = NoUser,
                                        !.source = "manual"]
           tab == [transactions EXCEPT ![t] = r]
<1>1. transactions[t] \in Transaction
  BY TypeOfDecidable DEF Blacklist
<1>2. r \in Transaction /\ r.payment = transactions[t].payment
  BY <1>1 DEF Transaction, Statuses
<1>3. /\ blacklist' = [blacklist EXCEPT ![a] = blocked]
      /\ deactivate_payment(rematch_pending(tab, a, blocked, rules), t)
      /\ UNCHANGED <<configs, rules>>
  BY DEF Blacklist
<1> HIDE DEF r
<1>4. Prepared(tab, t)
  BY <1>1, <1>2, OneRowPrepared, NullsAssumption DEF IInv
<1>5. Prepared(rematch_pending(tab, a, blocked, rules), t)
  BY <1>4, RematchPrepared
<1>6. SettingsOK'
  <2>1. blocked \in SUBSET Patterns
    BY <1>1, ConstantsAssumption DEF Transaction, IInv, SettingsOK
  <2>2. QED BY <1>3, <2>1 DEF IInv, SettingsOK
<1>7. QED BY <1>3, <1>5, <1>6, DeactivateKeeps DEF IInv

LEMMA AssignKeeps ==
  ASSUME IInv, NEW t \in Transfers, NEW u \in Users, Assign(t, u)
  PROVE  IInv'
<1> DEFINE a == transactions[t].account
           learned == remember_match(transactions[t].sender, u)
           r == [transactions[t] EXCEPT !.status = "matched", !.user = u,
                                        !.source = "manual"]
           assigned == [transactions EXCEPT ![t] = r]
           tab == rematch_pending(assigned, a, blacklist[a], learned)
<1>1. transactions[t] \in Transaction /\ TypeOf(t) \in PaymentTypes
  BY TypeOfDecidable DEF Assign
<1>2. /\ r \in Transaction /\ r.payment = transactions[t].payment
      /\ r.status = "matched" /\ r.source = "manual"
  BY <1>1 DEF Transaction, Statuses
<1>3. /\ IF Linked(transactions[t]) THEN upsert_payment(tab, t, TypeOf(t), FALSE)
         ELSE transactions' = tab /\ UNCHANGED payments
      /\ rules' = learned
      /\ UNCHANGED <<configs, blacklist>>
  BY DEF Assign
<1> HIDE DEF r
<1>4. Prepared(assigned, t) /\ assigned[t] = r
  BY <1>1, <1>2, OneRowPrepared, NullsAssumption DEF IInv, Inv, RowsOK, Tables
<1> HIDE DEF assigned
<1>5. Prepared(tab, t) /\ tab[t] = r
  BY <1>2, <1>4, RematchPrepared
<1> HIDE DEF tab
<1>6. SettingsOK'
  <2>1. learned \in [Patterns -> Users \cup {NoUser}]
    BY DEF remember_match, IInv, SettingsOK
  <2>2. QED BY <1>3, <2>1 DEF IInv, SettingsOK
<1>7. CASE Linked(transactions[t])
  BY <1>1, <1>2, <1>3, <1>5, <1>6, <1>7, UpsertKeeps DEF IInv
<1>8. CASE ~Linked(transactions[t])
  BY <1>3, <1>5, <1>6, <1>8, TableKeeps DEF IInv, Prepared
<1>9. QED BY <1>7, <1>8

LEMMA RetryKeeps ==
  ASSUME IInv, NEW t \in Transfers, Retry(t)
  PROVE  IInv'
<1> DEFINE r == Retried(transactions[t])
           tab == [transactions EXCEPT ![t] = r]
<1>1. transactions[t] \in Transaction /\ TypeOf(t) \in PaymentTypes
  BY TypeOfDecidable DEF Retry
<1>2. r \in Transaction /\ r.payment = transactions[t].payment
  <2> DEFINE auto == [transactions[t] EXCEPT !.source = "automatic"]
  <2>1. auto \in Transaction /\ auto.payment = transactions[t].payment
    BY <1>1 DEF Transaction
  <2> HIDE DEF auto
  <2>2. /\ Rematched(auto, blacklist[transactions[t].account], rules) \in Transaction
        /\ Rematched(auto, blacklist[transactions[t].account], rules).payment = auto.payment
    BY <2>1, RematchedType DEF SameTransfer
  <2>3. /\ [auto EXCEPT !.status = "rejected", !.user = NoUser] \in Transaction
        /\ [auto EXCEPT !.status = "rejected", !.user = NoUser].payment = auto.payment
        /\ InReview(auto) \in Transaction /\ InReview(auto).payment = auto.payment
    BY <2>1 DEF Transaction, Statuses, InReview
  <2>4. QED BY <2>1, <2>2, <2>3 DEF Retried, auto
<1>3. /\ IF tab[t].status = "matched" /\ ~Linked(tab[t])
         THEN transactions' = tab /\ UNCHANGED payments
         ELSE settle(tab, t, TypeOf(t))
      /\ UNCHANGED <<configs, blacklist, rules>>
  BY DEF Retry
<1> HIDE DEF r
<1>4. Prepared(tab, t)
  BY <1>1, <1>2, OneRowPrepared, NullsAssumption DEF IInv
<1> HIDE DEF tab
<1>5. SettingsOK'
  BY <1>3 DEF IInv, SettingsOK
<1>6. CASE tab[t].status = "matched" /\ ~Linked(tab[t])
  BY <1>3, <1>4, <1>5, <1>6, TableKeeps DEF IInv
<1>7. CASE ~(tab[t].status = "matched" /\ ~Linked(tab[t]))
  BY <1>1, <1>3, <1>4, <1>5, <1>7, SettleKeeps DEF IInv
<1>8. QED BY <1>6, <1>7

LEMMA RejudgedRow ==
  ASSUME Inv, NEW requested, NEW lists, NEW t \in Transfers, transactions[t] # NoRow
  PROVE  LET x == rejudge(requested, lists)[t]
         IN  /\ x \in Transaction
             /\ SameTransfer(transactions[t], x)
             /\ Requested(requested, t) \/ x = transactions[t]
             /\ InReview(x) \in Transaction
             /\ SameTransfer(transactions[t], InReview(x))
<1>1. transactions[t] \in Transaction
  BY DEF Inv, RowsOK, Tables
<1> DEFINE x == rejudge(requested, lists)[t]
<1>2. /\ Reviewed(transactions[t], lists) \in Transaction
      /\ SameTransfer(transactions[t], Reviewed(transactions[t], lists))
  <2>1. /\ InReview(transactions[t]) \in Transaction
        /\ SameTransfer(transactions[t], InReview(transactions[t]))
    BY <1>1 DEF InReview, Transaction, Statuses, SameTransfer
  <2>2. SameTransfer(transactions[t], transactions[t])
    BY DEF SameTransfer
  <2>3. QED BY <1>1, <2>1, <2>2, RematchedType DEF Reviewed
<1>3. x = IF Requested(requested, t) THEN Reviewed(transactions[t], lists) ELSE transactions[t]
  BY DEF rejudge
<1>4. SameTransfer(transactions[t], transactions[t])
  BY DEF SameTransfer
<1> HIDE DEF x
<1>5. x \in Transaction /\ SameTransfer(transactions[t], x)
  BY <1>1, <1>2, <1>3, <1>4
<1>6. InReview(x) \in Transaction /\ SameTransfer(transactions[t], InReview(x))
  BY <1>5 DEF InReview, Transaction, Statuses, SameTransfer
<1>7. QED BY <1>3, <1>5, <1>6 DEF x

LEMMA RewrittenRow ==
  ASSUME NEW r \in Transaction, NEW row \in Payment, NEW type \in PaymentTypes,
         NEW x, x = Rewritten(r, row, type)
  PROVE  /\ x \in Payment
         /\ x.key = row.key
         /\ \/ ~x.included
            \/ /\ r.status = "matched" /\ Settled(r)
               /\ \/ r.money \in Fractional /\ x = row
                  \/ /\ r.money \notin Fractional
                     /\ x.user = r.user /\ x.money = r.money
<1>1. CASE r.status # "matched" \/ ~Settled(r)
  BY <1>1 DEF Rewritten, Payment
<1>2. CASE r.status = "matched" /\ Settled(r) /\ r.money \in Fractional
  BY <1>2 DEF Rewritten
<1>3. CASE r.status = "matched" /\ Settled(r) /\ r.money \notin Fractional
  <2>1. Rewritten(r, row, type) = Written(r, type, row.key)
    BY <1>3 DEF Rewritten
  <2>2. Written(r, type, row.key) \in Payment
    BY <1>3 DEF Written, Payment, Transaction, Settled
  <2>3. QED BY <1>3, <2>1, <2>2 DEF Written
<1>4. QED BY <1>1, <1>2, <1>3

\* The rows saving the settings leaves: every payment it writes is that of one
\* transaction it has judged again.
LEMMA SavedRows ==
  ASSUME IInv, NEW requested \in [Accounts -> PaymentTypes \cup {NoType}],
         NEW lists \in [Accounts -> SUBSET Patterns], SaveSettings(requested, lists)
  PROVE  LET tab == rejudge(requested, lists)
             owners(p) == {t \in Transfers : Requested(requested, t) /\ tab[t].payment = p}
         IN  /\ \A t \in Transfers :
                  /\ transactions[t] = NoRow => tab[t] = NoRow /\ transactions'[t] = NoRow
                  /\ transactions[t] # NoRow =>
                       /\ tab[t] \in Transaction /\ SameTransfer(transactions[t], tab[t])
                       /\ transactions'[t] \in Transaction
                       /\ SameTransfer(transactions[t], transactions'[t])
                       /\ Requested(requested, t) \/ tab[t] = transactions[t]
             /\ \A t \in Transfers :
                  /\ Linked(tab[t]) <=> Linked(transactions[t])
                  /\ Linked(transactions'[t]) <=> Linked(transactions[t])
                  /\ Linked(transactions[t]) =>
                       /\ tab[t].payment = transactions[t].payment
                       /\ transactions'[t].payment = transactions[t].payment
                       /\ transactions[t].payment \in Positions
                       /\ payments[transactions[t].payment] \in Payment
             /\ \A p \in Positions :
                  \/ payments'[p] = payments[p] /\ owners(p) = {}
                  \/ \E t \in Transfers :
                       /\ Requested(requested, t) /\ Linked(transactions[t])
                       /\ transactions[t].payment = p
                       /\ payments[p] \in Payment
                       /\ tab[t] \in Transaction
                       /\ requested[tab[t].account] \in PaymentTypes
                       /\ payments'[p] = Rewritten(tab[t], payments[p], requested[tab[t].account])
<1> DEFINE tab == rejudge(requested, lists)
           owners(p) == {t \in Transfers : Requested(requested, t) /\ tab[t].payment = p}
<1>1. /\ transactions' = [t \in Transfers |->
           IF Requested(requested, t) /\ Unpayable(tab[t]) THEN InReview(tab[t]) ELSE tab[t]]
      /\ payments' = [p \in Positions |->
           IF owners(p) = {} THEN payments[p]
           ELSE LET r == tab[CHOOSE t \in owners(p) : TRUE]
                IN  Rewritten(r, payments[p], requested[r.account])]
  BY DEF SaveSettings
<1>2. \A t \in Transfers :
        /\ transactions[t] = NoRow => tab[t] = NoRow /\ transactions'[t] = NoRow
        /\ transactions[t] # NoRow =>
             /\ tab[t] \in Transaction /\ SameTransfer(transactions[t], tab[t])
             /\ transactions'[t] \in Transaction /\ SameTransfer(transactions[t], transactions'[t])
             /\ Requested(requested, t) \/ tab[t] = transactions[t]
  <2> SUFFICES ASSUME NEW t \in Transfers
               PROVE  /\ transactions[t] = NoRow => tab[t] = NoRow /\ transactions'[t] = NoRow
                      /\ transactions[t] # NoRow =>
                           /\ tab[t] \in Transaction /\ SameTransfer(transactions[t], tab[t])
                           /\ transactions'[t] \in Transaction
                           /\ SameTransfer(transactions[t], transactions'[t])
                           /\ Requested(requested, t) \/ tab[t] = transactions[t]
    OBVIOUS
  <2>1. CASE transactions[t] = NoRow
    <3>1. ~Requested(requested, t)
      BY <2>1 DEF Requested
    <3>2. tab[t] = NoRow
      BY <2>1, <3>1 DEF rejudge
    <3>3. QED BY <1>1, <2>1, <3>1, <3>2
  <2>2. CASE transactions[t] # NoRow
    <3>1. /\ tab[t] \in Transaction /\ SameTransfer(transactions[t], tab[t])
          /\ Requested(requested, t) \/ tab[t] = transactions[t]
          /\ InReview(tab[t]) \in Transaction
          /\ SameTransfer(transactions[t], InReview(tab[t]))
      BY <2>2, RejudgedRow DEF IInv
    <3> HIDE DEF tab
    <3>2. QED BY <1>1, <2>2, <3>1
  <2>3. QED BY <2>1, <2>2
<1> HIDE DEF tab
<1>3. \A t \in Transfers :
        /\ Linked(tab[t]) <=> Linked(transactions[t])
        /\ Linked(transactions'[t]) <=> Linked(transactions[t])
        /\ Linked(transactions[t]) =>
             /\ tab[t].payment = transactions[t].payment
             /\ transactions'[t].payment = transactions[t].payment
             /\ transactions[t].payment \in Positions
             /\ payments[transactions[t].payment] \in Payment
  <2>1. \A t \in Transfers : Linked(transactions[t]) =>
          /\ transactions[t].payment \in Positions
          /\ payments[transactions[t].payment] \in Payment
    BY DEF Linked, IInv, Inv, RowsOK, Tables, Transaction, LinksLive
  <2>2. QED BY <1>2, <2>1, NullsAssumption DEF Linked, SameTransfer
<1>4. \A p \in Positions :
        \/ payments'[p] = payments[p] /\ owners(p) = {}
        \/ \E t \in Transfers :
             /\ Requested(requested, t) /\ Linked(transactions[t])
             /\ transactions[t].payment = p
             /\ payments[p] \in Payment
             /\ tab[t] \in Transaction
             /\ requested[tab[t].account] \in PaymentTypes
             /\ payments'[p] = Rewritten(tab[t], payments[p], requested[tab[t].account])
  <2> SUFFICES ASSUME NEW p \in Positions, owners(p) # {}
               PROVE  \E t \in Transfers :
                        /\ Requested(requested, t) /\ Linked(transactions[t])
                        /\ transactions[t].payment = p
                        /\ payments[p] \in Payment
                        /\ tab[t] \in Transaction
                        /\ requested[tab[t].account] \in PaymentTypes
                        /\ payments'[p] = Rewritten(tab[t], payments[p], requested[tab[t].account])
    BY <1>1
  <2> DEFINE t == CHOOSE x \in owners(p) : TRUE
  <2>1. t \in owners(p)
    OBVIOUS
  <2>2. payments'[p] = Rewritten(tab[t], payments[p], requested[tab[t].account])
    BY <1>1
  <2>3. t \in Transfers /\ Requested(requested, t) /\ tab[t].payment = p
    BY <2>1
  <2> HIDE DEF t
  <2>4. transactions[t] # NoRow /\ tab[t] \in Transaction /\ SameTransfer(transactions[t], tab[t])
    BY <1>2, <2>3 DEF Requested
  <2>5. Linked(transactions[t]) /\ transactions[t].payment = p
    BY <2>3, <2>4, NullsAssumption DEF Linked, SameTransfer
  <2>6. requested[tab[t].account] \in PaymentTypes
    BY <2>3, <2>4 DEF Requested, SameTransfer, Transaction
  <2>7. QED BY <1>3, <2>2, <2>3, <2>4, <2>5, <2>6
<1>5. QED BY <1>2, <1>3, <1>4 DEF tab

LEMMA SaveSettingsKeeps ==
  ASSUME IInv, NEW requested \in [Accounts -> PaymentTypes \cup {NoType}],
         NEW lists \in [Accounts -> SUBSET Patterns], SaveSettings(requested, lists)
  PROVE  IInv'
<1> DEFINE tab == rejudge(requested, lists)
           owners(p) == {t \in Transfers : Requested(requested, t) /\ tab[t].payment = p}
<1>1. SettingsOK'
  BY DEF SaveSettings, IInv, SettingsOK
<1>2. /\ transactions' = [t \in Transfers |->
           IF Requested(requested, t) /\ Unpayable(tab[t]) THEN InReview(tab[t]) ELSE tab[t]]
      /\ payments' = [p \in Positions |->
           IF owners(p) = {} THEN payments[p]
           ELSE LET r == tab[CHOOSE t \in owners(p) : TRUE]
                IN  Rewritten(r, payments[p], requested[r.account])]
  BY DEF SaveSettings
<1>3. \A t \in Transfers :
        /\ transactions[t] = NoRow => tab[t] = NoRow /\ transactions'[t] = NoRow
        /\ transactions[t] # NoRow =>
             /\ tab[t] \in Transaction /\ SameTransfer(transactions[t], tab[t])
             /\ transactions'[t] \in Transaction /\ SameTransfer(transactions[t], transactions'[t])
             /\ Requested(requested, t) \/ tab[t] = transactions[t]
  BY SavedRows
<1>4. \A t \in Transfers :
        /\ Linked(tab[t]) <=> Linked(transactions[t])
        /\ Linked(transactions'[t]) <=> Linked(transactions[t])
        /\ Linked(transactions[t]) =>
             /\ tab[t].payment = transactions[t].payment
             /\ transactions'[t].payment = transactions[t].payment
             /\ transactions[t].payment \in Positions
             /\ payments[transactions[t].payment] \in Payment
  BY SavedRows
<1>5. \A p \in Positions :
        \/ payments'[p] = payments[p] /\ owners(p) = {}
        \/ \E t \in Transfers :
             /\ Requested(requested, t) /\ Linked(transactions[t])
             /\ transactions[t].payment = p
             /\ payments[p] \in Payment
             /\ tab[t] \in Transaction
             /\ requested[tab[t].account] \in PaymentTypes
             /\ payments'[p] = Rewritten(tab[t], payments[p], requested[tab[t].account])
  BY SavedRows
<1> HIDE DEF tab
<1>6. \A p \in Positions :
        /\ payments'[p] \in Payment \cup {NoRow}
        /\ payments'[p] = NoRow <=> payments[p] = NoRow
        /\ payments[p] # NoRow => payments'[p].key = payments[p].key
  <2> SUFFICES ASSUME NEW p \in Positions
               PROVE  /\ payments'[p] \in Payment \cup {NoRow}
                      /\ payments'[p] = NoRow <=> payments[p] = NoRow
                      /\ payments[p] # NoRow => payments'[p].key = payments[p].key
    OBVIOUS
  <2>1. CASE payments'[p] = payments[p]
    BY <2>1 DEF IInv, Inv, RowsOK
  <2>2. CASE payments'[p] # payments[p]
    <3>1. PICK t \in Transfers :
            /\ payments[p] \in Payment /\ tab[t] \in Transaction
            /\ requested[tab[t].account] \in PaymentTypes
            /\ payments'[p] = Rewritten(tab[t], payments[p], requested[tab[t].account])
      BY <1>5, <2>2
    <3>2. payments'[p] \in Payment /\ payments'[p].key = payments[p].key
      BY <3>1, RewrittenRow
    <3>3. QED BY <3>1, <3>2, NullsAssumption
  <2>3. QED BY <2>1, <2>2
<1>7. RowsOK'
  BY <1>2, <1>3, <1>6 DEF RowsOK, Tables
<1>8. LinksLive'
  BY <1>4, <1>6 DEF LinksLive, IInv, Inv
<1>9. LinksInjective'
  BY <1>4 DEF LinksInjective, IInv, Inv
<1>10. SourceKeyOwned'
  BY <1>3, <1>6, NullsAssumption DEF SourceKeyOwned, IInv, Inv, SameTransfer
<1>11. ExcludedIsLinked'
  <2> SUFFICES ASSUME NEW p \in Positions, payments'[p] # NoRow, ~payments'[p].included
               PROVE  \E t \in Transfers : Linked(transactions[t]) /\ transactions[t].payment = p
    BY <1>4 DEF ExcludedIsLinked
  <2>1. CASE payments'[p] = payments[p]
    BY <2>1 DEF IInv, Inv, ExcludedIsLinked
  <2>2. CASE payments'[p] # payments[p]
    BY <2>2, <1>5
  <2>3. QED BY <2>1, <2>2
\* What counts afterwards: a payment nobody touched, or one written or kept for
\* its own transaction.
<1>12. ASSUME NEW t \in Transfers, NEW p \in Positions, Counts(t, p)'
       PROVE  \/ Counts(t, p) /\ transactions'[t] = transactions[t] /\ payments'[p] = payments[p]
              \/ /\ tab[t].status = "matched" /\ Settled(tab[t]) /\ transactions[t] # NoRow
                 /\ \/ /\ tab[t].money \in Fractional /\ transactions'[t] = InReview(tab[t])
                    \/ /\ tab[t].money \notin Fractional /\ transactions'[t] = tab[t]
                       /\ payments'[p].user = tab[t].user /\ payments'[p].money = tab[t].money
  <2>1. /\ Linked(transactions[t]) /\ transactions[t].payment = p
        /\ payments'[p] # NoRow /\ payments'[p].included
    BY <1>4, <1>12 DEF Counts
  <2>2. Linked(tab[t]) /\ tab[t].payment = p /\ transactions[t] # NoRow
    BY <2>1, <1>4 DEF Linked
  <2>3. CASE Requested(requested, t)
    <3>1. owners(p) # {}
      BY <2>2, <2>3
    <3>2. PICK x \in Transfers :
            /\ Requested(requested, x) /\ Linked(transactions[x]) /\ transactions[x].payment = p
            /\ payments[p] \in Payment /\ tab[x] \in Transaction
            /\ requested[tab[x].account] \in PaymentTypes
            /\ payments'[p] = Rewritten(tab[x], payments[p], requested[tab[x].account])
      BY <1>5, <3>1
    <3>3. x = t
      BY <2>1, <3>2 DEF IInv, Inv, LinksInjective
    <3>4. /\ tab[t].status = "matched" /\ Settled(tab[t])
          /\ \/ tab[t].money \in Fractional
             \/ /\ tab[t].money \notin Fractional
                /\ payments'[p].user = tab[t].user /\ payments'[p].money = tab[t].money
      <4>1. \/ ~payments'[p].included
            \/ /\ tab[t].status = "matched" /\ Settled(tab[t])
               /\ \/ tab[t].money \in Fractional
                  \/ /\ tab[t].money \notin Fractional
                     /\ payments'[p].user = tab[t].user /\ payments'[p].money = tab[t].money
        BY <3>2, <3>3, RewrittenRow
      <4>2. QED BY <2>1, <4>1
    <3>5. transactions'[t] = IF tab[t].money \in Fractional THEN InReview(tab[t]) ELSE tab[t]
      BY <1>2, <2>2, <2>3, <3>4 DEF Unpayable
    <3>6. QED BY <2>2, <3>4, <3>5
  <2>4. CASE ~Requested(requested, t)
    <3>1. transactions'[t] = transactions[t]
      BY <1>2, <1>3, <2>2, <2>4
    <3>2. payments'[p] = payments[p]
      BY <1>5, <2>1, <2>4 DEF IInv, Inv, LinksInjective
    <3>3. QED BY <2>1, <3>1, <3>2 DEF Counts
  <2>5. QED BY <2>3, <2>4
<1>13. UnsettledNotCounted'
  <2> SUFFICES ASSUME NEW t \in Transfers, NEW p \in Positions, Counts(t, p)'
               PROVE  ~transactions'[t].hold /\ ~transactions'[t].deleted
    BY DEF UnsettledNotCounted
  <2>1. CASE Counts(t, p) /\ transactions'[t] = transactions[t]
    BY <2>1 DEF IInv, Inv, UnsettledNotCounted
  <2>2. CASE Settled(tab[t]) /\ transactions[t] # NoRow
    BY <1>3, <2>2 DEF Settled, SameTransfer
  <2>3. QED BY <1>12, <2>1, <2>2
<1>14. CountedAgrees'
  <2> SUFFICES ASSUME NEW t \in Transfers, NEW p \in Positions, Counts(t, p)'
               PROVE  \/ /\ transactions'[t].status = "matched"
                         /\ transactions'[t].user = payments'[p].user
                         /\ transactions'[t].money = payments'[p].money
                      \/ /\ transactions'[t].status = "review"
                         /\ transactions'[t].user = NoUser
                         /\ transactions'[t].money \in Fractional
    BY DEF CountedAgrees
  <2>1. CASE Counts(t, p) /\ transactions'[t] = transactions[t] /\ payments'[p] = payments[p]
    BY <2>1 DEF IInv, Inv, CountedAgrees
  <2>2. CASE /\ transactions[t] # NoRow
             /\ tab[t].money \in Fractional /\ transactions'[t] = InReview(tab[t])
    BY <1>3, <2>2 DEF InReview, Transaction
  <2>3. CASE /\ tab[t].status = "matched" /\ transactions'[t] = tab[t]
             /\ payments'[p].user = tab[t].user /\ payments'[p].money = tab[t].money
    BY <2>3
  <2>4. QED BY <1>12, <2>1, <2>2, <2>3
<1>15. QED BY <1>1, <1>7, <1>8, <1>9, <1>10, <1>11, <1>13, <1>14 DEF IInv, Inv

LEMMA CreatePaymentKeeps ==
  ASSUME IInv, NEW u \in Users, NEW type \in PaymentTypes, NEW m \in Money,
         CreatePayment(u, type, m)
  PROVE  IInv'
<1> DEFINE row == [user |-> u, type |-> type, money |-> m, key |-> Manual, included |-> TRUE]
<1>1. PICK p \in Positions : IsNextPosition(p) /\ payments' = [payments EXCEPT ![p] = row]
  BY DEF CreatePayment
<1>2. m \notin Fractional /\ UNCHANGED <<transactions, configs, blacklist, rules>>
  BY DEF CreatePayment
<1>3. payments[p] = NoRow
  BY <1>1, ConstantsAssumption DEF IsNextPosition, Positions
<1>4. row \in Payment /\ row # NoRow /\ row.key = Manual /\ row.included = TRUE
  <2>1. row \in Payment
    BY <1>2 DEF Payment
  <2>2. row.key = Manual /\ row.included = TRUE
    OBVIOUS
  <2>3. QED BY <2>1, <2>2, NullsAssumption
<1> HIDE DEF row
<1>5. /\ payments' \in [Positions -> Payment \cup {NoRow}]
      /\ \A q \in Positions : payments'[q] = IF q = p THEN row ELSE payments[q]
  BY <1>1, <1>4 DEF IInv, Inv, RowsOK
<1>6. \A x \in Transfers : Linked(transactions[x]) =>
        transactions[x].payment # p /\ transactions[x].payment \in Positions
  BY <1>3 DEF IInv, Inv, LinksLive, RowsOK, Tables, Transaction, Linked
<1>7. RowsOK' /\ LinksLive' /\ LinksInjective'
  BY <1>2, <1>5, <1>6 DEF IInv, Inv, RowsOK, LinksLive, LinksInjective
<1>8. SourceKeyOwned'
  BY <1>2, <1>4, <1>5, NullsAssumption DEF IInv, Inv, SourceKeyOwned
<1>9. ExcludedIsLinked'
  <2> SUFFICES ASSUME NEW q \in Positions, payments'[q] # NoRow, ~payments'[q].included
               PROVE  \E t \in Transfers : Linked(transactions[t]) /\ transactions[t].payment = q
    BY <1>2 DEF ExcludedIsLinked
  <2>1. payments'[q] = payments[q]
    BY <1>4, <1>5
  <2>2. QED BY <2>1 DEF IInv, Inv, ExcludedIsLinked
<1>10. \A t \in Transfers, q \in Positions : Counts(t, q)' => Counts(t, q) /\ payments'[q] = payments[q]
  BY <1>2, <1>5, <1>6 DEF Counts
<1>11. UnsettledNotCounted' /\ CountedAgrees'
  BY <1>2, <1>10 DEF IInv, Inv, UnsettledNotCounted, CountedAgrees
<1>12. QED BY <1>2, <1>7, <1>8, <1>9, <1>11 DEF IInv, Inv, SettingsOK

LEMMA DeletePaymentKeeps ==
  ASSUME IInv, NEW p \in Positions, DeletePayment(p)
  PROVE  IInv'
<1>1. /\ payments' = [payments EXCEPT ![p] = NoRow]
      /\ transactions' = [t \in Transfers |->
           IF Linked(transactions[t]) /\ transactions[t].payment = p
           THEN [transactions[t] EXCEPT !.payment = NoPayment, !.user = NoUser,
                                        !.status = "rejected", !.source = "manual"]
           ELSE transactions[t]]
      /\ UNCHANGED <<configs, blacklist, rules>>
  BY DEF DeletePayment
<1>2. \A q \in Positions : payments'[q] = IF q = p THEN NoRow ELSE payments[q]
  BY <1>1 DEF IInv, Inv, RowsOK
<1>3. \A t \in Transfers :
        IF Linked(transactions[t]) /\ transactions[t].payment = p
        THEN transactions'[t] \in Transaction /\ ~Linked(transactions'[t])
        ELSE transactions'[t] = transactions[t]
  <2> SUFFICES ASSUME NEW t \in Transfers, Linked(transactions[t]), transactions[t].payment = p
               PROVE  transactions'[t] \in Transaction /\ ~Linked(transactions'[t])
    BY <1>1
  <2> DEFINE r == [transactions[t] EXCEPT !.payment = NoPayment, !.user = NoUser,
                                          !.status = "rejected", !.source = "manual"]
  <2>1. transactions[t] \in Transaction
    BY DEF Linked, IInv, Inv, RowsOK, Tables
  <2>2. r \in Transaction /\ r.payment = NoPayment
    BY <2>1 DEF Transaction, Statuses
  <2>3. transactions'[t] = r
    BY <1>1
  <2> HIDE DEF r
  <2>4. QED BY <2>2, <2>3 DEF Linked
<1>4. RowsOK'
  <2>1. \A t \in Transfers : transactions'[t] \in Transaction \cup {NoRow}
    BY <1>3 DEF IInv, Inv, RowsOK, Tables
  <2>2. QED BY <1>1, <2>1 DEF IInv, Inv, RowsOK, Tables
<1>5. LinksLive' /\ LinksInjective'
  BY <1>2, <1>3 DEF IInv, Inv, LinksLive, LinksInjective, RowsOK, Tables, Transaction, Linked
<1>6. SourceKeyOwned'
  BY <1>2, <1>3, NullsAssumption DEF IInv, Inv, SourceKeyOwned, Linked
<1>7. ExcludedIsLinked'
  <2> SUFFICES ASSUME NEW q \in Positions, payments'[q] # NoRow, ~payments'[q].included
               PROVE  \E t \in Transfers : Linked(transactions'[t]) /\ transactions'[t].payment = q
    BY DEF ExcludedIsLinked
  <2>1. q # p /\ payments'[q] = payments[q]
    BY <1>2
  <2>2. PICK t \in Transfers : Linked(transactions[t]) /\ transactions[t].payment = q
    BY <2>1 DEF IInv, Inv, ExcludedIsLinked
  <2>3. QED BY <1>3, <2>1, <2>2
<1>8. \A t \in Transfers, q \in Positions :
        Counts(t, q)' => /\ Counts(t, q) /\ payments'[q] = payments[q]
                         /\ transactions'[t] = transactions[t]
  BY <1>2, <1>3 DEF Counts
<1>9. UnsettledNotCounted' /\ CountedAgrees'
  BY <1>8 DEF IInv, Inv, UnsettledNotCounted, CountedAgrees
<1>10. QED BY <1>1, <1>4, <1>5, <1>6, <1>7, <1>9 DEF IInv, Inv, SettingsOK

-----------------------------------------------------------------------------
(* Theorems: links, and what counts *)

LEMMA InitIInv == Init => IInv
<1> SUFFICES ASSUME Init PROVE IInv
  OBVIOUS
<1>1. SettingsOK
  BY DEF Init, SettingsOK
<1>2. /\ \A t \in Transfers : ~Linked(transactions[t])
      /\ \A p \in Positions : payments[p] = NoRow
  BY DEF Init, Linked
<1>3. RowsOK
  BY DEF Init, RowsOK, Tables
<1>4. QED
  BY <1>1, <1>2, <1>3 DEF IInv, Inv, LinksLive, LinksInjective, SourceKeyOwned,
                          ExcludedIsLinked, UnsettledNotCounted, CountedAgrees, Counts

LEMMA NextIInv == IInv /\ [Next]_vars => IInv'
<1> SUFFICES ASSUME IInv, [Next]_vars PROVE IInv'
  OBVIOUS
<1>1. ASSUME Sync PROVE IInv'
  BY <1>1, SyncItemKeeps, SyncDeletionKeeps DEF Sync
<1>2. ASSUME NEW t \in Transfers, Decide(t) \/ ApproveMatched(t) PROVE IInv'
  BY <1>2, AssignKeeps, ApproveKeeps, RejectKeeps, BlacklistKeeps, RetryKeeps DEF Decide
<1>3. ASSUME NEW requested \in [Accounts -> PaymentTypes \cup {NoType}],
             NEW lists \in [Accounts -> SUBSET Patterns], SaveSettings(requested, lists)
      PROVE  IInv'
  BY <1>3, SaveSettingsKeeps
<1>4. ASSUME NEW u \in Users, NEW type \in PaymentTypes, NEW m \in Money,
             CreatePayment(u, type, m)
      PROVE  IInv'
  BY <1>4, CreatePaymentKeeps
<1>5. ASSUME NEW p \in Positions, DeletePayment(p) PROVE IInv'
  BY <1>5, DeletePaymentKeeps
<1>6. CASE UNCHANGED vars
  BY <1>6 DEF vars, IInv, Inv, SettingsOK, RowsOK, LinksLive, LinksInjective, SourceKeyOwned,
              ExcludedIsLinked, UnsettledNotCounted, CountedAgrees, Counts
<1>7. QED BY <1>1, <1>2, <1>3, <1>4, <1>5, <1>6 DEF Next

LEMMA Invariance == Spec => []IInv
BY InitIInv, NextIInv, PTL DEF Spec

\* The tables hold rows of the types their columns allow; in particular a
\* payment never gets a fractional sum.
THEOREM TypeCorrect == Spec => []TypeOK
<1>1. IInv => TypeOK
  BY DEF IInv, Inv, RowsOK, SettingsOK, Tables, TypeOK
<1>2. QED BY <1>1, Invariance, PTL

\* No payment is the payment of two transfers.
THEOREM OnePaymentPerTransfer == Spec => []LinksInjective
<1>1. IInv => LinksInjective
  BY DEF IInv, Inv
<1>2. QED BY <1>1, Invariance, PTL

\* A payment created from a transfer stays linked with it until it is deleted, so
\* that no transfer is paid in twice by approvals.
THEOREM CreatedOnce == Spec => []SourceKeyOwned
<1>1. IInv => SourceKeyOwned
  BY DEF IInv, Inv
<1>2. QED BY <1>1, Invariance, PTL

\* What is on hold or deleted does not count.
THEOREM OnlySettledCounts == Spec => []UnsettledNotCounted
<1>1. IInv => UnsettledNotCounted
  BY DEF IInv, Inv
<1>2. QED BY <1>1, Invariance, PTL

\* What counts agrees with the transaction it counts for.
THEOREM CountsAgree == Spec => []CountedAgrees
<1>1. IInv => CountedAgrees
  BY DEF IInv, Inv
<1>2. QED BY <1>1, Invariance, PTL

\* A payment out of the balance can be brought back by a decision.
THEOREM NothingLost == Spec => []ExcludedIsLinked
<1>1. IInv => ExcludedIsLinked
  BY DEF IInv, Inv
<1>2. QED BY <1>1, Invariance, PTL

-----------------------------------------------------------------------------
(* What a matched row says, beside what its payment says.  A row that is   *)
(* matched is settled; one that waits for its approval was matched with    *)
(* the blacklist and, when there is one account, the rules of now; one     *)
(* that is linked is counted under the type of its account.                *)

OneAccount == \A a, b \in Accounts : a = b

MatchedSettled(r) == r.status = "matched" => Settled(r)

Waits(r) == r.status = "matched" /\ r.source = "automatic" /\ r.payment = NoPayment

QueueOK(r, type, blocked, learned) ==
  Waits(r) /\ type # NoType =>
    /\ \A q \in blocked : r.sender \notin Blocks[q]
    /\ OneAccount => SenderUsers(r.sender, learned) = {r.user}

PaidOK(r, rows, type) ==
  Linked(r) =>
    /\ r.status = "matched" => rows[r.payment].included
    /\ rows[r.payment].included /\ r.money \notin Fractional /\ type # NoType
         => rows[r.payment].type = type

RowOK(r, rows, types, blocked, learned) ==
  r # NoRow =>
    /\ MatchedSettled(r)
    /\ QueueOK(r, types[r.account], blocked[r.account], learned)
    /\ PaidOK(r, rows, types[r.account])

AllRowsOK ==
  \A t \in Transfers : RowOK(transactions[t], payments, configs, blacklist, rules)

FollowInv == IInv /\ AllRowsOK

-----------------------------------------------------------------------------
(* Matching *)

LEMMA RematchedFollows ==
  ASSUME NEW r \in Transaction, ~r.hold, ~r.deleted, NEW type, NEW blocked, NEW learned
  PROVE  /\ MatchedSettled(Rematched(r, blocked, learned))
         /\ QueueOK(Rematched(r, blocked, learned), type, blocked, learned)
<1> DEFINE found == match_sender(r.sender, blocked, learned)
           x == Rematched(r, blocked, learned)
<1>1. /\ x \in Transaction /\ SameTransfer(r, x)
      /\ x.status = "matched" => x.user \in Users
  BY RematchedType
<1>2. x.status = found.status /\ x.user = found.user
  BY DEF Rematched, Transaction
<1>3. found.status = "matched" =>
        /\ \A q \in blocked : r.sender \notin Blocks[q]
        /\ SenderUsers(r.sender, learned) = {found.user}
  <2>1. CASE \E q \in blocked : r.sender \in Blocks[q]
    BY <2>1 DEF match_sender
  <2>2. CASE /\ ~ \E q \in blocked : r.sender \in Blocks[q]
             /\ \E u \in Users : SenderUsers(r.sender, learned) = {u}
    <3>1. found.user = CHOOSE u \in Users : SenderUsers(r.sender, learned) = {u}
      BY <2>2 DEF match_sender
    <3> HIDE DEF found
    <3>2. SenderUsers(r.sender, learned) = {found.user}
      BY <2>2, <3>1
    <3>3. QED BY <2>2, <3>2
  <2>3. CASE /\ ~ \E q \in blocked : r.sender \in Blocks[q]
             /\ ~ \E u \in Users : SenderUsers(r.sender, learned) = {u}
    BY <2>3 DEF match_sender
  <2>4. QED BY <2>1, <2>2, <2>3
<1> HIDE DEF found, x
<1>4. MatchedSettled(x)
  BY <1>1, NullsAssumption DEF MatchedSettled, Settled, SameTransfer
<1>5. QueueOK(x, type, blocked, learned)
  BY <1>1, <1>2, <1>3 DEF QueueOK, Waits, SameTransfer
<1>6. QED BY <1>4, <1>5 DEF x

\* The table a handler has built for t, its blacklists and rules: every row is in order
\* but for the payment of t.
TableOK(tab, t, blocked, learned) ==
  \A x \in Transfers :
    tab[x] # NoRow =>
      /\ MatchedSettled(tab[x])
      /\ QueueOK(tab[x], configs[tab[x].account], blocked[tab[x].account], learned)
      /\ x # t => PaidOK(tab[x], payments, configs[tab[x].account])

LEMMA OneRowOK ==
  ASSUME FollowInv, NEW t \in Transfers, NEW r, r # NoRow, MatchedSettled(r),
         QueueOK(r, configs[r.account], blacklist[r.account], rules)
  PROVE  TableOK([transactions EXCEPT ![t] = r], t, blacklist, rules)
<1> DEFINE tab == [transactions EXCEPT ![t] = r]
<1>1. \A x \in Transfers : tab[x] = IF x = t THEN r ELSE transactions[x]
  BY DEF FollowInv, IInv, Inv, RowsOK, Tables
<1> HIDE DEF tab
<1>2. TableOK(tab, t, blacklist, rules)
  BY <1>1 DEF TableOK, FollowInv, AllRowsOK, RowOK
<1>3. QED BY <1>2 DEF tab

\* After a decision about t all that waits in its account is matched again.
LEMMA RematchPendingOK ==
  ASSUME FollowInv, NEW t \in Transfers, NEW r \in Transaction, MatchedSettled(r),
         r.source = "manual", NEW blocked, NEW learned, NEW lists,
         lists[r.account] = blocked,
         \A a \in Accounts \ {r.account} : lists[a] = blacklist[a]
  PROVE  TableOK(rematch_pending([transactions EXCEPT ![t] = r], r.account, blocked, learned),
                 t, lists, learned)
<1> DEFINE old == [transactions EXCEPT ![t] = r]
           tab == rematch_pending(old, r.account, blocked, learned)
<1>1. \A x \in Transfers : old[x] = IF x = t THEN r ELSE transactions[x]
  BY DEF FollowInv, IInv, Inv, RowsOK, Tables
<1>2. \A x \in Transfers :
        tab[x] = IF Pending(old, x, r.account) THEN Rematched(old[x], blocked, learned)
                 ELSE old[x]
  BY DEF rematch_pending
<1> HIDE DEF old, tab
<1>3. ASSUME NEW x \in Transfers, tab[x] # NoRow
      PROVE  /\ MatchedSettled(tab[x])
             /\ QueueOK(tab[x], configs[tab[x].account], lists[tab[x].account], learned)
             /\ x # t => PaidOK(tab[x], payments, configs[tab[x].account])
  <2>1. CASE Pending(old, x, r.account)
    <3>1. /\ old[x] \in Transaction /\ ~old[x].hold /\ ~old[x].deleted
          /\ old[x].account = r.account /\ old[x].payment = NoPayment
      BY <1>1, <2>1 DEF Pending, FollowInv, IInv, Inv, RowsOK, Tables
    <3>2. tab[x] = Rematched(old[x], blocked, learned)
      BY <1>2, <2>1
    <3>3. /\ tab[x].account = r.account /\ ~Linked(tab[x])
      BY <3>1, <3>2, RematchedType DEF SameTransfer, Linked
    <3>4. MatchedSettled(tab[x]) /\ QueueOK(tab[x], configs[r.account], blocked, learned)
      BY <3>1, <3>2, RematchedFollows
    <3>5. QED BY <3>3, <3>4 DEF PaidOK
  <2>2. CASE ~Pending(old, x, r.account) /\ x = t
    BY <1>1, <1>2, <2>2 DEF QueueOK, Waits
  <2>3. CASE ~Pending(old, x, r.account) /\ x # t
    <3>1. tab[x] = transactions[x] /\ old[x] = transactions[x]
      BY <1>1, <1>2, <2>3
    <3>2. transactions[x] \in Transaction
      BY <1>3, <3>1 DEF FollowInv, IInv, Inv, RowsOK, Tables
    <3>3. /\ MatchedSettled(transactions[x])
          /\ PaidOK(transactions[x], payments, configs[transactions[x].account])
          /\ QueueOK(transactions[x], configs[transactions[x].account],
                     blacklist[transactions[x].account], rules)
      BY <1>3, <3>1 DEF FollowInv, AllRowsOK, RowOK
    <3>4. Waits(transactions[x]) => transactions[x].account # r.account
      BY <1>3, <2>3, <3>1, <3>3 DEF Waits, MatchedSettled, Settled, Pending
    <3>5. Waits(transactions[x]) =>
            /\ lists[transactions[x].account] = blacklist[transactions[x].account]
            /\ ~OneAccount
      BY <3>2, <3>4 DEF OneAccount, Transaction
    <3>6. QED BY <3>1, <3>3, <3>5 DEF QueueOK
  <2>4. QED BY <2>1, <2>2, <2>3
<1>4. TableOK(tab, t, lists, learned)
  BY <1>3 DEF TableOK
<1>5. QED BY <1>4 DEF tab, old

-----------------------------------------------------------------------------
(* Writing the payment *)

\* No two rows of a prepared table have one payment.
LEMMA PreparedInjective ==
  ASSUME Inv, NEW tab, NEW t \in Transfers, Prepared(tab, t),
         NEW x \in Transfers, NEW y \in Transfers, x # y, Linked(tab[x]), Linked(tab[y])
  PROVE  tab[x].payment # tab[y].payment
BY DEF Prepared, Inv, LinksInjective

LEMMA LinkedPosition ==
  ASSUME NEW tab \in Tables, NEW x \in Transfers, Linked(tab[x])
  PROVE  tab[x].payment \in Positions
BY DEF Linked, Tables, Transaction

LEMMA DeactivateFollows ==
  ASSUME Inv, NEW tab, NEW t \in Transfers, Prepared(tab, t),
         TableOK(tab, t, blacklist', rules'), configs' = configs,
         tab[t].status # "matched", deactivate_payment(tab, t)
  PROVE  AllRowsOK'
<1>1. transactions' = tab /\ tab \in Tables
  BY DEF deactivate_payment, Prepared
<1>2. \A x \in Transfers : Linked(tab[x]) =>
        /\ tab[x].payment \in Positions
        /\ payments'[tab[x].payment] = IF x = t THEN [payments[tab[x].payment] EXCEPT !.included = FALSE]
                                       ELSE payments[tab[x].payment]
  <2>1. \A x \in Transfers : Linked(tab[x]) => tab[x].payment \in Positions
    BY <1>1, LinkedPosition
  <2>2. \A x \in Transfers : Linked(tab[x]) /\ x # t => tab[x].payment # tab[t].payment
    BY PreparedInjective DEF Linked, Prepared
  <2>3. QED BY <2>1, <2>2 DEF deactivate_payment, Inv, RowsOK, Linked
<1>3. Linked(tab[t]) => ~payments'[tab[t].payment].included
  <2>1. Linked(tab[t]) => payments[tab[t].payment] \in Payment
    BY <1>2 DEF Inv, RowsOK, LinksLive, Prepared
  <2>2. QED BY <1>2, <2>1 DEF Payment
<1>4. ASSUME NEW x \in Transfers, tab[x] # NoRow
      PROVE  PaidOK(tab[x], payments', configs[tab[x].account])
  <2>1. CASE x = t
    BY <1>3, <2>1 DEF PaidOK
  <2>2. CASE x # t
    <3>1. PaidOK(tab[x], payments, configs[tab[x].account])
      BY <1>4, <2>2 DEF TableOK
    <3>2. QED BY <1>2, <2>2, <3>1 DEF PaidOK
  <2>3. QED BY <2>1, <2>2
<1>5. QED BY <1>1, <1>4 DEF TableOK, AllRowsOK, RowOK

\* The payments stay as they are.
LEMMA TableFollows ==
  ASSUME NEW tab, NEW t \in Transfers, Prepared(tab, t),
         TableOK(tab, t, blacklist', rules'), configs' = configs,
         Linked(tab[t]) => tab[t].status # "matched" /\ tab[t].money \in Fractional,
         transactions' = tab, payments' = payments
  PROVE  AllRowsOK'
<1>1. PaidOK(tab[t], payments, configs[tab[t].account])
  BY DEF PaidOK
<1>2. QED BY <1>1 DEF TableOK, AllRowsOK, RowOK

LEMMA LinkFollows ==
  ASSUME Inv, NEW tab, NEW t \in Transfers, Prepared(tab, t),
         TableOK(tab, t, blacklist', rules'), configs' = configs,
         tab[t].status = "matched",
         NEW p \in Positions, NEW key,
         \/ tab[t].payment = p
         \/ ~Linked(tab[t]) /\ p \notin LinkedPositions(tab),
         Link(tab, t, p, configs[tab[t].account], key)
  PROVE  AllRowsOK'
<1> DEFINE r == [tab[t] EXCEPT !.payment = p]
           row == Written(tab[t], configs[tab[t].account], key)
<1>1. tab \in Tables /\ tab[t] \in Transaction /\ tab[t] # NoRow
  BY PreparedLink DEF Prepared
<1>2. /\ r.payment = p /\ r.status = tab[t].status /\ r.user = tab[t].user
      /\ r.hold = tab[t].hold /\ r.deleted = tab[t].deleted /\ r.account = tab[t].account
  BY <1>1 DEF Transaction
<1>3. row.included = TRUE /\ row.type = configs[tab[t].account]
  BY DEF Written
<1>4. \A x \in Transfers : transactions'[x] = IF x = t THEN r ELSE tab[x]
  BY <1>1 DEF Link, Tables
<1>5. \A q \in Positions : payments'[q] = IF q = p THEN row ELSE payments[q]
  BY DEF Link, Inv, RowsOK
<1> HIDE DEF r, row
<1>6. \A x \in Transfers \ {t} : Linked(tab[x]) =>
        tab[x].payment \in Positions /\ tab[x].payment # p
  <2> SUFFICES ASSUME NEW x \in Transfers \ {t}, Linked(tab[x])
               PROVE  tab[x].payment \in Positions /\ tab[x].payment # p
    OBVIOUS
  <2>1. tab[x].payment \in Positions
    BY <1>1, LinkedPosition
  <2>2. CASE tab[t].payment = p
    <3>1. Linked(tab[t])
      BY <1>1, <2>2, NullsAssumption DEF Linked
    <3>2. QED BY <2>1, <2>2, <3>1, PreparedInjective
  <2>3. CASE ~Linked(tab[t]) /\ p \notin LinkedPositions(tab)
    BY <2>1, <2>3 DEF LinkedPositions
  <2>4. QED BY <2>2, <2>3
<1>7. ASSUME NEW x \in Transfers, transactions'[x] # NoRow
      PROVE  RowOK(transactions'[x], payments', configs, blacklist', rules')
  <2>1. CASE x = t
    <3>1. transactions'[x] = r
      BY <1>4, <2>1
    <3>2. MatchedSettled(tab[t])
      BY <1>1 DEF TableOK
    <3>3. MatchedSettled(r)
      BY <1>2, <3>2 DEF MatchedSettled, Settled
    <3>4. ~Waits(r)
      BY <1>2, NullsAssumption DEF Waits
    <3>5. PaidOK(r, payments', configs[r.account])
      BY <1>2, <1>3, <1>5 DEF PaidOK
    <3>6. QED BY <3>1, <3>3, <3>4, <3>5 DEF RowOK, QueueOK
  <2>2. CASE x # t
    <3>1. transactions'[x] = tab[x] /\ tab[x] # NoRow
      BY <1>4, <1>7, <2>2
    <3>2. /\ MatchedSettled(tab[x])
          /\ QueueOK(tab[x], configs[tab[x].account], (blacklist')[tab[x].account], rules')
          /\ PaidOK(tab[x], payments, configs[tab[x].account])
      BY <2>2, <3>1 DEF TableOK
    <3>3. PaidOK(tab[x], payments', configs[tab[x].account])
      BY <1>5, <1>6, <2>2, <3>2 DEF PaidOK
    <3>4. QED BY <3>1, <3>2, <3>3 DEF RowOK
  <2>3. QED BY <2>1, <2>2
<1>8. QED BY <1>7 DEF AllRowsOK, RowOK

\* upsert_payment for a matched transaction.
LEMMA UpsertFollows ==
  ASSUME Inv, NEW tab, NEW t \in Transfers, Prepared(tab, t),
         TableOK(tab, t, blacklist', rules'), configs' = configs,
         tab[t].status = "matched", NEW create \in BOOLEAN,
         upsert_payment(tab, t, configs[tab[t].account], create)
  PROVE  AllRowsOK'
<1> DEFINE type == configs[tab[t].account]
           new == [tab EXCEPT ![t] = InReview(tab[t])]
<1>1. tab[t] \in Transaction /\ tab[t] # NoRow /\ (Linked(tab[t]) <=> tab[t].payment \in Positions)
  BY PreparedLink DEF Prepared
<1>2. Settled(tab[t])
  BY <1>1 DEF TableOK, MatchedSettled
<1>3. /\ Prepared(new, t)
      /\ Linked(new[t]) <=> Linked(tab[t])
      /\ new[t].money = tab[t].money
      /\ new[t].status = "review" /\ new[t].user = NoUser
  BY InReviewPrepared
<1>4. TableOK(new, t, blacklist', rules')
  <2>1. \A x \in Transfers \ {t} : new[x] = tab[x]
    BY DEF Prepared, Tables
  <2> HIDE DEF new
  <2>2. MatchedSettled(new[t]) /\ ~Waits(new[t])
    BY <1>3 DEF MatchedSettled, Waits
  <2>3. QED BY <2>1, <2>2 DEF TableOK, QueueOK
<1> HIDE DEF new
<1>5. CASE /\ tab[t].money \in Fractional
           /\ transactions' = new /\ UNCHANGED payments
  BY <1>3, <1>4, <1>5, TableFollows
<1>6. CASE Linked(tab[t]) /\ Link(tab, t, tab[t].payment, type, payments[tab[t].payment].key)
  BY <1>1, <1>6, LinkFollows
<1>7. CASE ~Linked(tab[t]) /\ upsert_unlinked(tab, t, type, create)
  <2> DEFINE found == Candidates(tab, tab[t], type)
  <2>1. CASE \E p \in Positions : found = {p} /\ Link(tab, t, p, type, payments[p].key)
    <3>1. PICK p \in Positions : found = {p} /\ Link(tab, t, p, type, payments[p].key)
      BY <2>1
    <3>2. p \notin LinkedPositions(tab)
      BY <3>1 DEF Candidates
    <3>3. QED BY <1>7, <3>1, <3>2, LinkFollows
  <2>2. CASE transactions' = new /\ UNCHANGED payments
    BY <1>3, <1>4, <1>7, <2>2, TableFollows
  <2>3. CASE transactions' = tab /\ UNCHANGED payments
    BY <1>7, <2>3, TableFollows
  <2>4. CASE \E p \in Positions : IsNextPosition(p) /\ Link(tab, t, p, type, t)
    <3>1. PICK p \in Positions : IsNextPosition(p) /\ Link(tab, t, p, type, t)
      BY <2>4
    <3>2. payments[p] = NoRow
      BY <3>1, ConstantsAssumption DEF IsNextPosition, Positions
    <3>3. p \notin LinkedPositions(tab)
      BY <3>2 DEF LinkedPositions, Inv, LinksLive, Prepared
    <3>4. QED BY <1>7, <3>1, <3>3, LinkFollows
  <2>5. QED BY <1>7, <2>1, <2>2, <2>3, <2>4 DEF upsert_unlinked, new
<1>8. QED BY <1>2, <1>5, <1>6, <1>7 DEF upsert_payment, new

LEMMA SettleFollows ==
  ASSUME Inv, NEW tab, NEW t \in Transfers, Prepared(tab, t),
         TableOK(tab, t, blacklist', rules'), configs' = configs,
         settle(tab, t, configs[tab[t].account])
  PROVE  AllRowsOK'
BY DeactivateFollows, UpsertFollows DEF settle

-----------------------------------------------------------------------------
(* What a step leaves of a manual decision *)

Stands(old, new) ==
  /\ new # NoRow /\ new.source = "manual"
  /\ new.user \in {old.user, NoUser}
  /\ old.user = NoUser => new.status # "matched"

\* Whatever becomes of its payment, a row is as the handler left it, or in review.
LEMMA WrittenRow ==
  ASSUME NEW tab, NEW t \in Transfers, Prepared(tab, t), NEW type, NEW create,
         \/ deactivate_payment(tab, t) \/ upsert_payment(tab, t, type, create)
         \/ settle(tab, t, type)
  PROVE  /\ \A x \in Transfers \ {t} : transactions'[x] = tab[x]
         /\ transactions'[t] # NoRow
         /\ transactions'[t].source = tab[t].source
         /\ transactions'[t].user \in {tab[t].user, NoUser}
         /\ transactions'[t].status \in {tab[t].status, "review"}
<1>1. tab \in Tables /\ tab[t] \in Transaction
  BY PreparedLink DEF Prepared
<1>2. /\ InReview(tab[t]).source = tab[t].source /\ InReview(tab[t]).user = NoUser
      /\ InReview(tab[t]).status = "review" /\ InReview(tab[t]) \in Transaction
  BY <1>1 DEF InReview, Transaction, Statuses
<1>3. \/ transactions' = tab
      \/ transactions' = [tab EXCEPT ![t] = InReview(tab[t])]
      \/ \E p \in Positions \cup {tab[t].payment} : transactions' = [tab EXCEPT ![t].payment = p]
  BY DEF deactivate_payment, upsert_payment, upsert_unlinked, settle, Link
<1>4. CASE transactions' = tab
  BY <1>4 DEF Prepared
<1>5. CASE transactions' = [tab EXCEPT ![t] = InReview(tab[t])]
  BY <1>1, <1>2, <1>5, NullsAssumption DEF Tables
<1>6. CASE \E p \in Positions \cup {tab[t].payment} : transactions' = [tab EXCEPT ![t].payment = p]
  <2>1. PICK p \in Positions \cup {tab[t].payment} : transactions' = [tab EXCEPT ![t].payment = p]
    BY <1>6
  <2>2. /\ [tab[t] EXCEPT !.payment = p] \in Transaction
        /\ [tab[t] EXCEPT !.payment = p].source = tab[t].source
        /\ [tab[t] EXCEPT !.payment = p].user = tab[t].user
        /\ [tab[t] EXCEPT !.payment = p].status = tab[t].status
    BY <1>1 DEF Transaction
  <2>3. \A x \in Transfers :
          transactions'[x] = IF x = t THEN [tab[t] EXCEPT !.payment = p] ELSE tab[x]
    BY <1>1, <2>1 DEF Tables
  <2>4. QED BY <2>2, <2>3, NullsAssumption
<1>7. QED BY <1>3, <1>4, <1>5, <1>6

\* A manual row that stays as it is stands.
LEMMA UnchangedStands ==
  ASSUME FollowInv, NEW x \in Transfers, Manually(x), transactions'[x] = transactions[x]
  PROVE  Stands(transactions[x], transactions'[x])
BY DEF Stands, Manually, FollowInv, AllRowsOK, RowOK, MatchedSettled, Settled

\* Manual rows are not matched again.
LEMMA RematchStands ==
  ASSUME NEW tab, NEW x \in Transfers, tab[x] # NoRow, tab[x].source = "manual",
         NEW a, NEW blocked, NEW learned
  PROVE  rematch_pending(tab, a, blocked, learned)[x] = tab[x]
BY DEF rematch_pending, Pending

-----------------------------------------------------------------------------
(* One lemma per action: matched rows and manual decisions *)

LEMMA SyncItemFollows ==
  ASSUME FollowInv, NEW a \in Accounts, NEW i \in Items, SyncItem(a, i)
  PROVE  /\ AllRowsOK'
         /\ \A x \in Transfers :
              Manually(x) => Stands(transactions[x], transactions'[x])
<1> DEFINE t == i.id
           r == Received(i, a)
           x == Judged(r, a)
           tab == [transactions EXCEPT ![t] = x]
<1>1. t \in Transfers
  BY DEF Items
<1>2. /\ r \in Transaction /\ r.account = a
      /\ transactions[t] # NoRow => /\ r.payment = transactions[t].payment
                                    /\ r.source = transactions[t].source
                                    /\ r.user = transactions[t].user
      /\ transactions[t] = NoRow => r.payment = NoPayment /\ r.source = "automatic"
  <2>1. CASE transactions[t] = NoRow
    BY <2>1, <1>1 DEF Received, Items, Transaction, Statuses
  <2>2. CASE transactions[t] # NoRow
    <3>1. transactions[t] \in Transaction
      BY <2>2, <1>1 DEF FollowInv, IInv, Inv, RowsOK, Tables
    <3>2. QED BY <2>2, <3>1, <1>1 DEF Received, Items, Transaction
  <2>3. QED BY <2>1, <2>2
<1> HIDE DEF r
<1>3. /\ x \in Transaction /\ x.payment = r.payment /\ x.source = r.source /\ x.account = a
      /\ MatchedSettled(x) /\ QueueOK(x, configs[a], blacklist[a], rules)
      /\ r.source = "manual" =>
           /\ x.user \in {r.user, NoUser}
           /\ r.user = NoUser => x.status = "rejected"
  <2>1. CASE r.deleted
    BY <1>2, <2>1 DEF Judged, Transaction, Statuses, MatchedSettled, QueueOK, Waits
  <2>2. CASE ~r.deleted /\ r.source = "manual" /\ r.user = NoUser
    BY <1>2, <2>2 DEF Judged, Transaction, Statuses, MatchedSettled, QueueOK, Waits
  <2>3. CASE ~r.deleted /\ ~(r.source = "manual" /\ r.user = NoUser) /\ r.hold
    BY <1>2, <2>3 DEF Judged, Transaction, Statuses, MatchedSettled, QueueOK, Waits
  <2>4. CASE ~r.deleted /\ r.source = "manual" /\ r.user # NoUser /\ ~r.hold
    BY <1>2, <2>4 DEF Judged, Transaction, Statuses, MatchedSettled, Settled, QueueOK, Waits
  <2>5. CASE ~r.deleted /\ r.source # "manual" /\ ~r.hold
    <3>1. x = Rematched(r, blacklist[a], rules)
      BY <2>5 DEF Judged
    <3> HIDE DEF x
    <3>2. QED BY <1>2, <2>5, <3>1, RematchedType, RematchedFollows DEF SameTransfer
  <2>6. QED BY <2>1, <2>2, <2>3, <2>4, <2>5
<1>4. /\ settle(tab, t, configs[a])
      /\ configs' = configs /\ blacklist' = blacklist /\ rules' = rules
  BY DEF SyncItem, r
<1> HIDE DEF x
<1>5. Prepared(tab, t)
  BY <1>1, <1>2, <1>3, OneRowPrepared DEF FollowInv, IInv
<1>6. TableOK(tab, t, blacklist, rules)
  BY <1>1, <1>3, OneRowOK, NullsAssumption
<1>7. /\ tab[t] = x
      /\ \A y \in Transfers \ {t} : tab[y] = transactions[y]
  BY <1>1 DEF FollowInv, IInv, Inv, RowsOK, Tables
<1> HIDE DEF tab, t
<1>8. AllRowsOK'
  BY <1>1, <1>3, <1>4, <1>5, <1>6, <1>7, SettleFollows DEF FollowInv, IInv
<1>9. /\ \A y \in Transfers \ {t} : transactions'[y] = transactions[y]
      /\ transactions'[t] # NoRow /\ transactions'[t].source = x.source
      /\ transactions'[t].user \in {x.user, NoUser}
      /\ transactions'[t].status \in {x.status, "review"}
  <2>1. /\ \A y \in Transfers \ {t} : transactions'[y] = tab[y]
        /\ transactions'[t] # NoRow
        /\ transactions'[t].source = tab[t].source
        /\ transactions'[t].user \in {tab[t].user, NoUser}
        /\ transactions'[t].status \in {tab[t].status, "review"}
    BY <1>1, <1>4, <1>5, WrittenRow
  <2>2. QED BY <1>7, <2>1
<1>10. Manually(t) => Stands(transactions[t], transactions'[t])
  BY <1>2, <1>3, <1>9 DEF Manually, Stands
<1>11. QED BY <1>8, <1>9, <1>10, UnchangedStands

LEMMA SyncDeletionFollows ==
  ASSUME FollowInv, NEW a \in Accounts, NEW t \in Transfers, SyncDeletion(a, t)
  PROVE  /\ AllRowsOK'
         /\ \A x \in Transfers :
              Manually(x) => Stands(transactions[x], transactions'[x])
<1> DEFINE r == [transactions[t] EXCEPT !.deleted = TRUE, !.status = "rejected", !.user = NoUser]
           tab == [transactions EXCEPT ![t] = r]
<1>1. transactions[t] \in Transaction
  BY DEF SyncDeletion, FollowInv, IInv, Inv, RowsOK, Tables
<1>2. /\ r \in Transaction /\ r.payment = transactions[t].payment
      /\ r.status = "rejected" /\ r.user = NoUser /\ r.source = transactions[t].source
  BY <1>1 DEF Transaction, Statuses
<1>3. /\ deactivate_payment(tab, t)
      /\ configs' = configs /\ blacklist' = blacklist /\ rules' = rules
  BY DEF SyncDeletion
<1> HIDE DEF r
<1>4. Prepared(tab, t)
  BY <1>1, <1>2, OneRowPrepared, NullsAssumption DEF FollowInv, IInv
<1>5. TableOK(tab, t, blacklist, rules)
  BY <1>2, OneRowOK, NullsAssumption DEF MatchedSettled, QueueOK, Waits
<1>6. tab[t] = r /\ \A y \in Transfers \ {t} : tab[y] = transactions[y]
  BY DEF FollowInv, IInv, Inv, RowsOK, Tables
<1> HIDE DEF tab
<1>7. AllRowsOK'
  BY <1>2, <1>3, <1>4, <1>5, <1>6, DeactivateFollows DEF FollowInv, IInv
<1>8. transactions' = tab
  BY <1>3 DEF deactivate_payment
<1>9. QED BY <1>1, <1>2, <1>6, <1>7, <1>8, UnchangedStands, NullsAssumption DEF Stands, Manually

\* Approving one or all: the rows are as they are.
LEMMA ApproveFollows ==
  ASSUME FollowInv, NEW t \in Transfers, Approve(t) \/ ApproveMatched(t)
  PROVE  /\ AllRowsOK'
         /\ \A x \in Transfers \ {t} :
              Manually(x) => Stands(transactions[x], transactions'[x])
         /\ ApproveMatched(t) /\ Manually(t) => Stands(transactions[t], transactions'[t])
<1>1. /\ Decidable(t) /\ transactions[t].status = "matched"
      /\ upsert_payment(transactions, t, configs[transactions[t].account], TRUE)
      /\ configs' = configs /\ blacklist' = blacklist /\ rules' = rules
  BY DEF Approve, ApproveMatched, TypeOf
<1>2. Prepared(transactions, t)
  BY <1>1, TypeOfDecidable DEF FollowInv
<1>3. TableOK(transactions, t, blacklist, rules)
  BY DEF FollowInv, AllRowsOK, RowOK, TableOK
<1>4. AllRowsOK'
  BY <1>1, <1>2, <1>3, UpsertFollows DEF FollowInv, IInv
<1>5. /\ \A x \in Transfers \ {t} : transactions'[x] = transactions[x]
      /\ transactions'[t] # NoRow
      /\ transactions'[t].source = transactions[t].source
      /\ transactions'[t].user \in {transactions[t].user, NoUser}
  BY <1>1, <1>2, WrittenRow
<1>6. transactions[t].user # NoUser
  BY DEF Approve, ApproveMatched, Settled
<1>7. QED BY <1>4, <1>5, <1>6, UnchangedStands DEF Stands, Manually

LEMMA RejectFollows ==
  ASSUME FollowInv, NEW t \in Transfers, Reject(t)
  PROVE  /\ AllRowsOK'
         /\ \A x \in Transfers \ {t} :
              Manually(x) => Stands(transactions[x], transactions'[x])
<1> DEFINE r == [transactions[t] EXCEPT !.status = "rejected", !.user = NoUser,
                                        !.source = "manual"]
           tab == [transactions EXCEPT ![t] = r]
<1>1. transactions[t] \in Transaction
  BY TypeOfDecidable DEF Reject, FollowInv
<1>2. r \in Transaction /\ r.payment = transactions[t].payment /\ r.status = "rejected"
  BY <1>1 DEF Transaction, Statuses
<1>3. /\ deactivate_payment(tab, t)
      /\ configs' = configs /\ blacklist' = blacklist /\ rules' = rules
  BY DEF Reject
<1> HIDE DEF r
<1>4. Prepared(tab, t)
  BY <1>1, <1>2, OneRowPrepared, NullsAssumption DEF FollowInv, IInv
<1>5. TableOK(tab, t, blacklist, rules)
  BY <1>2, OneRowOK, NullsAssumption DEF MatchedSettled, QueueOK, Waits
<1>6. tab[t] = r /\ \A y \in Transfers \ {t} : tab[y] = transactions[y]
  BY DEF FollowInv, IInv, Inv, RowsOK, Tables
<1> HIDE DEF tab
<1>7. AllRowsOK'
  BY <1>2, <1>3, <1>4, <1>5, <1>6, DeactivateFollows DEF FollowInv, IInv
<1>8. transactions' = tab
  BY <1>3 DEF deactivate_payment
<1>9. QED BY <1>6, <1>7, <1>8, UnchangedStands

LEMMA BlacklistFollows ==
  ASSUME FollowInv, NEW t \in Transfers, Blacklist(t)
  PROVE  /\ AllRowsOK'
         /\ \A x \in Transfers \ {t} :
              Manually(x) => Stands(transactions[x], transactions'[x])
<1> DEFINE a == transactions[t].account
           blocked == blacklist[a] \cup {Label[transactions[t].sender]}
           r == [transactions[t] EXCEPT !.status = "blacklisted", !.user = NoUser,
                                        !.source = "manual"]
           assigned == [transactions EXCEPT ![t] = r]
           tab == rematch_pending(assigned, a, blocked, rules)
<1>1. transactions[t] \in Transaction
  BY TypeOfDecidable DEF Blacklist, FollowInv
<1>2. /\ r \in Transaction /\ r.payment = transactions[t].payment /\ r.account = a
      /\ r.status = "blacklisted" /\ r.source = "manual" /\ a \in Accounts
  BY <1>1 DEF Transaction, Statuses
<1>3. /\ blacklist' = [blacklist EXCEPT ![a] = blocked]
      /\ deactivate_payment(tab, t)
      /\ configs' = configs /\ rules' = rules
  BY DEF Blacklist
<1>4. /\ blacklist'[a] = blocked
      /\ \A b \in Accounts \ {a} : blacklist'[b] = blacklist[b]
  BY <1>2, <1>3 DEF FollowInv, IInv, SettingsOK
<1> HIDE DEF r, a, blocked
<1>5. Prepared(assigned, t)
  BY <1>1, <1>2, OneRowPrepared, NullsAssumption DEF FollowInv, IInv
<1>6. assigned[t] = r /\ \A y \in Transfers \ {t} : assigned[y] = transactions[y]
  BY DEF FollowInv, IInv, Inv, RowsOK, Tables
<1> HIDE DEF assigned
<1>7. Prepared(tab, t) /\ tab[t] = r
  BY <1>2, <1>5, <1>6, RematchPrepared
<1>8. TableOK(tab, t, blacklist', rules')
  <2>1. TableOK(tab, t, blacklist', rules)
    BY <1>2, <1>4, RematchPendingOK DEF MatchedSettled, assigned
  <2>2. QED BY <1>3, <2>1
<1>9. \A y \in Transfers \ {t} : Manually(y) => tab[y] = transactions[y]
  BY <1>6, RematchStands DEF Manually
<1> HIDE DEF tab
<1>10. AllRowsOK'
  BY <1>2, <1>3, <1>7, <1>8, DeactivateFollows DEF FollowInv, IInv
<1>11. transactions' = tab
  BY <1>3 DEF deactivate_payment
<1>12. QED BY <1>9, <1>10, <1>11, UnchangedStands

LEMMA AssignFollows ==
  ASSUME FollowInv, NEW t \in Transfers, NEW u \in Users, Assign(t, u)
  PROVE  /\ AllRowsOK'
         /\ \A x \in Transfers \ {t} :
              Manually(x) => Stands(transactions[x], transactions'[x])
<1> DEFINE a == transactions[t].account
           learned == remember_match(transactions[t].sender, u)
           r == [transactions[t] EXCEPT !.status = "matched", !.user = u,
                                        !.source = "manual"]
           assigned == [transactions EXCEPT ![t] = r]
           tab == rematch_pending(assigned, a, blacklist[a], learned)
<1>1. transactions[t] \in Transaction
  BY TypeOfDecidable DEF Assign, FollowInv
<1>2. /\ r \in Transaction /\ r.payment = transactions[t].payment /\ r.account = a
      /\ r.status = "matched" /\ r.source = "manual" /\ r.user = u
      /\ r.hold = transactions[t].hold /\ r.deleted = transactions[t].deleted
  BY <1>1 DEF Transaction, Statuses
<1>3. /\ IF Linked(transactions[t]) THEN upsert_payment(tab, t, configs[a], FALSE)
         ELSE transactions' = tab /\ payments' = payments
      /\ rules' = learned /\ configs' = configs /\ blacklist' = blacklist
      /\ ~transactions[t].deleted /\ ~transactions[t].hold
  BY DEF Assign, TypeOf
<1> HIDE DEF r, a, learned
<1>4. MatchedSettled(r)
  BY <1>2, <1>3, NullsAssumption DEF MatchedSettled, Settled
<1>5. Prepared(assigned, t)
  BY <1>1, <1>2, OneRowPrepared, NullsAssumption DEF FollowInv, IInv
<1>6. assigned[t] = r /\ \A y \in Transfers \ {t} : assigned[y] = transactions[y]
  BY DEF FollowInv, IInv, Inv, RowsOK, Tables
<1> HIDE DEF assigned
<1>7. Prepared(tab, t) /\ tab[t] = r
  BY <1>2, <1>5, <1>6, RematchPrepared
<1>8. TableOK(tab, t, blacklist', rules')
  <2>1. TableOK(tab, t, blacklist, learned)
    BY <1>2, <1>4, RematchPendingOK DEF assigned
  <2>2. QED BY <1>3, <2>1
<1>9. \A y \in Transfers \ {t} : Manually(y) => tab[y] = transactions[y]
  BY <1>6, RematchStands DEF Manually
<1> HIDE DEF tab
<1>10. CASE Linked(transactions[t])
  <2>1. AllRowsOK'
    BY <1>2, <1>3, <1>7, <1>8, <1>10, UpsertFollows DEF FollowInv, IInv
  <2>2. \A y \in Transfers \ {t} : transactions'[y] = tab[y]
    BY <1>3, <1>7, <1>10, WrittenRow
  <2>3. QED BY <1>9, <2>1, <2>2, UnchangedStands
<1>11. CASE ~Linked(transactions[t])
  <2>1. ~Linked(tab[t])
    BY <1>1, <1>2, <1>7, <1>11, NullsAssumption DEF Linked
  <2>2. AllRowsOK'
    BY <1>3, <1>7, <1>8, <1>11, <2>1, TableFollows
  <2>3. QED BY <1>3, <1>9, <1>11, <2>2, UnchangedStands
<1>12. QED BY <1>10, <1>11

LEMMA RetryFollows ==
  ASSUME FollowInv, NEW t \in Transfers, Retry(t)
  PROVE  /\ AllRowsOK'
         /\ \A x \in Transfers \ {t} :
              Manually(x) => Stands(transactions[x], transactions'[x])
<1> DEFINE a == transactions[t].account
           r == Retried(transactions[t])
           tab == [transactions EXCEPT ![t] = r]
<1>1. transactions[t] \in Transaction
  BY TypeOfDecidable DEF Retry, FollowInv
<1>2. /\ r \in Transaction /\ r.payment = transactions[t].payment /\ r.account = a
      /\ MatchedSettled(r) /\ QueueOK(r, configs[a], blacklist[a], rules)
  <2> DEFINE auto == [transactions[t] EXCEPT !.source = "automatic"]
  <2>1. /\ auto \in Transaction /\ auto.payment = transactions[t].payment
        /\ auto.account = a /\ auto.hold = transactions[t].hold
        /\ auto.deleted = transactions[t].deleted
    BY <1>1 DEF Transaction
  <2>2. r = IF transactions[t].deleted THEN [auto EXCEPT !.status = "rejected", !.user = NoUser]
            ELSE IF transactions[t].hold THEN InReview(auto)
            ELSE Rematched(auto, blacklist[a], rules)
    BY DEF Retried
  <2> HIDE DEF auto, r, a
  <2>3. CASE transactions[t].deleted
    BY <2>1, <2>2, <2>3 DEF Transaction, Statuses, MatchedSettled, QueueOK, Waits
  <2>4. CASE ~transactions[t].deleted /\ transactions[t].hold
    BY <2>1, <2>2, <2>4 DEF InReview, Transaction, Statuses, MatchedSettled, QueueOK, Waits
  <2>5. CASE ~transactions[t].deleted /\ ~transactions[t].hold
    BY <2>1, <2>2, <2>5, RematchedType, RematchedFollows DEF SameTransfer
  <2>6. QED BY <2>3, <2>4, <2>5
<1>3. /\ IF tab[t].status = "matched" /\ ~Linked(tab[t])
         THEN transactions' = tab /\ payments' = payments
         ELSE settle(tab, t, configs[a])
      /\ configs' = configs /\ blacklist' = blacklist /\ rules' = rules
  BY DEF Retry, TypeOf
<1> HIDE DEF r
<1>4. Prepared(tab, t)
  BY <1>1, <1>2, OneRowPrepared, NullsAssumption DEF FollowInv, IInv
<1>5. TableOK(tab, t, blacklist, rules)
  BY <1>2, OneRowOK, NullsAssumption
<1>6. tab[t] = r /\ \A y \in Transfers \ {t} : tab[y] = transactions[y]
  BY DEF FollowInv, IInv, Inv, RowsOK, Tables
<1> HIDE DEF tab, a
<1>7. CASE tab[t].status = "matched" /\ ~Linked(tab[t])
  <2>1. AllRowsOK'
    BY <1>3, <1>4, <1>5, <1>7, TableFollows
  <2>2. QED BY <1>3, <1>6, <1>7, <2>1, UnchangedStands
<1>8. CASE ~(tab[t].status = "matched" /\ ~Linked(tab[t]))
  <2>1. AllRowsOK'
    BY <1>2, <1>3, <1>4, <1>5, <1>6, <1>8, SettleFollows DEF FollowInv, IInv
  <2>2. \A y \in Transfers \ {t} : transactions'[y] = tab[y]
    BY <1>3, <1>4, <1>8, WrittenRow
  <2>3. QED BY <1>6, <2>1, <2>2, UnchangedStands
<1>9. QED BY <1>7, <1>8

LEMMA SaveSettingsFollows ==
  ASSUME FollowInv, NEW requested \in [Accounts -> PaymentTypes \cup {NoType}],
         NEW lists \in [Accounts -> SUBSET Patterns], SaveSettings(requested, lists)
  PROVE  /\ AllRowsOK'
         /\ \A x \in Transfers :
              Manually(x) => Stands(transactions[x], transactions'[x])
<1> DEFINE tab == rejudge(requested, lists)
           owners(p) == {t \in Transfers : Requested(requested, t) /\ tab[t].payment = p}
<1>1. configs' = requested /\ blacklist' = lists /\ rules' = rules
  BY DEF SaveSettings
<1>2. /\ \A t \in Transfers :
           transactions'[t] = IF Requested(requested, t) /\ Unpayable(tab[t])
                              THEN InReview(tab[t]) ELSE tab[t]
      /\ \A t \in Transfers :
           tab[t] = IF Requested(requested, t) THEN Reviewed(transactions[t], lists)
                    ELSE transactions[t]
  BY DEF SaveSettings, rejudge
<1>3. /\ \A t \in Transfers :
           /\ transactions[t] = NoRow => transactions'[t] = NoRow
           /\ transactions[t] # NoRow =>
                /\ tab[t] \in Transaction /\ SameTransfer(transactions[t], tab[t])
                /\ transactions'[t] \in Transaction /\ SameTransfer(transactions[t], transactions'[t])
      /\ \A t \in Transfers :
           /\ Linked(tab[t]) <=> Linked(transactions[t])
           /\ Linked(transactions'[t]) <=> Linked(transactions[t])
           /\ Linked(transactions[t]) =>
                /\ tab[t].payment = transactions[t].payment
                /\ transactions'[t].payment = transactions[t].payment
                /\ transactions[t].payment \in Positions
                /\ payments[transactions[t].payment] \in Payment
  BY SavedRows DEF FollowInv
<1>4. \A p \in Positions :
        \/ payments'[p] = payments[p] /\ owners(p) = {}
        \/ \E t \in Transfers :
             /\ Requested(requested, t) /\ Linked(transactions[t])
             /\ transactions[t].payment = p
             /\ payments'[p] = Rewritten(tab[t], payments[p], requested[tab[t].account])
  BY SavedRows DEF FollowInv
<1> HIDE DEF tab
<1>5. ASSUME NEW t \in Transfers, Linked(transactions[t])
      PROVE  IF Requested(requested, t)
             THEN payments'[transactions[t].payment]
                    = Rewritten(tab[t], payments[transactions[t].payment], requested[tab[t].account])
             ELSE payments'[transactions[t].payment] = payments[transactions[t].payment]
  <2> DEFINE p == transactions[t].payment
  <2>1. \A x \in Transfers : Linked(transactions[x]) /\ transactions[x].payment = p => x = t
    BY <1>5 DEF FollowInv, IInv, Inv, LinksInjective
  <2>2. Requested(requested, t) => owners(p) # {}
    BY <1>3, <1>5
  <2>3. QED BY <1>3, <1>4, <1>5, <2>1, <2>2
<1>6. ASSUME NEW t \in Transfers, transactions[t] # NoRow, ~Requested(requested, t)
      PROVE  /\ transactions'[t] = transactions[t]
             /\ RowOK(transactions[t], payments', requested, lists, rules)
  <2>1. transactions'[t] = transactions[t]
    BY <1>2, <1>6
  <2>2. /\ MatchedSettled(transactions[t])
        /\ PaidOK(transactions[t], payments, configs[transactions[t].account])
    BY <1>6 DEF FollowInv, AllRowsOK, RowOK
  <2>3. requested[transactions[t].account] = NoType \/ transactions[t].deleted
    BY <1>6 DEF Requested
  <2>4. transactions[t].deleted => ~Waits(transactions[t])
    BY <2>2 DEF MatchedSettled, Settled, Waits
  <2>5. Linked(transactions[t]) =>
          /\ payments'[transactions[t].payment] = payments[transactions[t].payment]
          /\ transactions[t].deleted => ~payments[transactions[t].payment].included
    <3>1. Linked(transactions[t]) /\ payments[transactions[t].payment].included
            => Counts(t, transactions[t].payment)
      BY DEF Counts, FollowInv, IInv, Inv, LinksLive
    <3>2. QED BY <1>3, <1>5, <1>6, <3>1 DEF FollowInv, IInv, Inv, UnsettledNotCounted
  <2>6. PaidOK(transactions[t], payments', requested[transactions[t].account])
    BY <2>2, <2>3, <2>5 DEF PaidOK
  <2>7. QED BY <2>1, <2>2, <2>3, <2>4, <2>6 DEF RowOK, QueueOK
<1>7. ASSUME NEW t \in Transfers, transactions[t] # NoRow, Requested(requested, t)
      PROVE  /\ RowOK(transactions'[t], payments', requested, lists, rules)
             /\ Manually(t) => Stands(transactions[t], transactions'[t])
  <2> DEFINE r == transactions[t]
             a == r.account
  <2>1. /\ r \in Transaction /\ ~r.deleted /\ requested[a] # NoType
        /\ tab[t] = Reviewed(r, lists) /\ MatchedSettled(r)
    BY <1>2, <1>7 DEF Requested, FollowInv, AllRowsOK, RowOK, IInv, Inv, RowsOK, Tables
  <2>2. /\ tab[t] \in Transaction /\ SameTransfer(r, tab[t])
    BY <1>3, <1>7
  <2> HIDE DEF r
  <2>3. MatchedSettled(tab[t]) /\ QueueOK(tab[t], requested[a], lists[a], rules)
    <3>1. CASE r.source = "manual"
      BY <2>1, <3>1 DEF Reviewed, QueueOK, Waits
    <3>2. CASE r.source # "manual" /\ r.hold
      BY <2>1, <3>2 DEF Reviewed, InReview, Transaction, MatchedSettled, QueueOK, Waits
    <3>3. CASE r.source # "manual" /\ ~r.hold
      BY <2>1, <3>3, RematchedFollows DEF Reviewed
    <3>4. QED BY <3>1, <3>2, <3>3
  <2>4. r.source = "manual" => tab[t] = r
    BY <2>1 DEF Reviewed
  <2>5. CASE Unpayable(tab[t])
    <3>1. transactions'[t] = InReview(tab[t])
      BY <1>2, <1>7, <2>5
    <3>2. /\ InReview(tab[t]).status = "review" /\ InReview(tab[t]).user = NoUser
          /\ InReview(tab[t]).source = tab[t].source /\ InReview(tab[t]).money = tab[t].money
      BY <2>2 DEF InReview, Transaction
    <3>3. RowOK(transactions'[t], payments', requested, lists, rules)
      BY <2>5, <3>1, <3>2 DEF Unpayable, RowOK, MatchedSettled, QueueOK, Waits, PaidOK
    <3>4. r.source = "manual" => Stands(r, transactions'[t])
      BY <1>3, <1>7, <2>4, <3>1, <3>2, NullsAssumption DEF Stands
    <3>5. QED BY <3>3, <3>4 DEF Manually, r
  <2>6. CASE ~Unpayable(tab[t])
    <3>1. transactions'[t] = tab[t]
      BY <1>2, <1>7, <2>6
    <3>2. Linked(tab[t]) =>
            /\ payments[tab[t].payment] \in Payment
            /\ payments'[tab[t].payment]
                 = Rewritten(tab[t], payments[tab[t].payment], requested[tab[t].account])
      BY <1>3, <1>5, <1>7
    <3>3. PaidOK(tab[t], payments', requested[a])
      <4>1. tab[t].account = a
        BY <2>2 DEF SameTransfer
      <4>2. CASE tab[t].status = "matched"
        <5>1. Linked(tab[t]) =>
                payments'[tab[t].payment]
                  = Written(tab[t], requested[a], payments[tab[t].payment].key)
          BY <2>3, <2>6, <3>2, <4>1, <4>2 DEF Rewritten, Unpayable, MatchedSettled
        <5>2. QED BY <5>1 DEF Written, PaidOK
      <4>3. CASE tab[t].status # "matched"
        <5>1. Linked(tab[t]) => ~payments'[tab[t].payment].included
          BY <3>2, <4>3 DEF Rewritten, Payment
        <5>2. QED BY <4>3, <5>1 DEF PaidOK
      <4>4. QED BY <4>2, <4>3
    <3>4. RowOK(transactions'[t], payments', requested, lists, rules)
      BY <2>2, <2>3, <3>1, <3>3 DEF RowOK, SameTransfer
    <3>5. r.source = "manual" => Stands(r, transactions'[t])
      BY <1>7, <2>1, <2>4, <3>1 DEF Stands, MatchedSettled, Settled, r
    <3>6. QED BY <3>4, <3>5 DEF Manually, r
  <2>7. QED BY <2>5, <2>6
<1>8. ASSUME NEW t \in Transfers
      PROVE  RowOK(transactions'[t], payments', requested, lists, rules)
  <2>1. CASE transactions[t] = NoRow
    BY <1>3, <2>1 DEF RowOK
  <2>2. CASE transactions[t] # NoRow
    BY <1>6, <1>7, <2>2
  <2>3. QED BY <2>1, <2>2
<1>9. AllRowsOK'
  BY <1>1, <1>8 DEF AllRowsOK
<1>10. QED BY <1>6, <1>7, <1>9, UnchangedStands DEF Manually

LEMMA CreatePaymentFollows ==
  ASSUME FollowInv, NEW u \in Users, NEW type \in PaymentTypes, NEW m \in Money,
         CreatePayment(u, type, m)
  PROVE  /\ AllRowsOK'
         /\ \A x \in Transfers :
              Manually(x) => Stands(transactions[x], transactions'[x])
<1>1. PICK p \in Positions :
        /\ IsNextPosition(p)
        /\ \A q \in Positions \ {p} : payments'[q] = payments[q]
  BY DEF CreatePayment, FollowInv, IInv, Inv, RowsOK
<1>2. /\ transactions' = transactions /\ configs' = configs
      /\ blacklist' = blacklist /\ rules' = rules
  BY DEF CreatePayment
<1>3. payments[p] = NoRow
  BY <1>1, ConstantsAssumption DEF IsNextPosition, Positions
<1>4. \A t \in Transfers : Linked(transactions[t]) =>
        payments'[transactions[t].payment] = payments[transactions[t].payment]
  BY <1>1, <1>3, LinkedPosition DEF FollowInv, IInv, Inv, RowsOK, LinksLive
<1>5. AllRowsOK'
  BY <1>2, <1>4 DEF FollowInv, AllRowsOK, RowOK, PaidOK
<1>6. QED BY <1>2, <1>5, UnchangedStands

LEMMA DeletePaymentFollows ==
  ASSUME FollowInv, NEW p \in Positions, DeletePayment(p)
  PROVE  /\ AllRowsOK'
         /\ \A x \in Transfers :
              Manually(x) => Stands(transactions[x], transactions'[x])
<1>1. /\ \A q \in Positions \ {p} : payments'[q] = payments[q]
      /\ configs' = configs /\ blacklist' = blacklist /\ rules' = rules
  BY DEF DeletePayment, FollowInv, IInv, Inv, RowsOK
<1>2. ASSUME NEW t \in Transfers, Linked(transactions[t]), transactions[t].payment = p
      PROVE  /\ transactions'[t] # NoRow /\ ~Linked(transactions'[t])
             /\ transactions'[t].status = "rejected" /\ transactions'[t].user = NoUser
             /\ transactions'[t].source = "manual"
  <2> DEFINE r == [transactions[t] EXCEPT !.payment = NoPayment, !.user = NoUser,
                                          !.status = "rejected", !.source = "manual"]
  <2>1. transactions[t] \in Transaction
    BY <1>2 DEF Linked, FollowInv, IInv, Inv, RowsOK, Tables
  <2>2. /\ r \in Transaction /\ r.payment = NoPayment
        /\ r.status = "rejected" /\ r.user = NoUser /\ r.source = "manual"
    BY <2>1 DEF Transaction, Statuses
  <2>3. transactions'[t] = r
    BY <1>2 DEF DeletePayment
  <2> HIDE DEF r
  <2>4. QED BY <2>2, <2>3, NullsAssumption DEF Linked
<1>3. \A t \in Transfers : ~(Linked(transactions[t]) /\ transactions[t].payment = p) =>
        transactions'[t] = transactions[t]
  BY DEF DeletePayment
<1>4. ASSUME NEW t \in Transfers
      PROVE  /\ RowOK(transactions'[t], payments', configs, blacklist, rules)
             /\ Manually(t) => Stands(transactions[t], transactions'[t])
  <2>1. CASE Linked(transactions[t]) /\ transactions[t].payment = p
    BY <1>2, <2>1 DEF RowOK, MatchedSettled, QueueOK, Waits, PaidOK, Stands
  <2>2. CASE ~(Linked(transactions[t]) /\ transactions[t].payment = p)
    <3>1. transactions'[t] = transactions[t]
      BY <1>3, <2>2
    <3>2. RowOK(transactions[t], payments, configs, blacklist, rules)
      BY DEF FollowInv, AllRowsOK
    <3>3. Linked(transactions[t]) =>
            payments'[transactions[t].payment] = payments[transactions[t].payment]
      BY <1>1, <2>2, LinkedPosition DEF FollowInv, IInv, Inv, RowsOK
    <3>4. QED BY <3>1, <3>2, <3>3, UnchangedStands DEF RowOK, PaidOK
  <2>3. QED BY <2>1, <2>2
<1>5. QED BY <1>1, <1>4 DEF AllRowsOK

-----------------------------------------------------------------------------
(* Theorems: what waits, what is accepted, what was decided *)

\* What a step may do to rows an editor has decided about.
DecisionsStand ==
  \A t \in Transfers :
    Manually(t) /\ ~Decide(t) => Stands(transactions[t], transactions'[t])

LEMMA NextFollows ==
  ASSUME FollowInv, [Next]_vars
  PROVE  AllRowsOK' /\ DecisionsStand
<1>1. CASE Sync
  BY <1>1, SyncItemFollows, SyncDeletionFollows DEF Sync, DecisionsStand
<1>2. ASSUME NEW t \in Transfers, Decide(t)
      PROVE  AllRowsOK' /\ DecisionsStand
  <2>1. /\ AllRowsOK'
        /\ \A x \in Transfers \ {t} : Manually(x) => Stands(transactions[x], transactions'[x])
    BY <1>2, AssignFollows, ApproveFollows, RejectFollows, BlacklistFollows, RetryFollows
       DEF Decide
  <2>2. QED BY <1>2, <2>1 DEF DecisionsStand
<1>3. ASSUME NEW t \in Transfers, ApproveMatched(t)
      PROVE  AllRowsOK' /\ DecisionsStand
  BY <1>3, ApproveFollows DEF DecisionsStand
<1>4. ASSUME NEW requested \in [Accounts -> PaymentTypes \cup {NoType}],
             NEW lists \in [Accounts -> SUBSET Patterns], SaveSettings(requested, lists)
      PROVE  AllRowsOK' /\ DecisionsStand
  BY <1>4, SaveSettingsFollows DEF DecisionsStand
<1>5. ASSUME NEW u \in Users, NEW type \in PaymentTypes, NEW m \in Money,
             CreatePayment(u, type, m)
      PROVE  AllRowsOK' /\ DecisionsStand
  BY <1>5, CreatePaymentFollows DEF DecisionsStand
<1>6. ASSUME NEW p \in Positions, DeletePayment(p)
      PROVE  AllRowsOK' /\ DecisionsStand
  BY <1>6, DeletePaymentFollows DEF DecisionsStand
<1>7. CASE UNCHANGED vars
  BY <1>7, UnchangedStands DEF vars, FollowInv, AllRowsOK, DecisionsStand
<1>8. QED BY <1>1, <1>2, <1>3, <1>4, <1>5, <1>6, <1>7 DEF Next

LEMMA FollowInvariance == Spec => []FollowInv
<1>1. Init => FollowInv
  BY InitIInv DEF Init, FollowInv, AllRowsOK, RowOK
<1>2. FollowInv /\ [Next]_vars => FollowInv'
  <2>1. FollowInv /\ [Next]_vars => AllRowsOK'
    BY NextFollows
  <2>2. FollowInv => IInv
    BY DEF FollowInv
  <2>3. QED BY <2>1, <2>2, NextIInv DEF FollowInv
<1>3. QED BY <1>1, <1>2, PTL DEF Spec

\* Nothing that the blacklist of its account excludes waits for approval, whenever it
\* was matched and whenever the entry was added (zenmoney.py:309-339, 911-926).
THEOREM QueueIsNotBlocked == Spec => []QueueNotBlocked
<1>1. FollowInv => QueueNotBlocked
  BY DEF FollowInv, AllRowsOK, RowOK, QueueOK, Waits, QueueNotBlocked, Queued, TypeOf
<1>2. QED BY <1>1, FollowInvariance, PTL

\* With one account, what waits for approval waits under the user the rules learned so
\* far give it (zenmoney.py:491-533, 883).
THEOREM QueueIsOfTheRules ==
  ASSUME \A a, b \in Accounts : a = b
  PROVE  Spec => []QueueFollowsRules
<1>1. FollowInv => QueueFollowsRules
  BY DEF FollowInv, AllRowsOK, RowOK, QueueOK, Waits, OneAccount, QueueFollowsRules, Queued,
         TypeOf
<1>2. QED BY <1>1, FollowInvariance, PTL

\* What counts, counts under the payment type its account has now (zenmoney.py:324-350).
THEOREM CountsUnderItsType == Spec => []CountedType
<1>1. FollowInv => CountedType
  BY DEF FollowInv, AllRowsOK, RowOK, PaidOK, CountedType, Counts, Linked, TypeOf
<1>2. QED BY <1>1, FollowInvariance, PTL

\* What the page shows as accepted counts, with the user, date and amount it shows
\* (PaymentsPage.tsx:81, zenmoney.py:606-613).
THEOREM AcceptedIsCounted == Spec => []AcceptedCounts
<1>1. FollowInv => AcceptedCounts
  <2> SUFFICES ASSUME FollowInv, NEW t \in Transfers, InAccepted(t)
               PROVE  LET row == payments[transactions[t].payment]
                      IN  /\ row.included
                          /\ row.user = transactions[t].user
                          /\ row.money = transactions[t].money
    BY DEF AcceptedCounts
  <2>1. Linked(transactions[t]) /\ transactions[t].status = "matched" /\ transactions[t] # NoRow
    BY DEF InAccepted, Linked
  <2>2. payments[transactions[t].payment].included
    BY <2>1 DEF FollowInv, AllRowsOK, RowOK, PaidOK
  <2>3. transactions[t].payment \in Positions /\ Counts(t, transactions[t].payment)
    BY <2>1, <2>2, LinkedPosition DEF Counts, FollowInv, IInv, Inv, RowsOK, LinksLive
  <2>4. QED BY <2>1, <2>2, <2>3 DEF FollowInv, IInv, Inv, CountedAgrees
<1>2. QED BY <1>1, FollowInvariance, PTL

\* What an editor decided about a transaction stands until an editor decides about it
\* again: another step may take the user away, never put another one in its place, and
\* what has no user by decision is not matched again (zenmoney.py:329, 519, 694-703).
THEOREM DecisionsStay == Spec => ManualDecisionsStand
<1>1. FollowInv /\ [Next]_vars =>
        [\A t \in Transfers :
           Manually(t) /\ ~Decide(t) =>
             /\ Manually(t)'
             /\ transactions'[t].user \in {transactions[t].user, NoUser}
             /\ transactions[t].user = NoUser => transactions'[t].status # "matched"]_vars
  <2> SUFFICES ASSUME FollowInv, [Next]_vars, NEW t \in Transfers, Manually(t), ~Decide(t)
               PROVE  /\ Manually(t)'
                      /\ transactions'[t].user \in {transactions[t].user, NoUser}
                      /\ transactions[t].user = NoUser => transactions'[t].status # "matched"
    OBVIOUS
  <2>1. Stands(transactions[t], transactions'[t])
    BY NextFollows DEF DecisionsStand
  <2>2. QED BY <2>1 DEF Stands, Manually
<1>2. QED BY <1>1, FollowInvariance, PTL DEF Spec, ManualDecisionsStand

-----------------------------------------------------------------------------
(***************************************************************************)
(* Requests that overlap (ZenMoneyRaces).                                  *)
(*                                                                         *)
(* What another request may change under a request of a session is bounded *)
(* by three facts, which make the invariant: no transaction row goes away; *)
(* a request that writes no payment was read with the payment it still     *)
(* has, and no row comes in place of one that is gone; a payment row that  *)
(* is written agrees with the transaction row that is written, and has the *)
(* source_key that was read.                                               *)
(***************************************************************************)

\* The row of a request has the payment it was read with.
Unmoved(w) ==
  IF w.read = NoRow THEN w.row.payment = NoPayment
  ELSE w.row.payment = w.read.payment

Empty(w) == w.at = NoPayment /\ w.found = NoRow /\ w.payment = NoRow

\* A request that writes no payment leaves none that counts: there is none, or the
\* amount is not an integer.
Unpaid(w, rows) ==
  /\ Unmoved(w)
  /\ \/ w.row.payment = NoPayment
     \/ rows[w.row.payment] = NoRow
     \/ ~w.row.hold /\ ~w.row.deleted /\ w.row.money \in Fractional

\* A payment row that a request writes for its transaction row agrees with it.
Agrees(row, payment) ==
  payment.included =>
    /\ ~row.hold /\ ~row.deleted /\ row.status = "matched"
    /\ payment.user = row.user /\ payment.money = row.money

Paid(w) ==
  /\ w.at \in Positions
  /\ w.row.payment = w.at
  /\ w.payment # NoRow
  /\ w.found # NoRow => w.payment.key = w.found.key
  /\ Agrees(w.row, w.payment)

\* What the request w of a session knows, and what of it the tables cannot change.
WorkOK(w, tab, rows) ==
  w # Idle =>
    /\ w.read # NoRow => tab[w.transfer] # NoRow
    /\ w.kind # "delete" => w.row # NoRow
    /\ w.step = "payment" => w.kind # "delete" /\ Empty(w) /\ Unmoved(w)
    /\ w.step = "commit" /\ w.kind # "delete" =>
         \/ Empty(w) /\ Unpaid(w, rows)
         \/ Paid(w)
    /\ w.kind = "delete" =>
         /\ w.at \in Positions
         /\ w.payment = NoRow
         /\ w.read = NoRow <=> w.row = NoRow

RaceInv ==
  /\ RaceTypeOK
  /\ Type # NoType
  /\ \A s \in Sessions : WorkOK(work[s], transactions, payments)

-----------------------------------------------------------------------------

\* Columns that are written over a row make a row; over the row that was read, the new one.
LEMMA MergedTransaction ==
  ASSUME NEW now \in Transaction, NEW read \in Transaction \cup {NoRow},
         NEW new \in Transaction
  PROVE  /\ Merged(now, read, new) \in Transaction
         /\ now = read \/ read = NoRow => Merged(now, read, new) = new
<1> USE NullsAssumption
<1>1. CASE read = NoRow
  BY <1>1 DEF Merged
<1>2. CASE read # NoRow
  <2> DEFINE M == Merged(now, read, new)
  <2>1. M = [c \in DOMAIN new |-> IF new[c] # read[c] THEN new[c] ELSE now[c]]
    BY <1>2 DEF Merged
  <2>2. M \in Transaction
    BY <2>1, <1>2 DEF Transaction
  <2>3. ASSUME now = read PROVE M = new
    BY <2>1, <2>3, <1>2 DEF Transaction
  <2>4. QED BY <1>2, <2>2, <2>3
<1>3. QED BY <1>1, <1>2

LEMMA MergedPayment ==
  ASSUME NEW now \in Payment, NEW read \in Payment, NEW new \in Payment
  PROVE  /\ Merged(now, read, new) \in Payment
         /\ now = read => Merged(now, read, new) = new
         /\ new.key = read.key => Merged(now, read, new).key = now.key
<1> USE NullsAssumption
<1> DEFINE M == Merged(now, read, new)
<1>1. M = [c \in DOMAIN new |-> IF new[c] # read[c] THEN new[c] ELSE now[c]]
  BY DEF Merged
<1>2. M \in Payment
  BY <1>1 DEF Payment
<1>3. ASSUME now = read PROVE M = new
  BY <1>1, <1>3 DEF Payment
<1>4. ASSUME new.key = read.key PROVE M.key = now.key
  BY <1>1, <1>4 DEF Payment
<1>5. QED BY <1>2, <1>3, <1>4

-----------------------------------------------------------------------------
(* One lemma per action of the requests that overlap *)

LEMMA RaceInitInv == RaceInit => RaceInv
<1> USE NullsAssumption, RaceAssumption, ConstantsAssumption
<1> SUFFICES ASSUME RaceInit PROVE RaceInv
  OBVIOUS
<1>1. configs[Account] \in PaymentTypes
  BY DEF RaceInit
<1>2. TypeOK
  <2>1. (CHOOSE y \in PaymentTypes : TRUE) \in PaymentTypes
    OBVIOUS
  <2> DEFINE c == CHOOSE y \in PaymentTypes : TRUE
  <2>2. configs = [a \in Accounts |-> IF a = Account THEN c ELSE NoType]
    BY DEF RaceInit
  <2> HIDE DEF c
  <2>3. configs \in [Accounts -> PaymentTypes \cup {NoType}]
    BY <2>1, <2>2 DEF c
  <2>4. QED BY <2>3 DEF RaceInit, TypeOK
<1>3. QED BY <1>1, <1>2 DEF RaceInit, RaceInv, RaceTypeOK, WorkOK, Type

\* A request begins: it knows what it has just read.
LEMMA BeginKeeps ==
  ASSUME RaceInv, NEW s \in Sessions,
         NEW kind \in {"item", "deletion", "approve", "reject"}, NEW t \in Transfers,
         NEW row \in Transaction,
         IF transactions[t] = NoRow THEN row.payment = NoPayment
         ELSE row.payment = transactions[t].payment,
         Begin(s, kind, t, transactions[t], row)
  PROVE  RaceInv'
<1> USE NullsAssumption, RaceAssumption
<1> DEFINE w == [kind |-> kind, step |-> "payment", transfer |-> t,
                 read |-> transactions[t], row |-> row,
                 at |-> NoPayment, found |-> NoRow, payment |-> NoRow]
<1>1. work' = [work EXCEPT ![s] = w] /\ UNCHANGED vars
  BY DEF Begin
<1>2. w \in Work
  BY DEF RaceInv, RaceTypeOK, TypeOK, Work
<1>3. WorkOK(w, transactions, payments)
  BY DEF WorkOK, Empty, Unmoved
<1> HIDE DEF w
<1>4. work' \in [Sessions -> Work \cup {Idle}]
  BY <1>1, <1>2 DEF RaceInv, RaceTypeOK
<1>5. \A x \in Sessions : WorkOK(work'[x], transactions, payments)
  BY <1>1, <1>3 DEF RaceInv, RaceTypeOK
<1>6. UNCHANGED <<transactions, payments, configs, blacklist, rules>>
  BY <1>1 DEF vars
<1>7. QED BY <1>4, <1>5, <1>6 DEF RaceInv, RaceTypeOK, TypeOK, Type

\* The columns that a synchronisation, a rejection or a deletion decides about.
LEMMA JudgedRow ==
  ASSUME RaceInv, NEW i \in Items
  PROVE  LET row == Judged(Received(i, Account), Account)
         IN  /\ row \in Transaction
             /\ IF transactions[i.id] = NoRow THEN row.payment = NoPayment
                ELSE row.payment = transactions[i.id].payment
<1> USE NullsAssumption, RaceAssumption
<1> DEFINE old == transactions[i.id]
           r == Received(i, Account)
<1>1. old \in Transaction \cup {NoRow}
  BY DEF RaceInv, RaceTypeOK, TypeOK, Items
<1>2. /\ r \in Transaction
      /\ r.payment = IF old = NoRow THEN NoPayment ELSE old.payment
  BY <1>1 DEF Received, Transaction, Items, Statuses
<1> HIDE DEF r
<1>3. /\ Rematched(r, blacklist[Account], rules) \in Transaction
      /\ Rematched(r, blacklist[Account], rules).payment = r.payment
  BY <1>2, RematchedType DEF SameTransfer
<1>4. /\ Judged(r, Account) \in Transaction
      /\ Judged(r, Account).payment = r.payment
  BY <1>2, <1>3 DEF Judged, Transaction, Statuses
<1>5. QED BY <1>2, <1>4 DEF r

LEMMA BeginAnyKeeps ==
  ASSUME RaceInv, NEW s \in Sessions,
         \/ \E i \in Items : BeginItem(s, i)
         \/ \E t \in Transfers : BeginDeletion(s, t) \/ BeginApprove(s, t) \/ BeginReject(s, t)
  PROVE  RaceInv'
<1> USE NullsAssumption
<1> USE DEF RaceInv, RaceTypeOK, TypeOK
<1>1. ASSUME NEW i \in Items, BeginItem(s, i) PROVE RaceInv'
  <2>1. i.id \in Transfers
    BY DEF Items
  <2>2. QED BY <1>1, <2>1, JudgedRow, BeginKeeps DEF BeginItem
<1>2. ASSUME NEW t \in Transfers, BeginDeletion(s, t) PROVE RaceInv'
  <2> DEFINE row == [transactions[t] EXCEPT !.deleted = TRUE, !.status = "rejected",
                                            !.user = NoUser]
  <2>1. row \in Transaction /\ row.payment = transactions[t].payment
    BY <1>2 DEF BeginDeletion, Transaction, Statuses
  <2>2. Begin(s, "deletion", t, transactions[t], row) /\ transactions[t] # NoRow
    BY <1>2 DEF BeginDeletion
  <2> HIDE DEF row
  <2>3. QED BY <2>1, <2>2, BeginKeeps
<1>3. ASSUME NEW t \in Transfers, BeginApprove(s, t) PROVE RaceInv'
  <2>1. transactions[t] \in Transaction
    BY <1>3 DEF BeginApprove
  <2>2. QED BY <1>3, <2>1, BeginKeeps DEF BeginApprove
<1>4. ASSUME NEW t \in Transfers, BeginReject(s, t) PROVE RaceInv'
  <2> DEFINE row == [transactions[t] EXCEPT !.status = "rejected", !.user = NoUser,
                                            !.source = "manual"]
  <2>1. row \in Transaction /\ row.payment = transactions[t].payment
    BY <1>4 DEF BeginReject, Transaction, Statuses
  <2>2. Begin(s, "reject", t, transactions[t], row) /\ transactions[t] # NoRow
    BY <1>4 DEF BeginReject
  <2> HIDE DEF row
  <2>3. QED BY <2>1, <2>2, BeginKeeps
<1>5. QED BY <1>1, <1>2, <1>3, <1>4

LEMMA BeginDeleteKeeps ==
  ASSUME RaceInv, NEW s \in Sessions, NEW p \in Positions, BeginDelete(s, p)
  PROVE  RaceInv'
<1> USE NullsAssumption, RaceAssumption
<1>1. PICK t \in Transfers :
        LET r == transactions[t]
            linked == Linked(r) /\ r.payment = p
        IN  work' = [work EXCEPT ![s] =
              [kind |-> "delete", step |-> "commit", transfer |-> t,
               read |-> IF linked THEN r ELSE NoRow,
               row |-> IF linked
                       THEN [r EXCEPT !.payment = NoPayment, !.user = NoUser,
                                      !.status = "rejected", !.source = "manual"]
                       ELSE NoRow,
               at |-> p, found |-> payments[p], payment |-> NoRow]]
  BY DEF BeginDelete
<1> DEFINE r == transactions[t]
           linked == Linked(r) /\ r.payment = p
           new == [r EXCEPT !.payment = NoPayment, !.user = NoUser,
                            !.status = "rejected", !.source = "manual"]
           w == [kind |-> "delete", step |-> "commit", transfer |-> t,
                 read |-> IF linked THEN r ELSE NoRow,
                 row |-> IF linked THEN new ELSE NoRow,
                 at |-> p, found |-> payments[p], payment |-> NoRow]
<1>2. work' = [work EXCEPT ![s] = w]
  BY <1>1
<1>3. linked => r \in Transaction /\ new \in Transaction
  BY DEF RaceInv, RaceTypeOK, TypeOK, Linked, Transaction, Statuses
<1> HIDE DEF new
<1>4. w \in Work
  BY <1>3 DEF Work, RaceInv, RaceTypeOK, TypeOK
<1>5. WorkOK(w, transactions, payments)
  BY <1>3 DEF WorkOK
<1> HIDE DEF w
<1>6. work' \in [Sessions -> Work \cup {Idle}]
  BY <1>2, <1>4 DEF RaceInv, RaceTypeOK
<1>7. \A x \in Sessions : WorkOK(work'[x], transactions, payments)
  BY <1>2, <1>5 DEF RaceInv, RaceTypeOK
<1>8. UNCHANGED <<transactions, payments, configs, blacklist, rules>>
  BY DEF BeginDelete, vars
<1>9. QED BY <1>6, <1>7, <1>8 DEF RaceInv, RaceTypeOK, TypeOK, Type

\* The payment row is worked out.
LEMMA ReadyKeeps ==
  ASSUME RaceInv, UNCHANGED vars, NEW s \in Sessions,
         work[s] # Idle, work[s].step = "payment",
         NEW row \in Transaction, NEW p \in Positions \cup {NoPayment},
         NEW payment \in Payment \cup {NoRow},
         Ready(s, row, p, payment),
         IF p = NoPayment
         THEN /\ payment = NoRow
              /\ row.payment = work[s].row.payment
              /\ \/ row.payment = NoPayment
                 \/ payments[row.payment] = NoRow
                 \/ ~row.hold /\ ~row.deleted /\ row.money \in Fractional
         ELSE /\ row.payment = p
              /\ payment # NoRow
              /\ payments[p] # NoRow => payment.key = payments[p].key
              /\ Agrees(row, payment)
  PROVE  RaceInv'
<1> USE NullsAssumption, RaceAssumption
<1> DEFINE w == work[s]
           found == IF p = NoPayment THEN NoRow ELSE payments[p]
           new == [w EXCEPT !.step = "commit", !.row = row, !.at = p, !.found = found,
                            !.payment = payment]
<1>1. w \in Work /\ WorkOK(w, transactions, payments)
  BY DEF RaceInv, RaceTypeOK
<1>2. found \in Payment \cup {NoRow}
  BY DEF RaceInv, RaceTypeOK, TypeOK
<1>3. work' = [work EXCEPT ![s] = new]
  BY DEF Ready, RaceInv, RaceTypeOK
<1>4. new \in Work /\ new.transfer = w.transfer /\ new.read = w.read /\ new.kind = w.kind
      /\ new.step = "commit" /\ new.row = row /\ new.at = p /\ new.found = found
      /\ new.payment = payment
  BY <1>1, <1>2 DEF Work
<1>5. w.kind # "delete" /\ Unmoved(w) /\ (w.read # NoRow => transactions[w.transfer] # NoRow)
  BY <1>1 DEF WorkOK
<1> HIDE DEF new
<1>6. WorkOK(new, transactions, payments)
  <2>1. CASE p = NoPayment
    <3>1. Empty(new)
      BY <2>1, <1>4 DEF Empty
    <3>2. Unpaid(new, payments)
      BY <2>1, <1>4, <1>5 DEF Unpaid, Unmoved
    <3>3. QED BY <3>1, <3>2, <1>4, <1>5 DEF WorkOK
  <2>2. CASE p # NoPayment
    <3>1. Paid(new)
      BY <2>2, <1>4 DEF Paid
    <3>2. QED BY <3>1, <1>4, <1>5 DEF WorkOK
  <2>3. QED BY <2>1, <2>2
<1>7. work' \in [Sessions -> Work \cup {Idle}]
  BY <1>3, <1>4 DEF RaceInv, RaceTypeOK
<1>8. \A x \in Sessions : WorkOK(work'[x], transactions, payments)
  BY <1>3, <1>6 DEF RaceInv, RaceTypeOK
<1>9. UNCHANGED <<transactions, payments, configs, blacklist, rules>>
  BY DEF vars
<1>10. QED BY <1>7, <1>8, <1>9 DEF RaceInv, RaceTypeOK, TypeOK, Type

LEMMA ReadPaymentKeeps ==
  ASSUME RaceInv, NEW s \in Sessions, ReadPayment(s)
  PROVE  RaceInv'
<1> USE NullsAssumption, RaceAssumption
<1> DEFINE w == work[s]
           row == w.row
<1>1. w # Idle /\ w.step = "payment" /\ UNCHANGED vars
  BY DEF ReadPayment
<1>2. w \in Work /\ WorkOK(w, transactions, payments)
  BY <1>1 DEF RaceInv, RaceTypeOK
<1>3. row \in Transaction
  BY <1>1, <1>2 DEF WorkOK, Work
<1>4. Type \in PaymentTypes /\ payments \in [Positions -> Payment \cup {NoRow}]
  BY DEF Type, RaceInv, RaceTypeOK, TypeOK
<1>5. row.payment \in Positions \cup {NoPayment}
  BY <1>3 DEF Transaction
<1>6. ASSUME NothingToPay(s, row), PaymentOf(row) = NoRow
      PROVE  RaceInv'
  BY <1>1, <1>3, <1>6, ReadyKeeps DEF NothingToPay, PaymentOf
<1>7. ASSUME Deactivate(s, row) PROVE RaceInv'
  <2>1. CASE PaymentOf(row) = NoRow
    BY <1>6, <1>7, <2>1 DEF Deactivate
  <2>2. CASE PaymentOf(row) # NoRow
    <3> DEFINE old == payments[row.payment]
               new == [old EXCEPT !.included = FALSE]
    <3>1. row.payment \in Positions /\ old \in Payment
      BY <1>4, <1>5, <2>2 DEF PaymentOf
    <3>2. new \in Payment /\ new.key = old.key /\ ~new.included
      BY <3>1 DEF Payment
    <3>3. Ready(s, row, row.payment, new)
      BY <1>7, <2>2 DEF Deactivate
    <3> HIDE DEF new
    <3>4. QED BY <1>1, <1>3, <3>1, <3>2, <3>3, ReadyKeeps DEF Agrees
  <2>3. QED BY <2>1, <2>2
<1>8. ASSUME Settled(row), row.status = "matched", row.money \notin Fractional,
             NEW p \in Positions, NEW key \in Transfers \cup {Manual},
             payments[p] # NoRow => key = payments[p].key,
             Adopt(s, row, p, key)
      PROVE  RaceInv'
  <2> DEFINE linked == [row EXCEPT !.payment = p]
             new == Written(row, Type, key)
  <2>1. /\ linked \in Transaction /\ linked.payment = p
        /\ new \in Payment /\ new.key = key
        /\ Agrees(linked, new)
    BY <1>3, <1>4, <1>8 DEF Transaction, Payment, Written, Agrees, Settled
  <2>2. Ready(s, linked, p, new)
    BY <1>8 DEF Adopt
  <2> HIDE DEF linked, new
  <2>3. QED BY <1>1, <1>8, <2>1, <2>2, ReadyKeeps
<1>9. ASSUME row.status = "matched", Upsert(s, row, w.kind = "approve") PROVE RaceInv'
  <2>1. CASE ~Settled(row)
    BY <1>7, <1>9, <2>1 DEF Upsert
  <2>2. CASE Settled(row) /\ row.money \in Fractional
    <3> DEFINE new == InReview(row)
    <3>1. new \in Transaction /\ new.payment = row.payment
          /\ ~new.hold /\ ~new.deleted /\ new.money \in Fractional
      BY <1>3, <2>2 DEF InReview, Transaction, Statuses, Settled
    <3>2. Ready(s, new, NoPayment, NoRow)
      BY <1>9, <2>2 DEF Upsert, NothingToPay
    <3> HIDE DEF new
    <3>3. QED BY <1>1, <3>1, <3>2, ReadyKeeps
  <2>3. CASE Settled(row) /\ row.money \notin Fractional /\ PaymentOf(row) # NoRow
    <3>1. row.payment \in Positions /\ payments[row.payment] \in Payment
      BY <1>4, <1>5, <2>3 DEF PaymentOf
    <3>2. /\ PaymentOf(row) = payments[row.payment]
          /\ PaymentOf(row).key \in Transfers \cup {Manual}
      BY <3>1 DEF PaymentOf, Payment
    <3>3. Adopt(s, row, row.payment, PaymentOf(row).key)
      BY <1>9, <2>3 DEF Upsert
    <3>4. QED BY <1>8, <1>9, <2>3, <3>1, <3>2, <3>3
  <2>4. CASE Settled(row) /\ row.money \notin Fractional /\ PaymentOf(row) = NoRow
    <3> DEFINE found == Candidates(transactions, row, Type)
    <3>1. \/ \E p \in Positions : found = {p} /\ Adopt(s, row, p, payments[p].key)
          \/ NothingToPay(s, InReview(row))
          \/ NothingToPay(s, row)
          \/ \E p \in Positions : IsNextPosition(p) /\ Adopt(s, row, p, w.transfer)
      BY <1>9, <2>4 DEF Upsert
    <3>2. ASSUME NEW p \in Positions, found = {p}, Adopt(s, row, p, payments[p].key)
          PROVE  RaceInv'
      <4>1. payments[p] \in Payment
        BY <1>4, <3>2 DEF Candidates
      <4>2. payments[p].key \in Transfers \cup {Manual}
        BY <4>1 DEF Payment
      <4>3. QED BY <1>8, <1>9, <2>4, <3>2, <4>2
    <3>3. ASSUME NothingToPay(s, InReview(row)) PROVE RaceInv'
      <4> DEFINE new == InReview(row)
      <4>1. new \in Transaction /\ new.payment = row.payment
        BY <1>3 DEF InReview, Transaction, Statuses
      <4>2. Ready(s, new, NoPayment, NoRow)
        BY <3>3 DEF NothingToPay
      <4>3. new.payment = NoPayment \/ payments[new.payment] = NoRow
        BY <2>4, <4>1 DEF PaymentOf
      <4> HIDE DEF new
      <4>4. QED BY <1>1, <4>1, <4>2, <4>3, ReadyKeeps
    <3>4. ASSUME NEW p \in Positions, IsNextPosition(p), Adopt(s, row, p, w.transfer)
          PROVE  RaceInv'
      <4>1. payments[p] = NoRow
        BY <3>4, ConstantsAssumption DEF IsNextPosition, Positions
      <4>2. w.transfer \in Transfers
        BY <1>2, <1>1 DEF Work
      <4>3. QED BY <1>8, <1>9, <2>4, <3>4, <4>1, <4>2
    <3>5. QED BY <1>6, <2>4, <3>1, <3>2, <3>3, <3>4
  <2>5. QED BY <2>1, <2>2, <2>3, <2>4
<1>10. QED BY <1>7, <1>9 DEF ReadPayment

\* What a commit that writes leaves in the two tables.
LEMMA CommittedRows ==
  ASSUME RaceInv, NEW s \in Sessions, Commit(s), Write(s)
  PROVE  LET w == work[s]
         IN  /\ w \in Work /\ w # Idle /\ w.row \in Transaction /\ w.kind # "delete"
             /\ transactions' = [transactions EXCEPT
                  ![w.transfer] = Merged(transactions[w.transfer], w.read, w.row)]
             /\ transactions'[w.transfer] \in Transaction
             /\ \/ payments' = payments
                \/ /\ Paid(w) /\ w.payment \in Payment
                   /\ w.found = NoRow => payments[w.at] = NoRow /\ Fresh(w.at)
                   /\ w.found # NoRow => w.found \in Payment /\ payments[w.at] \in Payment
                   /\ payments' = [payments EXCEPT
                        ![w.at] = Merged(payments[w.at], w.found, w.payment)]
                   /\ payments'[w.at] \in Payment
<1> USE NullsAssumption, RaceAssumption
<1> DEFINE w == work[s]
           t == w.transfer
           row == Merged(transactions[t], w.read, w.row)
           new == Merged(payments[w.at], w.found, w.payment)
<1>1. w # Idle /\ w.step = "commit" /\ w.kind # "delete"
  BY DEF Commit, Write
<1>2. w \in Work /\ WorkOK(w, transactions, payments)
  BY <1>1 DEF RaceInv, RaceTypeOK
<1>3. /\ w.row \in Transaction /\ w.read \in Transaction \cup {NoRow}
      /\ t \in Transfers /\ w.found \in Payment \cup {NoRow}
      /\ w.payment \in Payment \cup {NoRow}
  BY <1>1, <1>2 DEF Work, WorkOK
<1>4. transactions \in [Transfers -> Transaction \cup {NoRow}]
      /\ payments \in [Positions -> Payment \cup {NoRow}]
  BY DEF RaceInv, RaceTypeOK, TypeOK
<1>5. row \in Transaction
  <2>1. CASE w.read = NoRow
    BY <2>1, <1>3 DEF Merged
  <2>2. CASE w.read # NoRow
    <3>1. transactions[t] \in Transaction
      BY <1>1, <1>2, <1>3, <1>4, <2>2 DEF WorkOK
    <3>2. QED BY <1>3, <3>1, MergedTransaction
  <2>3. QED BY <2>1, <2>2
<1>6. transactions' = [transactions EXCEPT ![t] = row]
  BY DEF Write
<1>7. transactions'[t] \in Transaction
  <2> HIDE DEF row
  <2>1. QED BY <1>3, <1>4, <1>5, <1>6
<1>8. ASSUME payments' # payments
      PROVE  /\ Paid(w) /\ w.payment \in Payment
             /\ w.found = NoRow => payments[w.at] = NoRow /\ Fresh(w.at)
             /\ w.found # NoRow => w.found \in Payment /\ payments[w.at] \in Payment
             /\ payments' = [payments EXCEPT ![w.at] = new]
             /\ payments'[w.at] \in Payment
  <2>1. /\ w.payment # NoRow
        /\ w.found = NoRow \/ payments[w.at] # NoRow
        /\ payments' = [payments EXCEPT ![w.at] = new]
    BY <1>8 DEF Write
  <2>2. Paid(w) /\ w.at \in Positions
    BY <1>1, <1>2, <2>1 DEF WorkOK, Empty, Paid
  <2>3. w.found = NoRow => payments[w.at] = NoRow /\ Fresh(w.at)
    BY <2>1 DEF Commit, Unique, Inserts
  <2>4. w.found # NoRow => w.found \in Payment /\ payments[w.at] \in Payment
    BY <1>3, <1>4, <2>1, <2>2
  <2>5. new \in Payment
    <3>1. CASE w.found = NoRow
      BY <3>1, <1>3, <2>1 DEF Merged
    <3>2. CASE w.found # NoRow
      BY <3>2, <1>3, <2>1, <2>4, MergedPayment
    <3>3. QED BY <3>1, <3>2
  <2> HIDE DEF new
  <2>6. payments'[w.at] \in Payment
    BY <1>4, <2>1, <2>2, <2>5
  <2>7. QED BY <1>3, <2>1, <2>2, <2>3, <2>4, <2>6
<1> HIDE DEF row, new
<1>9. QED BY <1>1, <1>2, <1>3, <1>6, <1>7, <1>8 DEF row, new

\* What another request knows stands, as long as no row of transactions goes away and
\* no payment row comes in place of one it knows.
LEMMA OthersKnow ==
  ASSUME NullsAssumption, NEW w \in Work, NEW tab, NEW rows, NEW newtab, NEW newrows,
         WorkOK(w, tab, rows),
         \A t \in Transfers : tab[t] # NoRow => newtab[t] # NoRow,
         \A p \in Positions :
           rows[p] = NoRow /\ newrows[p] # NoRow
             => (w.read # NoRow => w.read.payment # p)
  PROVE  WorkOK(w, newtab, newrows)
<1>1. w.transfer \in Transfers
  BY DEF Work
<1>2. ASSUME Empty(w), Unpaid(w, rows), w.row # NoRow PROVE Unpaid(w, newrows)
  <2>1. w.row \in Transaction
    BY <1>2 DEF Work
  <2>2. w.row.payment \in Positions \cup {NoPayment}
    BY <2>1 DEF Transaction
  <2>3. CASE w.row.payment = NoPayment
    BY <1>2, <2>3 DEF Unpaid
  <2>4. CASE w.row.payment # NoPayment
    <3>1. w.read # NoRow /\ w.read.payment = w.row.payment
      BY <1>2, <2>4 DEF Unpaid, Unmoved
    <3>2. QED BY <1>2, <2>2, <2>4, <3>1 DEF Unpaid
  <2>5. QED BY <2>3, <2>4
<1>3. QED BY <1>1, <1>2 DEF WorkOK

LEMMA DropKeeps ==
  ASSUME RaceInv, NEW s \in Sessions, work[s] # Idle, Drop(s),
         UNCHANGED <<configs, blacklist, rules>>,
         transactions' \in [Transfers -> Transaction \cup {NoRow}],
         payments' \in [Positions -> Payment \cup {NoRow}],
         \A t \in Transfers : transactions[t] # NoRow => transactions'[t] # NoRow,
         \A p \in Positions :
           payments[p] = NoRow /\ payments'[p] # NoRow => Fresh(p)
  PROVE  RaceInv'
<1> USE NullsAssumption, RaceAssumption
<1>1. work' = [work EXCEPT ![s] = Idle] /\ work \in [Sessions -> Work \cup {Idle}]
  BY DEF Drop, RaceInv, RaceTypeOK
<1>2. work' \in [Sessions -> Work \cup {Idle}]
  BY <1>1
<1>3. ASSUME NEW x \in Sessions PROVE WorkOK(work'[x], transactions', payments')
  <2>1. CASE work'[x] = Idle
    BY <2>1 DEF WorkOK
  <2>2. CASE work'[x] # Idle
    <3>1. work'[x] = work[x] /\ work[x] \in Work
      BY <1>1, <2>2
    <3>2. WorkOK(work[x], transactions, payments)
      BY DEF RaceInv
    <3>3. \A p \in Positions :
            payments[p] = NoRow /\ payments'[p] # NoRow
              => (work[x].read # NoRow => work[x].read.payment # p)
      BY <2>2, <3>1 DEF Fresh
    <3> DEFINE w == work[x]
    <3> HIDE DEF w
    <3>4. w \in Work /\ WorkOK(w, transactions, payments)
          /\ \A p \in Positions :
               payments[p] = NoRow /\ payments'[p] # NoRow
                 => (w.read # NoRow => w.read.payment # p)
      BY <3>1, <3>2, <3>3 DEF w
    <3>5. WorkOK(w, transactions', payments')
      BY <3>4, OthersKnow
    <3>6. QED BY <3>1, <3>5 DEF w
  <2>3. QED BY <2>1, <2>2
<1>4. QED BY <1>2, <1>3 DEF RaceInv, RaceTypeOK, TypeOK, Type

LEMMA CommitKeeps ==
  ASSUME RaceInv, NEW s \in Sessions, Commit(s)
  PROVE  RaceInv'
<1> USE NullsAssumption, RaceAssumption
<1> DEFINE w == work[s]
<1>1. w # Idle /\ Drop(s) /\ UNCHANGED <<configs, blacklist, rules>>
  BY DEF Commit
<1>2. transactions \in [Transfers -> Transaction \cup {NoRow}]
      /\ payments \in [Positions -> Payment \cup {NoRow}]
  BY DEF RaceInv, RaceTypeOK, TypeOK
<1>3. w \in Work /\ WorkOK(w, transactions, payments)
  BY <1>1 DEF RaceInv, RaceTypeOK
<1>4. CASE Write(s)
  <2>1. /\ transactions' = [transactions EXCEPT
             ![w.transfer] = Merged(transactions[w.transfer], w.read, w.row)]
        /\ transactions'[w.transfer] \in Transaction
    BY <1>4, CommittedRows
  <2>2. \/ payments' = payments
        \/ /\ w.at \in Positions /\ payments'[w.at] \in Payment
           /\ w.found = NoRow => Fresh(w.at)
           /\ w.found # NoRow => payments[w.at] \in Payment
           /\ payments' = [payments EXCEPT
                ![w.at] = Merged(payments[w.at], w.found, w.payment)]
    BY <1>4, CommittedRows DEF Paid
  <2>3. /\ transactions' \in [Transfers -> Transaction \cup {NoRow}]
        /\ \A t \in Transfers : transactions[t] # NoRow => transactions'[t] # NoRow
    BY <1>2, <2>1
  <2>4. /\ payments' \in [Positions -> Payment \cup {NoRow}]
        /\ \A p \in Positions : payments[p] = NoRow /\ payments'[p] # NoRow => Fresh(p)
    <3>1. CASE payments' = payments
      BY <1>2, <3>1
    <3>2. CASE payments' # payments
      BY <1>2, <2>2, <3>2
    <3>3. QED BY <3>1, <3>2
  <2>5. QED BY <1>1, <2>3, <2>4, DropKeeps
<1>5. CASE WriteDelete(s)
  <2> DEFINE merged == Merged(transactions[w.transfer], w.read, w.row)
             written == IF w.row = NoRow THEN transactions
                        ELSE [transactions EXCEPT ![w.transfer] = merged]
  <2>1. /\ w.kind = "delete"
        /\ payments' = [payments EXCEPT ![w.at] = NoRow]
        /\ transactions' = [t \in Transfers |->
             IF Linked(written[t]) /\ written[t].payment = w.at
             THEN [written[t] EXCEPT !.payment = NoPayment] ELSE written[t]]
    BY <1>5 DEF WriteDelete
  <2>2. w.at \in Positions /\ (w.read = NoRow <=> w.row = NoRow)
        /\ w.transfer \in Transfers
        /\ (w.read # NoRow => transactions[w.transfer] # NoRow)
    BY <1>1, <1>3, <2>1 DEF WorkOK, Work
  <2>3. /\ written \in [Transfers -> Transaction \cup {NoRow}]
        /\ \A t \in Transfers : transactions[t] # NoRow => written[t] # NoRow
    <3>1. CASE w.row = NoRow
      BY <3>1, <1>2
    <3>2. CASE w.row # NoRow
      <4>1. w.row \in Transaction /\ w.read \in Transaction
            /\ transactions[w.transfer] \in Transaction
        BY <1>2, <1>3, <2>2, <3>2 DEF Work
      <4>2. merged \in Transaction
        BY <4>1, MergedTransaction
      <4> HIDE DEF merged
      <4>3. QED BY <1>2, <2>2, <3>2, <4>2
    <3>3. QED BY <3>1, <3>2
  <2> HIDE DEF written
  <2>4. ASSUME NEW t \in Transfers
        PROVE  /\ transactions'[t] \in Transaction \cup {NoRow}
               /\ transactions[t] # NoRow => transactions'[t] # NoRow
    <3>1. written[t] # NoRow => [written[t] EXCEPT !.payment = NoPayment] \in Transaction
      BY <2>3 DEF Transaction
    <3>2. QED BY <2>1, <2>3, <3>1 DEF Linked
  <2>5. transactions' \in [Transfers -> Transaction \cup {NoRow}]
    BY <2>1, <2>4
  <2>6. /\ payments' \in [Positions -> Payment \cup {NoRow}]
        /\ \A p \in Positions : payments[p] = NoRow /\ payments'[p] # NoRow => Fresh(p)
    BY <1>2, <2>1, <2>2
  <2>7. QED BY <1>1, <2>4, <2>5, <2>6, DropKeeps
<1>6. QED BY <1>4, <1>5 DEF Commit

LEMMA FailKeeps ==
  ASSUME RaceInv, NEW s \in Sessions, Fail(s)
  PROVE  RaceInv'
<1>1. UNCHANGED <<transactions, payments, configs, blacklist, rules>> /\ work[s] # Idle /\ Drop(s)
  BY DEF Fail, vars
<1>2. transactions' \in [Transfers -> Transaction \cup {NoRow}]
      /\ payments' \in [Positions -> Payment \cup {NoRow}]
  BY <1>1 DEF RaceInv, RaceTypeOK, TypeOK
<1>3. QED BY <1>1, <1>2, DropKeeps

LEMMA EnterKeeps ==
  ASSUME RaceInv, NEW u \in Users, NEW m \in Money, Enter(u, m)
  PROVE  RaceInv'
<1> USE NullsAssumption, RaceAssumption
<1>1. /\ UNCHANGED <<transactions, configs, blacklist, rules, work>> /\ m \notin Fractional
      /\ \A p \in Positions : payments'[p] # payments[p] => Fresh(p)
  BY DEF Enter, CreatePayment
<1> DEFINE row == [user |-> u, type |-> Type, money |-> m, key |-> Manual, included |-> TRUE]
<1>2. PICK p \in Positions : payments' = [payments EXCEPT ![p] = row]
  BY DEF Enter, CreatePayment
<1>3. row \in Payment
  BY <1>1 DEF Payment, RaceInv, RaceTypeOK, TypeOK, Type
<1> HIDE DEF row
<1>4. payments' \in [Positions -> Payment \cup {NoRow}]
  BY <1>2, <1>3 DEF RaceInv, RaceTypeOK, TypeOK
<1>5. ASSUME NEW x \in Sessions PROVE WorkOK(work'[x], transactions', payments')
  <2>1. CASE work[x] = Idle
    BY <1>1, <2>1 DEF WorkOK
  <2>2. CASE work[x] # Idle
    <3> DEFINE w == work[x]
    <3>1. /\ w \in Work /\ WorkOK(w, transactions, payments)
          /\ \A q \in Positions :
               payments[q] = NoRow /\ payments'[q] # NoRow
                 => (w.read # NoRow => w.read.payment # q)
      BY <1>1, <2>2 DEF RaceInv, RaceTypeOK, Fresh
    <3>2. work'[x] = w /\ \A t \in Transfers : transactions[t] # NoRow => transactions'[t] # NoRow
      BY <1>1
    <3> HIDE DEF w
    <3>3. WorkOK(w, transactions', payments')
      BY <3>1, <3>2, OthersKnow
    <3>4. QED BY <3>2, <3>3
  <2>3. QED BY <2>1, <2>2
<1>6. QED BY <1>1, <1>4, <1>5 DEF RaceInv, RaceTypeOK, TypeOK, Type

LEMMA RaceNextInv == RaceInv /\ [RaceNext]_raceVars => RaceInv'
<1> SUFFICES ASSUME RaceInv, [RaceNext]_raceVars PROVE RaceInv'
  OBVIOUS
<1>1. ASSUME NEW s \in Sessions, NEW i \in Items, BeginItem(s, i) PROVE RaceInv'
  BY <1>1, BeginAnyKeeps
<1>2. ASSUME NEW s \in Sessions, NEW t \in Transfers,
             BeginDeletion(s, t) \/ BeginApprove(s, t) \/ BeginReject(s, t)
      PROVE  RaceInv'
  BY <1>2, BeginAnyKeeps
<1>3. ASSUME NEW s \in Sessions, NEW p \in Positions, BeginDelete(s, p) PROVE RaceInv'
  BY <1>3, BeginDeleteKeeps
<1>4. ASSUME NEW s \in Sessions, ReadPayment(s) PROVE RaceInv'
  BY <1>4, ReadPaymentKeeps
<1>5. ASSUME NEW s \in Sessions, Commit(s) PROVE RaceInv'
  BY <1>5, CommitKeeps
<1>6. ASSUME NEW s \in Sessions, Fail(s) PROVE RaceInv'
  BY <1>6, FailKeeps
<1>7. ASSUME NEW u \in Users, NEW m \in Money, Enter(u, m) PROVE RaceInv'
  BY <1>7, EnterKeeps
<1>8. CASE UNCHANGED raceVars
  BY <1>8 DEF raceVars, RaceInv, RaceTypeOK, TypeOK, Type
<1>9. QED BY <1>1, <1>2, <1>3, <1>4, <1>5, <1>6, <1>7, <1>8 DEF RaceNext

LEMMA RaceInvariance == RaceSpec => []RaceInv
BY RaceInitInv, RaceNextInv, PTL DEF RaceSpec

-----------------------------------------------------------------------------
(* What follows for the requests that overlap *)

\* The tables and what the requests have read of them have their types.
THEOREM RaceTypesCorrect == RaceSpec => []RaceTypeOK
<1>1. RaceInv => RaceTypeOK
  BY DEF RaceInv
<1>2. QED BY <1>1, RaceInvariance, PTL

\* The keys of payments stay apart.
LEMMA CreatedNext ==
  RaceInv /\ CreatedAtMostOnce /\ [RaceNext]_raceVars => CreatedAtMostOnce'
<1> USE NullsAssumption
<1> SUFFICES ASSUME RaceInv, CreatedAtMostOnce, [RaceNext]_raceVars
             PROVE  CreatedAtMostOnce'
  OBVIOUS
<1>1. payments \in [Positions -> Payment \cup {NoRow}]
  BY DEF RaceInv, RaceTypeOK, TypeOK
<1>2. CASE UNCHANGED payments
  BY <1>2 DEF CreatedAtMostOnce
<1>3. ASSUME NEW s \in Sessions, Commit(s), Write(s) PROVE CreatedAtMostOnce'
  <2> DEFINE w == work[s]
             new == Merged(payments[w.at], w.found, w.payment)
  <2>1. CASE payments' = payments
    BY <1>2, <2>1
  <2>2. CASE payments' # payments
    <3>1. /\ Paid(w) /\ w.payment \in Payment
          /\ w.found = NoRow => payments[w.at] = NoRow
          /\ w.found # NoRow => w.found \in Payment /\ payments[w.at] \in Payment
          /\ payments' = [payments EXCEPT ![w.at] = new]
      BY <1>3, <2>2, CommittedRows
    <3>2. w.at \in Positions /\ w.payment # NoRow
      BY <3>1 DEF Paid
    <3>3. CASE w.found = NoRow
      <4>1. new = w.payment
        BY <3>3 DEF Merged
      <4>2. \A p \in Positions : payments[p] # NoRow => payments[p].key # w.payment.key
        BY <1>3, <3>2, <3>3 DEF Commit, Unique, Inserts
      <4> HIDE DEF new
      <4>3. QED BY <1>1, <3>1, <3>2, <4>1, <4>2 DEF CreatedAtMostOnce
    <3>4. CASE w.found # NoRow
      <4>1. new.key = payments[w.at].key
        BY <3>1, <3>4, MergedPayment DEF Paid
      <4>2. payments[w.at] # NoRow
        BY <3>1, <3>4
      <4> HIDE DEF new
      <4>3. QED BY <1>1, <3>1, <3>2, <4>1, <4>2 DEF CreatedAtMostOnce
    <3>5. QED BY <3>3, <3>4
  <2>3. QED BY <2>1, <2>2
<1>4. ASSUME NEW s \in Sessions, WriteDelete(s) PROVE CreatedAtMostOnce'
  BY <1>1, <1>4 DEF WriteDelete, CreatedAtMostOnce
<1>5. ASSUME NEW u \in Users, NEW m \in Money, Enter(u, m) PROVE CreatedAtMostOnce'
  BY <1>1, <1>5 DEF Enter, CreatePayment, CreatedAtMostOnce
<1>6. CASE \E s \in Sessions :
             \/ \E i \in Items : BeginItem(s, i)
             \/ \E t \in Transfers :
                  BeginDeletion(s, t) \/ BeginApprove(s, t) \/ BeginReject(s, t)
             \/ \E p \in Positions : BeginDelete(s, p)
             \/ ReadPayment(s) \/ Fail(s)
  BY <1>2, <1>6 DEF BeginItem, BeginDeletion, BeginApprove, BeginReject, Begin, BeginDelete,
                    ReadPayment, Fail, vars
<1>7. CASE UNCHANGED raceVars
  BY <1>2, <1>7 DEF raceVars
<1>8. QED BY <1>3, <1>4, <1>5, <1>6, <1>7 DEF RaceNext, Commit

\* However requests overlap and wherever they stop, one payment is created per
\* transfer: an insert meets no equal source_key, and an update keeps the source_key
\* of the row it finds (zenmoney.py:590-605).
THEOREM CreatedOnceInRaces == RaceSpec => []CreatedAtMostOnce
<1>1. RaceInit => CreatedAtMostOnce
  BY DEF RaceInit, CreatedAtMostOnce
<1>2. QED BY <1>1, CreatedNext, RaceInvariance, PTL DEF RaceSpec

\* The step by which a request writes.
Writes(s, t) ==
  /\ work[s] # Idle /\ work[s].step = "commit" /\ work[s].kind # "delete"
  /\ work[s].transfer = t /\ Undisturbed(work[s])
  /\ work'[s] = Idle /\ <<transactions, payments>>' # <<transactions, payments>>

\* Nothing but its own commit writes for a request.
LEMMA WritesCommits ==
  ASSUME RaceInv, [RaceNext]_raceVars, NEW s \in Sessions, NEW t \in Transfers, Writes(s, t)
  PROVE  Commit(s) /\ Write(s)
<1> USE NullsAssumption, RaceAssumption
<1>1. work[s] \in Work /\ work \in [Sessions -> Work \cup {Idle}]
  BY DEF RaceInv, RaceTypeOK, Writes
<1>2. ASSUME NEW x \in Sessions,
             \/ \E i \in Items : BeginItem(x, i)
             \/ \E y \in Transfers :
                  BeginDeletion(x, y) \/ BeginApprove(x, y) \/ BeginReject(x, y)
             \/ \E p \in Positions : BeginDelete(x, p)
             \/ ReadPayment(x) \/ Fail(x)
      PROVE  FALSE
  BY <1>2 DEF Writes, BeginItem, BeginDeletion, BeginApprove, BeginReject, Begin, BeginDelete,
              ReadPayment, Fail, vars
<1>3. ASSUME NEW u \in Users, NEW m \in Money, Enter(u, m) PROVE FALSE
  BY <1>3 DEF Enter, Writes
<1>4. CASE UNCHANGED raceVars
  BY <1>4 DEF raceVars, Writes
<1>5. ASSUME NEW x \in Sessions, Commit(x) PROVE x = s /\ Write(s)
  <2>1. work' = [work EXCEPT ![x] = Idle]
    BY <1>5 DEF Commit, Drop
  <2>2. x = s
    BY <1>1, <2>1 DEF Writes
  <2>3. Write(s)
    BY <1>5, <2>2 DEF Commit, WriteDelete, Writes
  <2>4. QED BY <2>2, <2>3
<1>6. QED BY <1>2, <1>3, <1>4, <1>5 DEF RaceNext

LEMMA WrittenIsConsistent ==
  ASSUME RaceInv, NEW s \in Sessions, NEW t \in Transfers, Writes(s, t), Commit(s), Write(s)
  PROVE  Consistent(t)'
<1> USE NullsAssumption, RaceAssumption
<1> DEFINE w == work[s]
           new == Merged(payments[w.at], w.found, w.payment)
<1>1. /\ w \in Work /\ w # Idle /\ w.row \in Transaction /\ w.kind # "delete"
      /\ transactions' = [transactions EXCEPT
           ![w.transfer] = Merged(transactions[w.transfer], w.read, w.row)]
      /\ \/ payments' = payments
         \/ /\ Paid(w) /\ w.payment \in Payment
            /\ w.found # NoRow => w.found \in Payment /\ payments[w.at] \in Payment
            /\ payments' = [payments EXCEPT ![w.at] = new]
  BY CommittedRows
<1>2. /\ w.step = "commit" /\ w.transfer = t /\ transactions[t] = w.read
      /\ w.at # NoPayment => payments[w.at] = w.found
  BY DEF Writes, Undisturbed
<1>3. WorkOK(w, transactions, payments)
  BY DEF RaceInv
<1>4. transactions \in [Transfers -> Transaction \cup {NoRow}]
      /\ payments \in [Positions -> Payment \cup {NoRow}]
  BY DEF RaceInv, RaceTypeOK, TypeOK
<1>5. transactions'[t] = w.row
  <2>1. Merged(transactions[t], w.read, w.row) = w.row
    <3>1. CASE w.read = NoRow
      BY <3>1 DEF Merged
    <3>2. CASE w.read # NoRow
      BY <3>2, <1>1, <1>2, <1>4, MergedTransaction
    <3>3. QED BY <3>1, <3>2
  <2>2. QED BY <1>1, <1>2, <1>4, <2>1
<1>6. CASE Empty(w) /\ Unpaid(w, payments)
  <2>1. payments' = payments
    BY <1>6 DEF Empty, Write
  <2>2. QED BY <1>5, <1>6, <2>1 DEF Consistent, Counts, Linked, Unpaid
<1>7. CASE Paid(w)
  <2>1. w.at \in Positions /\ w.at # NoPayment /\ w.row.payment = w.at
        /\ Agrees(w.row, w.payment) /\ w.payment # NoRow
    BY <1>7 DEF Paid
  <2>2. payments' = [payments EXCEPT ![w.at] = new]
    BY <1>2, <2>1 DEF Write
  <2>3. new = w.payment
    <3>1. CASE w.found = NoRow
      BY <3>1 DEF Merged
    <3>2. CASE w.found # NoRow
      <4>1. w.payment \in Payment /\ w.found \in Payment
        BY <1>1, <2>1, <3>2 DEF Work
      <4>2. QED BY <1>2, <2>1, <4>1, MergedPayment
    <3>3. QED BY <3>1, <3>2
  <2> HIDE DEF new
  <2>4. payments'[w.at] = w.payment
    BY <1>4, <2>1, <2>2, <2>3
  <2>5. ASSUME NEW p \in Positions, Counts(t, p)'
        PROVE  p = w.at
    BY <1>5, <2>1, <2>5 DEF Counts
  <2>6. QED BY <1>5, <2>1, <2>4, <2>5 DEF Consistent, Counts, Agrees
<1>8. QED BY <1>1, <1>2, <1>3, <1>6, <1>7 DEF WorkOK

\* A request whose reads still hold at its commit leaves what counts for its transfer
\* in agreement with it, whatever overlaps did before (zenmoney.py:550-552, 709-714,
\* 894-899).
THEOREM UndisturbedRepairs == RaceSpec => UndisturbedHeals
<1>1. RaceInv /\ [RaceNext]_raceVars
        => [\A s \in Sessions, t \in Transfers : Writes(s, t) => Consistent(t)']_raceVars
  BY WritesCommits, WrittenIsConsistent
<1>2. QED BY <1>1, RaceInvariance, PTL DEF RaceSpec, UndisturbedHeals, Writes

-----------------------------------------------------------------------------
(***************************************************************************)
(* Which requests part a transfer from the payment made of it.  A second   *)
(* invariant says where the link that a request writes comes from: it was  *)
(* read, or the payment that was read is gone and nothing comes in its     *)
(* place; a new payment gets the key of the transfer; and what was read as *)
(* missing is missing, because synchronisations do not overlap.            *)
(***************************************************************************)

Synchronises(w) == w # Idle /\ w.kind \in {"item", "deletion"}

Lone == \A x, y \in Sessions : Synchronises(work[x]) /\ Synchronises(work[y]) => x = y

LinkOK(w, tab, rows) ==
  w # Idle =>
    /\ w.read = NoRow /\ w.kind # "delete" => w.kind = "item" /\ tab[w.transfer] = NoRow
    /\ /\ w.kind # "delete" /\ w.read # NoRow
       /\ w.row.payment # w.read.payment /\ w.read.payment # NoPayment
       => rows[w.read.payment] = NoRow
    /\ w.kind = "delete" /\ w.read # NoRow => w.read.payment = w.at /\ w.row.payment = NoPayment
    /\ Inserts(w) => w.read # NoRow /\ w.payment.key = w.transfer

LinkInv == Lone /\ \A s \in Sessions : LinkOK(work[s], transactions, payments)

LEMMA RaceInitLinks == RaceInit => LinkInv
BY DEF RaceInit, LinkInv, Lone, LinkOK, Synchronises

\* The request of one session goes on, the tables stay.
LEMMA OwnLinks ==
  ASSUME RaceInv, LinkInv, UNCHANGED vars, NEW s \in Sessions, NEW new,
         work' = [work EXCEPT ![s] = new],
         Synchronises(new) => ~Syncing \/ Synchronises(work[s]),
         LinkOK(new, transactions, payments)
  PROVE  LinkInv'
<1>1. work \in [Sessions -> Work \cup {Idle}] /\ UNCHANGED <<transactions, payments>>
  BY DEF RaceInv, RaceTypeOK, vars
<1>2. \A x \in Sessions : work'[x] = IF x = s THEN new ELSE work[x]
  BY <1>1
<1>3. \A x \in Sessions : LinkOK(work'[x], transactions, payments)
  BY <1>2 DEF LinkInv
<1>4. ASSUME NEW x \in Sessions, NEW y \in Sessions,
             Synchronises(work'[x]), Synchronises(work'[y])
      PROVE  x = y
  BY <1>2, <1>4 DEF LinkInv, Lone, Syncing, Synchronises
<1>5. QED BY <1>1, <1>3, <1>4 DEF LinkInv, Lone, Synchronises

LEMMA BeginLinks ==
  ASSUME RaceInv, LinkInv, NEW s \in Sessions,
         NEW kind \in {"item", "deletion", "approve", "reject"}, NEW t \in Transfers,
         NEW row,
         kind \in {"item", "deletion"} => ~Syncing,
         transactions[t] = NoRow => kind = "item",
         transactions[t] # NoRow => row.payment = transactions[t].payment,
         Begin(s, kind, t, transactions[t], row)
  PROVE  LinkInv'
<1> DEFINE w == [kind |-> kind, step |-> "payment", transfer |-> t,
                 read |-> transactions[t], row |-> row,
                 at |-> NoPayment, found |-> NoRow, payment |-> NoRow]
<1>1. work' = [work EXCEPT ![s] = w] /\ UNCHANGED vars
  BY DEF Begin
<1>2. w.kind = kind /\ w.transfer = t /\ w.read = transactions[t] /\ w.row = row
      /\ w.payment = NoRow
  OBVIOUS
<1> HIDE DEF w
<1>3. LinkOK(w, transactions, payments)
  BY <1>2 DEF LinkOK, Inserts
<1>4. Synchronises(w) => ~Syncing
  BY <1>2 DEF Synchronises
<1>5. QED BY <1>1, <1>3, <1>4, OwnLinks

LEMMA BeginAnyLinks ==
  ASSUME RaceInv, LinkInv, NEW s \in Sessions,
         \/ \E i \in Items : BeginItem(s, i)
         \/ \E t \in Transfers : BeginDeletion(s, t) \/ BeginApprove(s, t) \/ BeginReject(s, t)
  PROVE  LinkInv'
<1>1. ASSUME NEW i \in Items, BeginItem(s, i) PROVE LinkInv'
  <2>1. i.id \in Transfers
    BY DEF Items
  <2>2. QED BY <1>1, <2>1, JudgedRow, BeginLinks DEF BeginItem
<1>2. \A t \in Transfers : transactions[t] # NoRow => transactions[t] \in Transaction
  BY DEF RaceInv, RaceTypeOK, TypeOK
<1>3. ASSUME NEW t \in Transfers, BeginDeletion(s, t) PROVE LinkInv'
  <2> DEFINE row == [transactions[t] EXCEPT !.deleted = TRUE, !.status = "rejected",
                                            !.user = NoUser]
  <2>1. row.payment = transactions[t].payment
    BY <1>2, <1>3 DEF BeginDeletion, Transaction
  <2>2. Begin(s, "deletion", t, transactions[t], row) /\ transactions[t] # NoRow /\ ~Syncing
    BY <1>3 DEF BeginDeletion
  <2> HIDE DEF row
  <2>3. QED BY <2>1, <2>2, BeginLinks
<1>4. ASSUME NEW t \in Transfers, BeginApprove(s, t) PROVE LinkInv'
  BY <1>4, BeginLinks DEF BeginApprove
<1>5. ASSUME NEW t \in Transfers, BeginReject(s, t) PROVE LinkInv'
  <2> DEFINE row == [transactions[t] EXCEPT !.status = "rejected", !.user = NoUser,
                                            !.source = "manual"]
  <2>1. row.payment = transactions[t].payment
    BY <1>2, <1>5 DEF BeginReject, Transaction
  <2>2. Begin(s, "reject", t, transactions[t], row) /\ transactions[t] # NoRow
    BY <1>5 DEF BeginReject
  <2> HIDE DEF row
  <2>3. QED BY <2>1, <2>2, BeginLinks
<1>6. QED BY <1>1, <1>3, <1>4, <1>5

LEMMA BeginDeleteLinks ==
  ASSUME RaceInv, LinkInv, NEW s \in Sessions, NEW p \in Positions, BeginDelete(s, p)
  PROVE  LinkInv'
<1>1. PICK t \in Transfers :
        LET r == transactions[t]
            linked == Linked(r) /\ r.payment = p
        IN  work' = [work EXCEPT ![s] =
              [kind |-> "delete", step |-> "commit", transfer |-> t,
               read |-> IF linked THEN r ELSE NoRow,
               row |-> IF linked
                       THEN [r EXCEPT !.payment = NoPayment, !.user = NoUser,
                                      !.status = "rejected", !.source = "manual"]
                       ELSE NoRow,
               at |-> p, found |-> payments[p], payment |-> NoRow]]
  BY DEF BeginDelete
<1> DEFINE linked == Linked(transactions[t]) /\ transactions[t].payment = p
           row == IF linked
                  THEN [transactions[t] EXCEPT !.payment = NoPayment, !.user = NoUser,
                                               !.status = "rejected", !.source = "manual"]
                  ELSE NoRow
           w == [kind |-> "delete", step |-> "commit", transfer |-> t,
                 read |-> IF linked THEN transactions[t] ELSE NoRow,
                 row |-> row,
                 at |-> p, found |-> payments[p], payment |-> NoRow]
<1>2. work' = [work EXCEPT ![s] = w] /\ UNCHANGED vars
  BY <1>1 DEF BeginDelete
<1>3. linked => row.payment = NoPayment
  <2>1. linked => transactions[t] \in Transaction
    BY DEF RaceInv, RaceTypeOK, TypeOK, Linked
  <2>2. QED BY <2>1 DEF Transaction
<1> HIDE DEF row
<1>4. /\ w.kind = "delete" /\ w.payment = NoRow /\ w.at = p
      /\ w.read # NoRow => w.read.payment = p /\ w.row.payment = NoPayment
  BY <1>3
<1> HIDE DEF w
<1>5. LinkOK(w, transactions, payments) /\ ~Synchronises(w)
  BY <1>4 DEF LinkOK, Inserts, Synchronises
<1>6. QED BY <1>2, <1>5, OwnLinks

\* The link is as it was read, or that of a payment adopted or made in place of none.
LEMMA ReadyLinks ==
  ASSUME RaceInv, LinkInv, UNCHANGED vars, NEW s \in Sessions,
         work[s] # Idle, work[s].step = "payment",
         NEW row, NEW p, NEW payment, Ready(s, row, p, payment),
         \/ row.payment = work[s].row.payment
         \/ PaymentOf(work[s].row) = NoRow,
         payment # NoRow /\ (p = NoPayment \/ payments[p] = NoRow)
           => work[s].kind = "approve" /\ payment.key = work[s].transfer
  PROVE  LinkInv'
<1> DEFINE w == work[s]
           found == IF p = NoPayment THEN NoRow ELSE payments[p]
           new == [w EXCEPT !.step = "commit", !.row = row, !.at = p, !.found = found,
                            !.payment = payment]
<1>1. w \in Work /\ WorkOK(w, transactions, payments) /\ LinkOK(w, transactions, payments)
  BY DEF RaceInv, RaceTypeOK, LinkInv
<1>2. work' = [work EXCEPT ![s] = new]
  BY DEF Ready, RaceInv, RaceTypeOK
<1>3. new.transfer = w.transfer /\ new.read = w.read /\ new.kind = w.kind
      /\ new.row = row /\ new.found = found /\ new.payment = payment
  BY <1>1 DEF Work
<1>4. w.kind # "delete" /\ (w.read # NoRow => w.row.payment = w.read.payment)
  BY <1>1 DEF WorkOK, Unmoved
<1> HIDE DEF new
<1>5. LinkOK(new, transactions, payments)
  BY <1>1, <1>3, <1>4 DEF LinkOK, Inserts, PaymentOf
<1>6. Synchronises(new) => Synchronises(w)
  BY <1>3 DEF Synchronises
<1>7. QED BY <1>2, <1>5, <1>6, OwnLinks

LEMMA ReadPaymentLinks ==
  ASSUME RaceInv, LinkInv, NEW s \in Sessions, ReadPayment(s)
  PROVE  LinkInv'
<1> USE NullsAssumption
<1> DEFINE w == work[s]
           row == w.row
<1>1. w # Idle /\ w.step = "payment" /\ UNCHANGED vars
  BY DEF ReadPayment
<1>2. w \in Work /\ WorkOK(w, transactions, payments)
  BY <1>1 DEF RaceInv, RaceTypeOK
<1>3. row \in Transaction
  BY <1>1, <1>2 DEF WorkOK, Work
<1>4. NoPayment \notin Positions
  OBVIOUS
<1>5. ASSUME NEW other, other.payment = row.payment, NothingToPay(s, other) PROVE LinkInv'
  BY <1>1, <1>5, ReadyLinks DEF NothingToPay
<1>6. InReview(row).payment = row.payment
  BY <1>3 DEF InReview, Transaction
<1>7. ASSUME NEW p \in Positions, NEW key, Adopt(s, row, p, key),
             PaymentOf(row) = NoRow \/ p = row.payment,
             payments[p] = NoRow => w.kind = "approve" /\ key = w.transfer
      PROVE  LinkInv'
  <2> DEFINE linked == [row EXCEPT !.payment = p]
             new == Written(row, Type, key)
  <2>1. linked.payment = p /\ new.key = key
    BY <1>3 DEF Transaction, Written
  <2>2. Ready(s, linked, p, new)
    BY <1>7 DEF Adopt
  <2> HIDE DEF linked, new
  <2>3. linked.payment = row.payment \/ PaymentOf(row) = NoRow
    BY <1>7, <2>1
  <2>4. new # NoRow /\ (p = NoPayment \/ payments[p] = NoRow)
          => w.kind = "approve" /\ new.key = w.transfer
    BY <1>4, <1>7, <2>1
  <2>5. QED BY <1>1, <2>2, <2>3, <2>4, ReadyLinks
<1>8. ASSUME Deactivate(s, row) PROVE LinkInv'
  <2>1. CASE PaymentOf(row) = NoRow
    BY <1>5, <1>8, <2>1 DEF Deactivate
  <2>2. CASE PaymentOf(row) # NoRow
    <3>1. row.payment # NoPayment /\ payments[row.payment] # NoRow
      BY <2>2 DEF PaymentOf
    <3>2. Ready(s, row, row.payment, [payments[row.payment] EXCEPT !.included = FALSE])
      BY <1>8, <2>2 DEF Deactivate
    <3>3. QED BY <1>1, <3>1, <3>2, ReadyLinks
  <2>3. QED BY <2>1, <2>2
<1>9. ASSUME Upsert(s, row, w.kind = "approve") PROVE LinkInv'
  <2>1. CASE ~Settled(row)
    BY <1>8, <1>9, <2>1 DEF Upsert
  <2>2. CASE Settled(row) /\ row.money \in Fractional
    BY <1>5, <1>6, <1>9, <2>2 DEF Upsert
  <2>3. CASE Settled(row) /\ row.money \notin Fractional /\ PaymentOf(row) # NoRow
    <3>1. row.payment \in Positions /\ payments[row.payment] # NoRow
      BY <1>3, <2>3 DEF PaymentOf, Transaction
    <3>2. Adopt(s, row, row.payment, PaymentOf(row).key)
      BY <1>9, <2>3 DEF Upsert
    <3>3. QED BY <1>7, <3>1, <3>2
  <2>4. CASE Settled(row) /\ row.money \notin Fractional /\ PaymentOf(row) = NoRow
    <3> DEFINE found == Candidates(transactions, row, Type)
    <3>1. \/ \E p \in Positions : found = {p} /\ Adopt(s, row, p, payments[p].key)
          \/ NothingToPay(s, InReview(row))
          \/ NothingToPay(s, row)
          \/ /\ w.kind = "approve"
             /\ \E p \in Positions : Adopt(s, row, p, w.transfer)
      BY <1>9, <2>4 DEF Upsert
    <3>2. ASSUME NEW p \in Positions, found = {p}, Adopt(s, row, p, payments[p].key)
          PROVE  LinkInv'
      <4>1. payments[p] # NoRow
        BY <3>2 DEF Candidates
      <4>2. QED BY <1>7, <2>4, <3>2, <4>1
    <3>3. QED BY <1>5, <1>6, <1>7, <2>4, <3>1, <3>2
  <2>5. QED BY <2>1, <2>2, <2>3, <2>4
<1>10. QED BY <1>8, <1>9 DEF ReadPayment

\* What another request knows of its link stands.
LEMMA OthersLink ==
  ASSUME NullsAssumption, NEW w \in Work, NEW tab, NEW rows, NEW newtab, NEW newrows,
         LinkOK(w, tab, rows),
         w.read = NoRow /\ w.kind # "delete" => newtab[w.transfer] = tab[w.transfer],
         \A p \in Positions :
           rows[p] = NoRow /\ newrows[p] # NoRow
             => (w.read # NoRow => w.read.payment # p)
  PROVE  LinkOK(w, newtab, newrows)
<1>1. w.read # NoRow => w.read.payment \in Positions \cup {NoPayment}
  BY DEF Work, Transaction
<1>2. QED BY <1>1 DEF LinkOK

\* Only the commit of a request that synchronises makes a row of transactions.
LEMMA NewRows ==
  ASSUME RaceInv, LinkInv, NEW s \in Sessions, Commit(s), NEW t \in Transfers,
         transactions[t] = NoRow, transactions'[t] # NoRow
  PROVE  Synchronises(work[s]) /\ work[s].transfer = t
<1> USE NullsAssumption
<1> DEFINE w == work[s]
<1>1. w # Idle /\ w \in Work /\ WorkOK(w, transactions, payments)
      /\ LinkOK(w, transactions, payments)
  BY DEF Commit, RaceInv, RaceTypeOK, LinkInv
<1>2. transactions \in [Transfers -> Transaction \cup {NoRow}] /\ w.transfer \in Transfers
  BY <1>1 DEF RaceInv, RaceTypeOK, TypeOK, Work
<1>3. CASE Write(s)
  <2>1. w.kind # "delete"
        /\ transactions' = [transactions EXCEPT
             ![w.transfer] = Merged(transactions[w.transfer], w.read, w.row)]
    BY <1>3 DEF Write
  <2>2. w.transfer = t
    BY <1>2, <2>1
  <2>3. w.read = NoRow
    BY <1>1, <2>2 DEF WorkOK
  <2>4. QED BY <1>1, <2>1, <2>2, <2>3 DEF LinkOK, Synchronises
<1>4. CASE WriteDelete(s)
  <2> DEFINE merged == Merged(transactions[w.transfer], w.read, w.row)
             written == IF w.row = NoRow THEN transactions
                        ELSE [transactions EXCEPT ![w.transfer] = merged]
  <2>1. w.kind = "delete"
        /\ transactions'[t] = IF Linked(written[t]) /\ written[t].payment = w.at
                              THEN [written[t] EXCEPT !.payment = NoPayment] ELSE written[t]
    BY <1>4 DEF WriteDelete
  <2>2. w.row # NoRow => transactions[w.transfer] # NoRow
    BY <1>1, <2>1 DEF WorkOK
  <2>3. written[t] = NoRow
    <3> HIDE DEF merged
    <3>1. QED BY <1>2, <2>2
  <2> HIDE DEF written
  <2>4. QED BY <2>1, <2>3 DEF Linked
<1>5. QED BY <1>3, <1>4 DEF Commit

LEMMA DropLinks ==
  ASSUME RaceInv, LinkInv, NEW s \in Sessions, work[s] # Idle, Drop(s),
         \A t \in Transfers : transactions[t] = NoRow /\ transactions'[t] # NoRow
           => Synchronises(work[s]),
         \A p \in Positions :
           payments[p] = NoRow /\ payments'[p] # NoRow => Fresh(p)
  PROVE  LinkInv'
<1> USE NullsAssumption
<1>1. /\ work \in [Sessions -> Work \cup {Idle}] 
      /\ \A x \in Sessions : work'[x] = IF x = s THEN Idle ELSE work[x]
  BY DEF Drop, RaceInv, RaceTypeOK
<1>2. Lone'
  BY <1>1 DEF LinkInv, Lone, Synchronises
<1>3. ASSUME NEW x \in Sessions PROVE LinkOK(work'[x], transactions', payments')
  <2>1. CASE work'[x] = Idle
    BY <2>1 DEF LinkOK
  <2>2. CASE work'[x] # Idle
    <3> DEFINE w == work[x]
    <3>1. work'[x] = w /\ w \in Work /\ x # s /\ w # Idle
      BY <1>1, <2>2
    <3>2. LinkOK(w, transactions, payments)
      BY DEF LinkInv
    <3>3. \A p \in Positions :
            payments[p] = NoRow /\ payments'[p] # NoRow
              => (w.read # NoRow => w.read.payment # p)
      BY <3>1 DEF Fresh
    <3>4. ASSUME w.read = NoRow, w.kind # "delete"
          PROVE  transactions'[w.transfer] = transactions[w.transfer]
      <4>1. Synchronises(w) /\ transactions[w.transfer] = NoRow /\ w.transfer \in Transfers
        BY <3>1, <3>2, <3>4 DEF LinkOK, Synchronises, Work
      <4>2. ~Synchronises(work[s])
        BY <3>1, <4>1 DEF LinkInv, Lone
      <4>3. QED BY <4>1, <4>2
    <3> HIDE DEF w
    <3>5. LinkOK(w, transactions', payments')
      BY <3>1, <3>2, <3>3, <3>4, OthersLink
    <3>6. QED BY <3>1, <3>5
  <2>3. QED BY <2>1, <2>2
<1>4. QED BY <1>2, <1>3 DEF LinkInv

LEMMA CommitLinks ==
  ASSUME RaceInv, LinkInv, NEW s \in Sessions, Commit(s)
  PROVE  LinkInv'
<1> USE NullsAssumption
<1> DEFINE w == work[s]
<1>1. w # Idle /\ Drop(s)
  BY DEF Commit
<1>2. payments \in [Positions -> Payment \cup {NoRow}]
  BY DEF RaceInv, RaceTypeOK, TypeOK
<1>3. ASSUME NEW p \in Positions, payments[p] = NoRow, payments'[p] # NoRow PROVE Fresh(p)
  <2>1. CASE Write(s)
    <3>1. /\ w.at \in Positions
          /\ w.found = NoRow => Fresh(w.at)
          /\ w.found # NoRow => payments[w.at] \in Payment
          /\ payments' = [payments EXCEPT
               ![w.at] = Merged(payments[w.at], w.found, w.payment)]
      BY <1>3, <2>1, CommittedRows DEF Paid
    <3>2. QED BY <1>2, <1>3, <3>1
  <2>2. CASE WriteDelete(s)
    <3>1. payments' = [payments EXCEPT ![w.at] = NoRow]
      BY <2>2 DEF WriteDelete
    <3>2. QED BY <1>2, <1>3, <3>1
  <2>3. QED BY <2>1, <2>2 DEF Commit
<1>4. QED BY <1>1, <1>3, NewRows, DropLinks

LEMMA FailLinks ==
  ASSUME RaceInv, LinkInv, NEW s \in Sessions, Fail(s)
  PROVE  LinkInv'
<1>1. UNCHANGED <<transactions, payments>> /\ work[s] # Idle /\ Drop(s)
  BY DEF Fail, vars
<1>2. QED BY <1>1, DropLinks

LEMMA EnterLinks ==
  ASSUME RaceInv, LinkInv, NEW u \in Users, NEW m \in Money, Enter(u, m)
  PROVE  LinkInv'
<1> USE NullsAssumption
<1>1. /\ UNCHANGED <<transactions, work>>
      /\ \A p \in Positions : payments'[p] # payments[p] => Fresh(p)
  BY DEF Enter, CreatePayment
<1>2. ASSUME NEW x \in Sessions PROVE LinkOK(work[x], transactions', payments')
  <2>1. CASE work[x] = Idle
    BY <2>1 DEF LinkOK
  <2>2. CASE work[x] # Idle
    <3> DEFINE w == work[x]
    <3>1. /\ w \in Work /\ LinkOK(w, transactions, payments)
          /\ \A q \in Positions :
               payments[q] = NoRow /\ payments'[q] # NoRow
                 => (w.read # NoRow => w.read.payment # q)
      BY <1>1, <2>2 DEF RaceInv, RaceTypeOK, LinkInv, Fresh
    <3> HIDE DEF w
    <3>2. LinkOK(w, transactions', payments')
      BY <1>1, <3>1, OthersLink
    <3>3. QED BY <3>2 DEF w
  <2>3. QED BY <2>1, <2>2
<1>3. QED BY <1>1, <1>2 DEF LinkInv, Lone

LEMMA RaceNextLinks == RaceInv /\ LinkInv /\ [RaceNext]_raceVars => LinkInv'
<1> SUFFICES ASSUME RaceInv, LinkInv, [RaceNext]_raceVars PROVE LinkInv'
  OBVIOUS
<1>1. ASSUME NEW s \in Sessions, NEW i \in Items, BeginItem(s, i) PROVE LinkInv'
  BY <1>1, BeginAnyLinks
<1>2. ASSUME NEW s \in Sessions, NEW t \in Transfers,
             BeginDeletion(s, t) \/ BeginApprove(s, t) \/ BeginReject(s, t)
      PROVE  LinkInv'
  BY <1>2, BeginAnyLinks
<1>3. ASSUME NEW s \in Sessions, NEW p \in Positions, BeginDelete(s, p) PROVE LinkInv'
  BY <1>3, BeginDeleteLinks
<1>4. ASSUME NEW s \in Sessions, ReadPayment(s) PROVE LinkInv'
  BY <1>4, ReadPaymentLinks
<1>5. ASSUME NEW s \in Sessions, Commit(s) PROVE LinkInv'
  BY <1>5, CommitLinks
<1>6. ASSUME NEW s \in Sessions, Fail(s) PROVE LinkInv'
  BY <1>6, FailLinks
<1>7. ASSUME NEW u \in Users, NEW m \in Money, Enter(u, m) PROVE LinkInv'
  BY <1>7, EnterLinks
<1>8. CASE UNCHANGED raceVars
  BY <1>8 DEF raceVars, LinkInv, Lone
<1>9. QED BY <1>1, <1>2, <1>3, <1>4, <1>5, <1>6, <1>7, <1>8 DEF RaceNext

LEMMA LinkInvariance == RaceSpec => [](RaceInv /\ LinkInv)
<1>1. RaceSpec => []LinkInv
  BY RaceInitLinks, RaceNextLinks, RaceInvariance, PTL DEF RaceSpec
<1>2. QED BY <1>1, RaceInvariance, PTL

\* A commit takes a payment from a transfer only by a link of its own, over one it has
\* not read.
LEMMA WriteKeepsOwned ==
  ASSUME RaceInv, LinkInv, NEW s \in Sessions, Commit(s), Write(s),
         NEW t \in Transfers, Owned(t), ~(work[s].transfer = t /\ Relinks(work[s]))
  PROVE  Owned(t)'
<1> USE NullsAssumption
<1> DEFINE w == work[s]
           row == Merged(transactions[w.transfer], w.read, w.row)
           new == Merged(payments[w.at], w.found, w.payment)
<1>1. /\ w \in Work /\ w # Idle /\ w.row \in Transaction /\ w.kind # "delete"
      /\ transactions' = [transactions EXCEPT ![w.transfer] = row]
      /\ row \in Transaction
      /\ \/ payments' = payments
         \/ /\ Paid(w) /\ w.payment \in Payment
            /\ w.found = NoRow => payments[w.at] = NoRow /\ Fresh(w.at)
            /\ w.found # NoRow => w.found \in Payment /\ payments[w.at] \in Payment
            /\ payments' = [payments EXCEPT ![w.at] = new]
  <2>1. transactions \in [Transfers -> Transaction \cup {NoRow}]
    BY DEF RaceInv, RaceTypeOK, TypeOK
  <2>2. /\ w \in Work
        /\ transactions' = [transactions EXCEPT ![w.transfer] = row]
        /\ transactions'[w.transfer] \in Transaction
    BY CommittedRows
  <2> HIDE DEF row
  <2>3. transactions'[w.transfer] = row
    BY <2>1, <2>2 DEF Work
  <2>4. QED BY <2>2, <2>3, CommittedRows
<1>2. WorkOK(w, transactions, payments) /\ LinkOK(w, transactions, payments) /\ w.step = "commit"
  BY DEF RaceInv, LinkInv, Commit
<1>3. /\ transactions \in [Transfers -> Transaction \cup {NoRow}]
      /\ payments \in [Positions -> Payment \cup {NoRow}]
  BY DEF RaceInv, RaceTypeOK, TypeOK
<1>4. w.transfer \in Transfers /\ w.read \in Transaction \cup {NoRow}
  BY <1>1 DEF Work
<1>5. w.read # NoRow =>
        /\ transactions[w.transfer] \in Transaction
        /\ row.payment = IF w.row.payment # w.read.payment THEN w.row.payment
                         ELSE transactions[w.transfer].payment
  <2>1. w.read # NoRow => row = [c \in DOMAIN w.row |-> IF w.row[c] # w.read[c] THEN w.row[c]
                                                     ELSE transactions[w.transfer][c]]
    BY DEF Merged
  <2>2. w.read # NoRow => transactions[w.transfer] \in Transaction
    BY <1>1, <1>2, <1>3, <1>4 DEF WorkOK
  <2>3. "payment" \in DOMAIN w.row
    BY <1>1 DEF Transaction
  <2> HIDE DEF row
  <2>4. QED BY <2>1, <2>2, <2>3
<1> SUFFICES ASSUME NEW p \in Positions, payments'[p] # NoRow, payments'[p].key = t
             PROVE  transactions'[t] # NoRow /\ transactions'[t].payment = p
  BY DEF Owned
<1>6. CASE payments[p] # NoRow /\ payments[p].key = t
  <2>1. transactions[t] # NoRow /\ transactions[t].payment = p
    BY <1>6 DEF Owned
  <2>2. CASE w.transfer # t
    <3> HIDE DEF row
    <3>1. QED BY <1>1, <1>3, <1>4, <2>1, <2>2
  <2>3. CASE w.transfer = t
    <3>1. w.read # NoRow
      BY <1>1, <1>2, <2>1, <2>3 DEF LinkOK
    <3>2. w.row.payment = w.read.payment
      <4>1. SUFFICES ASSUME w.row.payment # w.read.payment PROVE FALSE
        OBVIOUS
      <4>2. ~Inserts(w)
        <5>1. Inserts(w) => w.payment.key = t
          BY <1>1, <1>2, <2>3 DEF LinkOK
        <5>2. Inserts(w) => payments[p].key # w.payment.key
          BY <1>6 DEF Commit, Unique
        <5>3. QED BY <1>6, <5>1, <5>2
      <4>3. w.read.payment = p
        BY <2>1, <2>3, <3>1, <4>1, <4>2 DEF Relinks
      <4>4. payments[p] = NoRow
        BY <1>1, <1>2, <3>1, <4>1, <4>3 DEF LinkOK
      <4>5. QED BY <1>6, <4>4
    <3>3. row.payment = p
      BY <1>5, <2>1, <2>3, <3>1, <3>2
    <3> HIDE DEF row
    <3>4. QED BY <1>1, <1>3, <1>4, <2>3, <3>3
  <2>4. QED BY <2>2, <2>3
<1>7. CASE ~(payments[p] # NoRow /\ payments[p].key = t)
  <2>1. /\ Paid(w) /\ w.payment \in Payment
        /\ w.found = NoRow => payments[w.at] = NoRow /\ Fresh(w.at)
        /\ w.found # NoRow => w.found \in Payment /\ payments[w.at] \in Payment
        /\ payments' = [payments EXCEPT ![w.at] = new]
    BY <1>1, <1>7
  <2>2. w.at \in Positions /\ w.row.payment = w.at
    BY <2>1 DEF Paid
  <2>3. p = w.at /\ payments'[p] = new
    <3> HIDE DEF new
    <3>1. QED BY <1>3, <1>7, <2>1, <2>2
  <2>4. CASE w.found # NoRow
    <3>1. new.key = payments[w.at].key
      BY <2>1, <2>4, MergedPayment DEF Paid
    <3> HIDE DEF new
    <3>2. QED BY <1>7, <2>1, <2>3, <2>4, <3>1
  <2>5. CASE w.found = NoRow
    <3>1. new = w.payment /\ Inserts(w)
      BY <2>1, <2>5 DEF Merged, Inserts
    <3>2. w.read # NoRow /\ w.payment.key = w.transfer
      BY <1>1, <1>2, <3>1 DEF LinkOK
    <3>3. w.transfer = t
      <4> HIDE DEF new
      <4>1. QED BY <2>3, <3>1, <3>2
    <3>4. w.read.payment # p
      BY <1>1, <2>1, <2>3, <2>5, <3>2 DEF Fresh
    <3>5. row.payment = p
      BY <1>5, <2>2, <2>3, <3>2, <3>4
    <3> HIDE DEF row
    <3>6. QED BY <1>1, <1>3, <1>4, <3>3, <3>5
  <2>6. QED BY <2>4, <2>5
<1>8. QED BY <1>6, <1>7

\* Deleting a payment takes no other payment from a transfer, unless it was read with
\* the one that is deleted and has another now.
LEMMA DeleteKeepsOwned ==
  ASSUME RaceInv, LinkInv, NEW s \in Sessions, Commit(s), WriteDelete(s),
         NEW t \in Transfers, Owned(t), ~(work[s].transfer = t /\ Relinks(work[s]))
  PROVE  Owned(t)'
<1> USE NullsAssumption
<1> DEFINE w == work[s]
           merged == Merged(transactions[w.transfer], w.read, w.row)
           written == IF w.row = NoRow THEN transactions
                      ELSE [transactions EXCEPT ![w.transfer] = merged]
<1>1. /\ w.kind = "delete"
      /\ payments' = [payments EXCEPT ![w.at] = NoRow]
      /\ transactions' = [x \in Transfers |->
           IF Linked(written[x]) /\ written[x].payment = w.at
           THEN [written[x] EXCEPT !.payment = NoPayment] ELSE written[x]]
  BY DEF WriteDelete
<1>2. w \in Work /\ w # Idle /\ WorkOK(w, transactions, payments)
      /\ LinkOK(w, transactions, payments)
  BY DEF Commit, RaceInv, RaceTypeOK, LinkInv
<1>3. /\ transactions \in [Transfers -> Transaction \cup {NoRow}]
      /\ payments \in [Positions -> Payment \cup {NoRow}]
  BY DEF RaceInv, RaceTypeOK, TypeOK
<1>4. /\ w.transfer \in Transfers /\ w.at \in Positions
      /\ w.read = NoRow <=> w.row = NoRow
      /\ w.read # NoRow => w.read.payment = w.at
      /\ w.row # NoRow => w.row \in Transaction
  BY <1>1, <1>2 DEF Work, WorkOK, LinkOK
<1> SUFFICES ASSUME NEW p \in Positions, payments'[p] # NoRow, payments'[p].key = t
             PROVE  transactions'[t] # NoRow /\ transactions'[t].payment = p
  BY DEF Owned
<1>5. p # w.at /\ payments[p] # NoRow /\ payments[p].key = t
  BY <1>1, <1>3, <1>4
<1>6. transactions[t] # NoRow /\ transactions[t].payment = p
  BY <1>5 DEF Owned
<1>7. written[t] # NoRow /\ written[t].payment = p
  <2>1. CASE w.row = NoRow \/ w.transfer # t
    <3> HIDE DEF merged
    <3>1. QED BY <1>3, <1>4, <1>6, <2>1
  <2>2. CASE w.row # NoRow /\ w.transfer = t
    <3>1. w.read.payment # p
      BY <1>4, <1>5, <2>2
    <3>2. w.row.payment = w.read.payment
      BY <1>1, <1>2, <1>4, <1>6, <2>2, <3>1 DEF Relinks, Inserts, WorkOK
    <3>3. merged \in Transaction
      BY <1>2, <1>3, <1>4, <1>6, <2>2, MergedTransaction DEF Work
    <3>4. merged = [c \in DOMAIN w.row |-> IF w.row[c] # w.read[c] THEN w.row[c]
                                          ELSE transactions[w.transfer][c]]
      BY <1>4, <2>2 DEF Merged
    <3>5. "payment" \in DOMAIN w.row
      BY <1>4, <2>2 DEF Transaction
    <3> HIDE DEF merged
    <3>6. merged.payment = p
      BY <1>6, <2>2, <3>2, <3>4, <3>5
    <3>7. QED BY <1>3, <1>4, <2>2, <3>3, <3>6
  <2>3. QED BY <2>1, <2>2
<1> HIDE DEF written
<1>8. QED BY <1>1, <1>5, <1>7

\* A payment made of a transfer is left behind by nothing but a request that read the
\* transfer before it had that payment and adopts another or unlinks it
\* (zenmoney.py:559-606, balances.py:383-399).
THEOREM OnlyStaleLinksPart == RaceSpec => OnlyRelinkingParts
<1>1. ASSUME RaceInv, LinkInv, [RaceNext]_raceVars, NEW t \in Transfers, Owned(t), ~Owned(t)'
      PROVE  \E s \in Sessions :
               work[s] # Idle /\ work'[s] = Idle /\ work[s].transfer = t /\ Relinks(work[s])
  <2>1. ASSUME NEW s \in Sessions, Commit(s)
        PROVE  work[s] # Idle /\ work'[s] = Idle /\ work[s].transfer = t /\ Relinks(work[s])
    <3>1. work[s] # Idle /\ work'[s] = Idle
      BY <1>1, <2>1 DEF Commit, Drop, RaceInv, RaceTypeOK
    <3>2. work[s].transfer = t /\ Relinks(work[s])
      BY <1>1, <2>1, WriteKeepsOwned, DeleteKeepsOwned DEF Commit
    <3>3. QED BY <1>1, <3>1, <3>2
  <2>2. CASE UNCHANGED <<transactions, payments>>
    BY <1>1, <2>2 DEF Owned
  <2>3. ASSUME NEW u \in Users, NEW m \in Money, Enter(u, m) PROVE FALSE
    <3>1. /\ transactions' = transactions /\ payments \in [Positions -> Payment \cup {NoRow}]
          /\ \E p \in Positions : payments' = [payments EXCEPT
               ![p] = [user |-> u, type |-> Type, money |-> m, key |-> Manual,
                       included |-> TRUE]]
      BY <1>1, <2>3 DEF Enter, CreatePayment, RaceInv, RaceTypeOK, TypeOK
    <3>2. QED BY <1>1, <3>1, NullsAssumption DEF Owned
  <2>4. CASE \E s \in Sessions :
               \/ \E i \in Items : BeginItem(s, i)
               \/ \E x \in Transfers :
                    BeginDeletion(s, x) \/ BeginApprove(s, x) \/ BeginReject(s, x)
               \/ \E p \in Positions : BeginDelete(s, p)
               \/ ReadPayment(s) \/ Fail(s)
    BY <2>2, <2>4 DEF BeginItem, BeginDeletion, BeginApprove, BeginReject, Begin, BeginDelete,
                      ReadPayment, Fail, vars
  <2>5. CASE UNCHANGED raceVars
    BY <2>2, <2>5 DEF raceVars
  <2>6. QED BY <1>1, <2>1, <2>3, <2>4, <2>5 DEF RaceNext
<1>2. RaceInv /\ LinkInv /\ [RaceNext]_raceVars
        => [\A t \in Transfers :
              Owned(t) /\ ~Owned(t)' =>
                \E s \in Sessions :
                  work[s] # Idle /\ work'[s] = Idle /\ work[s].transfer = t
                    /\ Relinks(work[s])]_raceVars
  BY <1>1
<1>3. QED BY <1>2, LinkInvariance, PTL DEF RaceSpec, OnlyRelinkingParts

\* A link is written only where the constraint on payment_id was asked.
LEMMA LinkedNext ==
  RaceInv /\ LinkInv /\ LinksInjective /\ [RaceNext]_raceVars => LinksInjective'
<1> USE NullsAssumption
<1> SUFFICES ASSUME RaceInv, LinkInv, LinksInjective, [RaceNext]_raceVars
             PROVE  LinksInjective'
  OBVIOUS
<1>1. transactions \in [Transfers -> Transaction \cup {NoRow}]
  BY DEF RaceInv, RaceTypeOK, TypeOK
<1>2. CASE UNCHANGED transactions
  BY <1>2 DEF LinksInjective
<1>3. ASSUME NEW s \in Sessions, Commit(s), Write(s) PROVE LinksInjective'
  <2> DEFINE w == work[s]
             row == Merged(transactions[w.transfer], w.read, w.row)
  <2>1. /\ w \in Work /\ w # Idle /\ w.row \in Transaction /\ w.kind # "delete"
        /\ transactions' = [transactions EXCEPT ![w.transfer] = row]
    BY <1>3, CommittedRows
  <2>2. WorkOK(w, transactions, payments) /\ w.step = "commit" /\ Unique(w)
    BY <1>3, <2>1 DEF RaceInv, Commit
  <2>3. w.transfer \in Transfers
    BY <2>1 DEF Work
  <2>4. CASE w.read # NoRow /\ w.row.payment = w.read.payment
    <3>1. row.payment = transactions[w.transfer].payment /\ transactions[w.transfer] # NoRow
      <4>1. row = [c \in DOMAIN w.row |-> IF w.row[c] # w.read[c] THEN w.row[c]
                                          ELSE transactions[w.transfer][c]]
        BY <2>4 DEF Merged
      <4>2. "payment" \in DOMAIN w.row
        BY <2>1 DEF Transaction
      <4> HIDE DEF row
      <4>3. row.payment = transactions[w.transfer].payment
        BY <2>4, <4>1, <4>2
      <4>4. QED BY <2>1, <2>2, <2>4, <4>3 DEF WorkOK
    <3> HIDE DEF row
    <3>2. \A x \in Transfers : transactions'[x] = IF x = w.transfer THEN row ELSE transactions[x]
      BY <1>1, <2>1, <2>3
    <3>3. QED BY <3>1, <3>2 DEF LinksInjective, Linked
  <2>5. CASE w.read = NoRow \/ w.row.payment # w.read.payment
    <3>1. row.payment = w.row.payment
      <4>1. CASE w.read = NoRow
        BY <4>1 DEF Merged
      <4>2. CASE w.read # NoRow
        <5>1. row = [c \in DOMAIN w.row |-> IF w.row[c] # w.read[c] THEN w.row[c]
                                            ELSE transactions[w.transfer][c]]
          BY <4>2 DEF Merged
        <5>2. "payment" \in DOMAIN w.row
          BY <2>1 DEF Transaction
        <5> HIDE DEF row
        <5>3. QED BY <2>5, <4>2, <5>1, <5>2
      <4>3. QED BY <4>1, <4>2
    <3> HIDE DEF row
    <3>2. \A x \in Transfers : transactions'[x] = IF x = w.transfer THEN row ELSE transactions[x]
      BY <1>1, <2>1, <2>3
    <3>3. CASE w.row.payment = NoPayment
      BY <3>1, <3>2, <3>3 DEF LinksInjective, Linked
    <3>4. CASE w.row.payment # NoPayment
      <4>1. Links(w) /\ w.at = w.row.payment
        <5>1. Links(w)
          BY <2>1, <2>5, <3>4 DEF Links
        <5>2. Paid(w)
          BY <2>1, <2>2, <2>5, <3>4 DEF WorkOK, Unpaid, Unmoved
        <5>3. QED BY <5>1, <5>2 DEF Paid
      <4>2. \A x \in Transfers \ {w.transfer} :
              Linked(transactions[x]) => transactions[x].payment # w.at
        BY <2>2, <4>1 DEF Unique
      <4>3. QED BY <3>1, <3>2, <4>1, <4>2 DEF LinksInjective, Linked
    <3>5. QED BY <3>3, <3>4
  <2>6. QED BY <2>4, <2>5
<1>4. ASSUME NEW s \in Sessions, Commit(s), WriteDelete(s) PROVE LinksInjective'
  <2> DEFINE w == work[s]
             merged == Merged(transactions[w.transfer], w.read, w.row)
             written == IF w.row = NoRow THEN transactions
                        ELSE [transactions EXCEPT ![w.transfer] = merged]
  <2>1. /\ w.kind = "delete"
        /\ transactions' = [x \in Transfers |->
             IF Linked(written[x]) /\ written[x].payment = w.at
             THEN [written[x] EXCEPT !.payment = NoPayment] ELSE written[x]]
    BY <1>4 DEF WriteDelete
  <2>2. w \in Work /\ w # Idle /\ WorkOK(w, transactions, payments)
        /\ LinkOK(w, transactions, payments)
    BY <1>4 DEF Commit, RaceInv, RaceTypeOK, LinkInv
  <2>3. /\ w.transfer \in Transfers /\ w.at \in Positions
        /\ w.row # NoRow => /\ w.read # NoRow /\ w.read.payment = w.at
                            /\ w.row.payment = NoPayment /\ w.row \in Transaction
                            /\ w.read \in Transaction
                            /\ transactions[w.transfer] # NoRow
    BY <2>1, <2>2 DEF Work, WorkOK, LinkOK
  <2>4. w.row # NoRow => merged \in Transaction /\ merged.payment = NoPayment
    <3>1. w.row # NoRow => merged \in Transaction
      BY <1>1, <2>3, MergedTransaction
    <3>2. w.row # NoRow =>
            /\ merged = [c \in DOMAIN w.row |-> IF w.row[c] # w.read[c] THEN w.row[c]
                                               ELSE transactions[w.transfer][c]]
            /\ "payment" \in DOMAIN w.row
      BY <2>3 DEF Merged, Transaction
    <3> HIDE DEF merged
    <3>3. QED BY <2>3, <3>1, <3>2
  <2>5. ASSUME NEW x \in Transfers
        PROVE  /\ written[x] \in Transaction \cup {NoRow}
               /\ Linked(written[x]) => Linked(transactions[x])
                                        /\ written[x].payment = transactions[x].payment
    <3> HIDE DEF merged
    <3>1. written[x] = IF w.row # NoRow /\ x = w.transfer THEN merged ELSE transactions[x]
      BY <1>1, <2>3
    <3> HIDE DEF written
    <3>2. QED BY <1>1, <2>4, <3>1 DEF Linked
  <2>6. ASSUME NEW x \in Transfers, Linked(transactions'[x])
        PROVE  Linked(transactions[x]) /\ transactions'[x].payment = transactions[x].payment
    <3> HIDE DEF written
    <3>1. CASE Linked(written[x]) /\ written[x].payment = w.at
      <4>1. transactions'[x].payment = NoPayment
        BY <2>1, <2>5, <3>1 DEF Linked, Transaction
      <4>2. QED BY <2>6, <4>1 DEF Linked
    <3>2. CASE ~(Linked(written[x]) /\ written[x].payment = w.at)
      BY <2>1, <2>5, <2>6, <3>2
    <3>3. QED BY <3>1, <3>2
  <2>7. QED BY <2>6 DEF LinksInjective
<1>5. CASE \E s \in Sessions :
             \/ \E i \in Items : BeginItem(s, i)
             \/ \E t \in Transfers :
                  BeginDeletion(s, t) \/ BeginApprove(s, t) \/ BeginReject(s, t)
             \/ \E p \in Positions : BeginDelete(s, p)
             \/ ReadPayment(s) \/ Fail(s)
  BY <1>2, <1>5 DEF BeginItem, BeginDeletion, BeginApprove, BeginReject, Begin, BeginDelete,
                    ReadPayment, Fail, vars
<1>6. ASSUME NEW u \in Users, NEW m \in Money, Enter(u, m) PROVE LinksInjective'
  BY <1>2, <1>6 DEF Enter, CreatePayment
<1>7. CASE UNCHANGED raceVars
  BY <1>2, <1>7 DEF raceVars
<1>8. QED BY <1>3, <1>4, <1>5, <1>6, <1>7 DEF RaceNext, Commit

\* No payment is linked to two transfers, however requests overlap: the constraint on
\* payment_id is asked whenever a link changes, and a stale row writes the link only
\* when it has changed it (zenmoney.py:561-587, entities.py:232).
THEOREM LinksStayApartInRaces == RaceSpec => []LinksInjective
<1>1. RaceInit => LinksInjective
  BY DEF RaceInit, LinksInjective, Linked
<1>2. QED BY <1>1, LinkedNext, LinkInvariance, PTL DEF RaceSpec

=============================================================================
