---------------------------- MODULE ZenMoneyRaces ----------------------------
(***************************************************************************)
(* Requests of ZenMoneyPayments that overlap.  Each runs in a READ         *)
(* COMMITTED session: it reads a transaction, later its payment, and at    *)
(* the commit SQLAlchemy writes the columns whose values it changed, over  *)
(* whatever others have committed meanwhile.  Only synchronisations wait   *)
(* for each other (FOR UPDATE on the settings, zenmoney.py:740-752); one   *)
(* here brings a single entry of the diff.                                 *)
(*                                                                         *)
(* The settings and the learned rules stay as they are, so assigning and   *)
(* blacklisting, which change them, are left out, and retrying with them:  *)
(* they change the columns of the transaction and its payment that         *)
(* approving and rejecting change.  Approving everything that is matched   *)
(* does to each transaction what approving it does.                        *)
(***************************************************************************)
EXTENDS ZenMoneyPayments

CONSTANTS
  Sessions,
  Account,       \* the configured account
  Idle           \* a session without a request

VARIABLE work    \* what the request of a session has read and will write

raceVars == <<transactions, payments, configs, blacklist, rules, work>>

\* row is the transaction as read and as it will be, payment the row at position at.
Work ==
  [kind : {"item", "deletion", "approve", "reject", "delete"},
   step : {"payment", "commit"},
   transfer : Transfers,
   read : Transaction \cup {NoRow}, row : Transaction \cup {NoRow},
   at : Positions \cup {NoPayment},
   found : Payment \cup {NoRow}, payment : Payment \cup {NoRow}]

ASSUME RaceAssumption ==
  /\ Account \in Accounts
  /\ PaymentTypes # {}
  /\ Idle \notin Work

RaceTypeOK == TypeOK /\ work \in [Sessions -> Work \cup {Idle}]

RaceInit ==
  /\ transactions = [t \in Transfers |-> NoRow]
  /\ payments = [p \in Positions |-> NoRow]
  /\ configs = [a \in Accounts |-> IF a = Account THEN CHOOSE y \in PaymentTypes : TRUE
                                   ELSE NoType]
  /\ blacklist = [a \in Accounts |-> {}]
  /\ rules = [q \in Patterns |-> NoUser]
  /\ work = [s \in Sessions |-> Idle]

Type == configs[Account]

-----------------------------------------------------------------------------
(* The transaction is read and its new columns are worked out *)

Begin(s, kind, t, read, row) ==
  /\ work[s] = Idle
  /\ work' = [work EXCEPT ![s] =
       [kind |-> kind, step |-> "payment", transfer |-> t, read |-> read, row |-> row,
        at |-> NoPayment, found |-> NoRow, payment |-> NoRow]]
  /\ UNCHANGED vars

Syncing == \E s \in Sessions : work[s] # Idle /\ work[s].kind \in {"item", "deletion"}

BeginItem(s, i) ==
  /\ ~Syncing
  /\ should_process(i, Account)
  /\ Begin(s, "item", i.id, transactions[i.id], Judged(Received(i, Account), Account))

BeginDeletion(s, t) ==
  /\ ~Syncing
  /\ transactions[t] # NoRow
  /\ Begin(s, "deletion", t, transactions[t],
           [transactions[t] EXCEPT !.deleted = TRUE, !.status = "rejected", !.user = NoUser])

BeginApprove(s, t) ==
  /\ transactions[t] # NoRow
  /\ transactions[t].status = "matched" /\ transactions[t].user # NoUser
  /\ Begin(s, "approve", t, transactions[t], transactions[t])

BeginReject(s, t) ==
  /\ transactions[t] # NoRow
  /\ Begin(s, "reject", t, transactions[t],
           [transactions[t] EXCEPT !.status = "rejected", !.user = NoUser,
                                   !.source = "manual"])

\* delete_payment: the payment and the transaction that is linked to it, if any.
BeginDelete(s, p) ==
  /\ work[s] = Idle
  /\ payments[p] # NoRow
  /\ \E t \in Transfers :
       LET r == transactions[t]
           linked == Linked(r) /\ r.payment = p
       IN  /\ linked \/ \A x \in Transfers : ~(Linked(transactions[x])
                                                /\ transactions[x].payment = p)
           /\ work' = [work EXCEPT ![s] =
                [kind |-> "delete", step |-> "commit", transfer |-> t,
                 read |-> IF linked THEN r ELSE NoRow,
                 row |-> IF linked
                         THEN [r EXCEPT !.payment = NoPayment, !.user = NoUser,
                                        !.status = "rejected", !.source = "manual"]
                         ELSE NoRow,
                 at |-> p, found |-> payments[p], payment |-> NoRow]]
  /\ UNCHANGED vars

-----------------------------------------------------------------------------
(* The payment is read: _upsert_payment and _deactivate_payment *)

Ready(s, row, p, payment) ==
  work' = [work EXCEPT ![s].step = "commit", ![s].row = row, ![s].at = p,
                       ![s].found = IF p = NoPayment THEN NoRow ELSE payments[p],
                       ![s].payment = payment]

NothingToPay(s, row) == Ready(s, row, NoPayment, NoRow)

PaymentOf(row) == IF row.payment = NoPayment THEN NoRow ELSE payments[row.payment]

\* Fault: the payment stays counted.
Deactivate_none(s, row) == NothingToPay(s, row)

Deactivate(s, row) ==
  IF PaymentOf(row) = NoRow THEN NothingToPay(s, row)
  ELSE Ready(s, row, row.payment, [payments[row.payment] EXCEPT !.included = FALSE])

Adopt(s, row, p, key) == Ready(s, [row EXCEPT !.payment = p], p, Written(row, Type, key))

Upsert(s, row, create) ==
  LET found == Candidates(transactions, row, Type)
  IN  \/ ~Settled(row) /\ Deactivate(s, row)
      \/ /\ Settled(row) /\ row.money \in Fractional
         /\ NothingToPay(s, InReview(row))
      \/ /\ Settled(row) /\ row.money \notin Fractional
         /\ \/ /\ PaymentOf(row) # NoRow
               /\ Adopt(s, row, row.payment, PaymentOf(row).key)
            \/ /\ PaymentOf(row) = NoRow
               /\ \/ \E p \in Positions : found = {p} /\ Adopt(s, row, p, payments[p].key)
                  \/ /\ \E p, q \in found : p # q
                     /\ NothingToPay(s, InReview(row))
                  \/ found = {} /\ ~create /\ NothingToPay(s, row)
                  \/ /\ found = {} /\ create
                     /\ \E p \in Positions :
                          IsNextPosition(p) /\ Adopt(s, row, p, work[s].transfer)

ReadPayment(s) ==
  LET w == work[s]
  IN  /\ w # Idle /\ w.step = "payment"
      /\ \/ /\ w.row.status = "matched"
            /\ Upsert(s, w.row, w.kind = "approve")
         \/ /\ w.row.status # "matched"
            /\ Deactivate(s, w.row)
      /\ UNCHANGED vars

-----------------------------------------------------------------------------
(* The commit *)

\* Fault: all columns of the row are written.
Merged_whole(now, read, new) == new

\* UPDATE of the columns the request changed; INSERT of a new row.
Merged(now, read, new) ==
  IF read = NoRow THEN new
  ELSE [c \in DOMAIN new |-> IF new[c] # read[c] THEN new[c] ELSE now[c]]

Inserts(w) == w.payment # NoRow /\ w.found = NoRow

Links(w) ==
  /\ w.kind # "delete"
  /\ w.row.payment # NoPayment
  /\ w.read = NoRow \/ w.read.payment # w.row.payment

\* Fault: neither source_key nor legacy_position is unique.
Unique_payments(w) ==
  Links(w) => \A t \in Transfers \ {w.transfer} :
                Linked(transactions[t]) => transactions[t].payment # w.at

\* The unique constraints on legacy_position, source_key and payment_id.
Unique(w) ==
  /\ Inserts(w) => /\ payments[w.at] = NoRow
                   /\ \A p \in Positions : payments[p] # NoRow => payments[p].key # w.payment.key
  /\ Links(w) => \A t \in Transfers \ {w.transfer} :
                   Linked(transactions[t]) => transactions[t].payment # w.at

\* A row that is updated, or newly referred to, still exists.
Present(w) ==
  w.found # NoRow /\ w.payment # NoRow /\ (w.payment # w.found \/ Links(w))
    => payments[w.at] # NoRow

\* A position stands for a row, whose id is never used again: the model does not use
\* the position again either while a request knows the old row.
Fresh(p) ==
  \A s \in Sessions :
    work[s] # Idle => /\ work[s].at = p => work[s].found = NoRow
                      /\ work[s].read # NoRow => work[s].read.payment # p

Drop(s) == work' = [work EXCEPT ![s] = Idle]

Write(s) ==
  LET w == work[s]
  IN  /\ w.kind # "delete"
      /\ transactions' = [transactions EXCEPT
           ![w.transfer] = Merged(transactions[w.transfer], w.read, w.row)]
      /\ payments' = IF w.payment = NoRow \/ (w.found # NoRow /\ payments[w.at] = NoRow)
                     THEN payments
                     ELSE [payments EXCEPT
                            ![w.at] = Merged(payments[w.at], w.found, w.payment)]

\* DELETE: a link made meanwhile is set to NULL by its foreign key.
WriteDelete(s) ==
  LET w == work[s]
      written == IF w.row = NoRow THEN transactions
                 ELSE [transactions EXCEPT
                        ![w.transfer] = Merged(transactions[w.transfer], w.read, w.row)]
  IN  /\ w.kind = "delete"
      /\ payments' = [payments EXCEPT ![w.at] = NoRow]
      /\ transactions' = [t \in Transfers |->
           IF Linked(written[t]) /\ written[t].payment = w.at
           THEN [written[t] EXCEPT !.payment = NoPayment] ELSE written[t]]

Commit(s) ==
  LET w == work[s]
  IN  /\ w # Idle /\ w.step = "commit"
      /\ Unique(w) /\ Present(w)
      /\ Inserts(w) => Fresh(w.at)
      /\ Write(s) \/ WriteDelete(s)
      /\ Drop(s)
      /\ UNCHANGED <<configs, blacklist, rules>>

\* A constraint refuses the commit, a row is gone, two requests deadlock, or the
\* process dies: nothing is written.
Fail(s) ==
  /\ work[s] # Idle
  /\ Drop(s)
  /\ UNCHANGED vars

\* A payment is entered by hand.
Enter(u, m) ==
  /\ CreatePayment(u, Type, m)
  /\ \A p \in Positions : payments'[p] # payments[p] => Fresh(p)
  /\ UNCHANGED work

RaceNext ==
  \/ \E s \in Sessions :
       \/ \E i \in Items : BeginItem(s, i)
       \/ \E t \in Transfers :
            BeginDeletion(s, t) \/ BeginApprove(s, t) \/ BeginReject(s, t)
       \/ \E p \in Positions : BeginDelete(s, p)
       \/ ReadPayment(s) \/ Commit(s) \/ Fail(s)
  \/ \E u \in Users, m \in Money : Enter(u, m)

RaceSpec == RaceInit /\ [][RaceNext]_raceVars

-----------------------------------------------------------------------------
(* Properties *)

\* However requests overlap (two approvals, an approval of one and of all, an
\* approval and a synchronisation that adopts), one payment is created per transfer
\* (zenmoney.py:590-605, unique source_key).
CreatedAtMostOnce ==
  \A p, q \in Positions :
    /\ payments[p] # NoRow /\ payments[q] # NoRow
    /\ payments[p].key \in Transfers /\ payments[p].key = payments[q].key
    => p = q

\* An amount that is not an integer is left aside: its payment stays counted in
\* review, in the requests that do not overlap as well.
Consistent(t) ==
  \A p \in Positions :
    Counts(t, p) =>
      /\ ~transactions[t].hold /\ ~transactions[t].deleted
      /\ transactions[t].money \notin Fractional =>
           /\ transactions[t].status = "matched"
           /\ transactions[t].user = payments[p].user
           /\ transactions[t].money = payments[p].money

\* What a request read is still so when it commits.
Undisturbed(w) ==
  /\ transactions[w.transfer] = w.read
  /\ w.at # NoPayment => payments[w.at] = w.found

\* A request whose reads still hold at its commit leaves its transfer consistent,
\* whatever earlier overlaps had made of it: the damage of a race lasts until the
\* transfer is looked at again (zenmoney.py:550-552, 709-714, 894-899).
UndisturbedHeals ==
  [][\A s \in Sessions, t \in Transfers :
       /\ work[s] # Idle /\ work[s].step = "commit" /\ work[s].kind # "delete"
       /\ work[s].transfer = t /\ Undisturbed(work[s])
       /\ work'[s] = Idle /\ <<transactions, payments>>' # <<transactions, payments>>
       => Consistent(t)']_raceVars

\* The payments made of transfer t are linked to t.
Owned(t) ==
  \A p \in Positions :
    payments[p] # NoRow /\ payments[p].key = t
      => transactions[t] # NoRow /\ transactions[t].payment = p

\* Request w changes the link of its transaction, and did not read the one it has now;
\* it takes a payment that was there, or none.
Relinks(w) ==
  /\ w.read # NoRow /\ ~Inserts(w)
  /\ w.read.payment # transactions[w.transfer].payment
  /\ w.row.payment # w.read.payment

\* A payment made of a transfer loses it, and stays counted beside the next one, only by
\* a request that read the transfer before it had this payment and adopts another, or
\* unlinks it.  Two approvals never make a payment each, and rejections, synchronisations
\* and deletions that overlap with an approval in any other way leave the link, so that
\* the next decision takes the payment back (zenmoney.py:536-540, 559-606;
\* balances.py:383-399).
OnlyRelinkingParts ==
  [][\A t \in Transfers :
       Owned(t) /\ ~Owned(t)' =>
         \E s \in Sessions :
           work[s] # Idle /\ work'[s] = Idle /\ work[s].transfer = t /\ Relinks(work[s])]_raceVars

=============================================================================
