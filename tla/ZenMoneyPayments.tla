-------------------------- MODULE ZenMoneyPayments --------------------------
(***************************************************************************)
(* The bank transfers read from ZenMoney, the decisions an editor takes on *)
(* them, and the payments of the balance they end in.  Source:             *)
(* backend/app/services/zenmoney.py, and create_payment and delete_payment *)
(* of backend/app/services/balances.py.                                    *)
(*                                                                         *)
(* Every action is one request (or one pass of the background task) run to *)
(* its commit without another request in between.  The two handlers that   *)
(* loop are given entry by entry: SyncItem and SyncDeletion are            *)
(* _sync_account on a diff with one entry, ApproveMatched is               *)
(* approve_all_matched on one transaction.  What these loops read before   *)
(* they start (users, blacklist, rules, settings) they do not write, and   *)
(* no entry reads what another one assigned to its own transaction, so a   *)
(* longer diff, or list, is a sequence of these steps.                     *)
(***************************************************************************)
EXTENDS Naturals

CONSTANTS
  Users,          \* participants
  Accounts,       \* bank accounts ZenMoney returns for the token
  PaymentTypes,   \* the enabled payment types
  Transfers,      \* ZenMoney transaction ids
  Senders,        \* payee, original payee and comment of a transfer, together
  Patterns,       \* texts an editor's decision can leave behind
  Money,          \* date and amount of a transfer, together
  Fractional,     \* the members of Money whose amount is not an integer
  MaxPosition,    \* bound: the largest legacy_position a payment may get
  RulePattern,    \* the pattern _remember_match derives from a sender
  RuleCovers,     \* the senders a learned rule with this pattern matches
  Label,          \* the pattern the blacklist decision derives from a sender
  Blocks,         \* the senders a blacklist entry with this pattern blocks
  ContactUsers,   \* the users one of whose contacts occurs in the sender
  NameUsers,      \* the users whose name, or its reversal, occurs in it
  NoUser, NoType, NoPattern, NoPayment,    \* SQL NULL in the columns
  NoRow,          \* no row in the table
  Manual          \* the kind of source_key create_payment writes

Positions == 0 .. MaxPosition

ASSUME ConstantsAssumption ==
  /\ MaxPosition \in Nat
  /\ Fractional \subseteq Money
  /\ RulePattern \in [Senders -> Patterns \cup {NoPattern}]
  /\ RuleCovers \in [Patterns -> SUBSET Senders]
  /\ Label \in [Senders -> Patterns]
  /\ Blocks \in [Patterns -> SUBSET Senders]
  /\ ContactUsers \in [Senders -> SUBSET Users]
  /\ NameUsers \in [Senders -> SUBSET Users]

VARIABLES
  transactions,   \* table zenmoney_transactions, keyed by zenmoney_id
  payments,       \* table payments, keyed by legacy_position
  configs,        \* table zenmoney_account_configs: the payment type
  blacklist,      \* table zenmoney_blacklist_entries, by account
  rules           \* table zenmoney_match_rules: the user, by pattern

vars == <<transactions, payments, configs, blacklist, rules>>

Statuses == {"matched", "review", "blacklisted", "rejected"}

Transaction ==
  [account : Accounts, sender : Senders, money : Money,
   hold : BOOLEAN, deleted : BOOLEAN, status : Statuses,
   source : {"automatic", "manual"},
   user : Users \cup {NoUser}, payment : Positions \cup {NoPayment}]

\* key is the source_key column: the transfer a payment was created from.
Payment ==
  [user : Users, type : PaymentTypes, money : Money \ Fractional,
   key : Transfers \cup {Manual}, included : BOOLEAN]

\* The NULLs and the absent row are told apart from values and rows.
ASSUME NullsAssumption ==
  /\ NoUser \notin Users
  /\ NoType \notin PaymentTypes
  /\ NoPattern \notin Patterns
  /\ NoPayment \notin Positions
  /\ Manual \notin Transfers
  /\ NoRow \notin Transaction
  /\ NoRow \notin Payment

TypeOK ==
  /\ transactions \in [Transfers -> Transaction \cup {NoRow}]
  /\ payments \in [Positions -> Payment \cup {NoRow}]
  /\ configs \in [Accounts -> PaymentTypes \cup {NoType}]
  /\ blacklist \in [Accounts -> SUBSET Patterns]
  /\ rules \in [Patterns -> Users \cup {NoUser}]

Init ==
  /\ transactions = [t \in Transfers |-> NoRow]
  /\ payments = [p \in Positions |-> NoRow]
  /\ configs = [a \in Accounts |-> NoType]
  /\ blacklist = [a \in Accounts |-> {}]
  /\ rules = [q \in Patterns |-> NoUser]

-----------------------------------------------------------------------------
(* Matching a sender with a participant *)

RuleUsers(s, learned) ==
  {learned[q] : q \in {r \in Patterns : learned[r] # NoUser /\ s \in RuleCovers[r]}}

\* Learned rules win over contacts, and contacts over names.
SenderUsers(s, learned) ==
  IF RuleUsers(s, learned) # {} THEN RuleUsers(s, learned)
  ELSE IF ContactUsers[s] # {} THEN ContactUsers[s]
  ELSE NameUsers[s]

match_sender(s, blocked, learned) ==
  IF \E q \in blocked : s \in Blocks[q]
  THEN [status |-> "blacklisted", user |-> NoUser]
  ELSE IF \E u \in Users : SenderUsers(s, learned) = {u}
  THEN [status |-> "matched",
        user   |-> CHOOSE u \in Users : SenderUsers(s, learned) = {u}]
  ELSE [status |-> "review", user |-> NoUser]

Rematched(r, blocked, learned) ==
  LET found == match_sender(r.sender, blocked, learned)
  IN  [r EXCEPT !.status = found.status, !.user = found.user]

\* The transactions _rematch_pending selects, in the table tab.
Pending(tab, t, a) ==
  /\ tab[t] # NoRow
  /\ tab[t].account = a
  /\ tab[t].payment = NoPayment
  /\ tab[t].source = "automatic"
  /\ ~tab[t].deleted
  /\ ~tab[t].hold

\* Fault: the transactions that wait are left as they are.
rematch_pending_none(tab, a, blocked, learned) == tab

rematch_pending(tab, a, blocked, learned) ==
  [t \in Transfers |->
     IF Pending(tab, t, a) THEN Rematched(tab[t], blocked, learned) ELSE tab[t]]

\* The rule table after _remember_match.
remember_match(s, u) ==
  [q \in Patterns |-> IF q = RulePattern[s] THEN u ELSE rules[q]]

-----------------------------------------------------------------------------
(* Writing the payment of a transaction.  Each of these fixes payments',   *)
(* and transactions' from tab, the table the handler has built so far.     *)

Linked(r) == r # NoRow /\ r.payment # NoPayment

Settled(r) == r.user # NoUser /\ ~r.hold /\ ~r.deleted

LinkedPositions(tab) == {tab[t].payment : t \in {x \in Transfers : Linked(tab[x])}}

\* Fault: payments that already belong to a transaction are candidates.
Candidates_taken(tab, r, type) ==
  {p \in Positions :
     /\ payments[p] # NoRow
     /\ payments[p].user = r.user
     /\ payments[p].type = type
     /\ payments[p].money = r.money}

Candidates(tab, r, type) ==
  {p \in Positions \ LinkedPositions(tab) :
     /\ payments[p] # NoRow
     /\ payments[p].user = r.user
     /\ payments[p].type = type
     /\ payments[p].money = r.money}

Written(r, type, key) ==
  [user |-> r.user, type |-> type, money |-> r.money, key |-> key, included |-> TRUE]

InReview(r) == [r EXCEPT !.status = "review", !.user = NoUser]

\* max(legacy_position) + 1, or 0 in an empty table.
IsNextPosition(p) ==
  /\ p \in Positions
  /\ \A x \in Positions : payments[x] # NoRow => x < p
  /\ p > 0 => payments[p - 1] # NoRow

\* Fault: the link is cleared with the flag.
deactivate_payment_unlinking(tab, t) ==
  /\ transactions' = [tab EXCEPT ![t].payment = NoPayment]
  /\ payments' = IF tab[t].payment = NoPayment THEN payments
                 ELSE [payments EXCEPT ![tab[t].payment].included = FALSE]

deactivate_payment(tab, t) ==
  /\ transactions' = tab
  /\ payments' = IF tab[t].payment = NoPayment THEN payments
                 ELSE [payments EXCEPT ![tab[t].payment].included = FALSE]

Link(tab, t, p, type, key) ==
  /\ transactions' = [tab EXCEPT ![t].payment = p]
  /\ payments' = [payments EXCEPT ![p] = Written(tab[t], type, key)]

upsert_unlinked(tab, t, type, create) ==
  LET found == Candidates(tab, tab[t], type)
  IN  \/ \E p \in Positions : found = {p} /\ Link(tab, t, p, type, payments[p].key)
      \/ /\ \E p, q \in found : p # q
         /\ transactions' = [tab EXCEPT ![t] = InReview(tab[t])]
         /\ UNCHANGED payments
      \/ /\ found = {} /\ ~create
         /\ transactions' = tab
         /\ UNCHANGED payments
      \/ /\ found = {} /\ create
         /\ \E p \in Positions : IsNextPosition(p) /\ Link(tab, t, p, type, t)

\* Fault: the amount is taken as it is.
upsert_payment_unrounded(tab, t, type, create) ==
  LET r == tab[t]
  IN  \/ ~Settled(r) /\ deactivate_payment(tab, t)
      \/ /\ Settled(r)
         /\ IF Linked(r)
            THEN Link(tab, t, r.payment, type, payments[r.payment].key)
            ELSE upsert_unlinked(tab, t, type, create)

upsert_payment(tab, t, type, create) ==
  LET r == tab[t]
  IN  \/ ~Settled(r) /\ deactivate_payment(tab, t)
      \/ /\ Settled(r) /\ r.money \in Fractional
         /\ transactions' = [tab EXCEPT ![t] = InReview(r)]
         /\ UNCHANGED payments
      \/ /\ Settled(r) /\ r.money \notin Fractional
         /\ IF Linked(r)
            THEN Link(tab, t, r.payment, type, payments[r.payment].key)
            ELSE upsert_unlinked(tab, t, type, create)

-----------------------------------------------------------------------------
(* Synchronisation with ZenMoney *)

\* An entry of diff["transaction"].  incoming is is_selected_account_income
\* for the account that is being synchronised.
Items ==
  [id : Transfers, incoming : BOOLEAN, sender : Senders, money : Money,
   hold : BOOLEAN, deleted : BOOLEAN]

should_process(i, a) ==
  \/ i.incoming
  \/ transactions[i.id] # NoRow /\ transactions[i.id].account = a

\* Fault: a received transaction starts anew.
Received_anew(i, a) ==
  [account |-> a, sender |-> i.sender, money |-> i.money, hold |-> i.hold,
   deleted |-> i.deleted \/ ~i.incoming, status |-> "review",
   source |-> "automatic", user |-> NoUser, payment |-> NoPayment]

\* The transaction with the columns the entry carries.
Received(i, a) ==
  LET old == transactions[i.id]
      row == IF old # NoRow THEN old
             ELSE [account |-> a, sender |-> i.sender, money |-> i.money,
                   hold |-> FALSE, deleted |-> FALSE, status |-> "review",
                   source |-> "automatic", user |-> NoUser, payment |-> NoPayment]
  IN  [row EXCEPT !.account = a, !.sender = i.sender, !.money = i.money,
                  !.hold = i.hold, !.deleted = i.deleted \/ ~i.incoming]

\* Fault: a manual decision without a user is forgotten.
Judged_forgetful(r, a) ==
  IF r.deleted THEN [r EXCEPT !.status = "rejected", !.user = NoUser]
  ELSE IF r.hold THEN [r EXCEPT !.status = "review"]
  ELSE IF r.source = "manual" /\ r.user # NoUser THEN [r EXCEPT !.status = "matched"]
  ELSE Rematched(r, blacklist[a], rules)

\* Status and user of a received transaction.
Judged(r, a) ==
  IF r.deleted THEN [r EXCEPT !.status = "rejected", !.user = NoUser]
  ELSE IF r.source = "manual" /\ r.user = NoUser THEN [r EXCEPT !.status = "rejected"]
  ELSE IF r.hold THEN [r EXCEPT !.status = "review"]
  ELSE IF r.source = "manual" THEN [r EXCEPT !.status = "matched"]
  ELSE Rematched(r, blacklist[a], rules)

\* Fault: a payment that exists is not written again.
settle_once(tab, t, type) ==
  IF tab[t].status = "matched"
  THEN IF Linked(tab[t]) THEN transactions' = tab /\ UNCHANGED payments
       ELSE upsert_payment(tab, t, type, FALSE)
  ELSE deactivate_payment(tab, t)

\* What every handler does with the payment once the status is settled.
settle(tab, t, type) ==
  IF tab[t].status = "matched" THEN upsert_payment(tab, t, type, FALSE)
  ELSE deactivate_payment(tab, t)

SyncItem(a, i) ==
  /\ configs[a] # NoType
  /\ should_process(i, a)
  /\ settle([transactions EXCEPT ![i.id] = Judged(Received(i, a), a)], i.id, configs[a])
  /\ UNCHANGED <<configs, blacklist, rules>>

\* Fault: the payment of a deleted transaction is left alone.
SyncDeletion_counted(a, t) ==
  /\ configs[a] # NoType
  /\ transactions[t] # NoRow
  /\ transactions[t].account = a
  /\ transactions' = [transactions EXCEPT
       ![t].deleted = TRUE, ![t].status = "rejected", ![t].user = NoUser]
  /\ UNCHANGED <<payments, configs, blacklist, rules>>

SyncDeletion(a, t) ==
  /\ configs[a] # NoType
  /\ transactions[t] # NoRow
  /\ transactions[t].account = a
  /\ deactivate_payment(
       [transactions EXCEPT ![t].deleted = TRUE, ![t].status = "rejected",
                            ![t].user = NoUser], t)
  /\ UNCHANGED <<configs, blacklist, rules>>

-----------------------------------------------------------------------------
(* Decisions of an editor.  They find a transaction only while its account *)
(* is configured.                                                          *)

Decidable(t) ==
  /\ transactions[t] # NoRow
  /\ configs[transactions[t].account] # NoType

TypeOf(t) == configs[transactions[t].account]

Assign(t, u) ==
  LET r == transactions[t]
      assigned == [transactions EXCEPT ![t].status = "matched", ![t].user = u,
                                       ![t].source = "manual"]
      tab == rematch_pending(assigned, r.account, blacklist[r.account],
                             remember_match(r.sender, u))
  IN  /\ Decidable(t)
      /\ ~r.deleted /\ ~r.hold
      /\ IF Linked(r) THEN upsert_payment(tab, t, TypeOf(t), FALSE)
         ELSE transactions' = tab /\ UNCHANGED payments
      /\ rules' = remember_match(r.sender, u)
      /\ UNCHANGED <<configs, blacklist>>

Approve(t) ==
  /\ Decidable(t)
  /\ transactions[t].status = "matched"
  /\ transactions[t].user # NoUser
  /\ upsert_payment(transactions, t, TypeOf(t), TRUE)
  /\ UNCHANGED <<configs, blacklist, rules>>

Reject(t) ==
  /\ Decidable(t)
  /\ deactivate_payment(
       [transactions EXCEPT ![t].status = "rejected", ![t].user = NoUser,
                            ![t].source = "manual"], t)
  /\ UNCHANGED <<configs, blacklist, rules>>

Blacklist(t) ==
  LET r == transactions[t]
      blocked == blacklist[r.account] \cup {Label[r.sender]}
      tab == [transactions EXCEPT ![t].status = "blacklisted", ![t].user = NoUser,
                                  ![t].source = "manual"]
  IN  /\ Decidable(t)
      /\ blacklist' = [blacklist EXCEPT ![r.account] = blocked]
      /\ deactivate_payment(rematch_pending(tab, r.account, blocked, rules), t)
      /\ UNCHANGED <<configs, rules>>

\* The decision of a transaction goes back to the matching.
Retried(r) ==
  LET auto == [r EXCEPT !.source = "automatic"]
  IN  IF r.deleted THEN [auto EXCEPT !.status = "rejected", !.user = NoUser]
      ELSE IF r.hold THEN InReview(auto)
      ELSE Rematched(auto, blacklist[r.account], rules)

Retry(t) ==
  LET tab == [transactions EXCEPT ![t] = Retried(transactions[t])]
  IN  /\ Decidable(t)
      /\ IF tab[t].status = "matched" /\ ~Linked(tab[t])
         THEN transactions' = tab /\ UNCHANGED payments
         ELSE settle(tab, t, TypeOf(t))
      /\ UNCHANGED <<configs, blacklist, rules>>

\* One transaction of approve_all_matched.
ApproveMatched(t) ==
  /\ Decidable(t)
  /\ transactions[t].status = "matched"
  /\ transactions[t].payment = NoPayment
  /\ Settled(transactions[t])
  /\ upsert_payment(transactions, t, TypeOf(t), TRUE)
  /\ UNCHANGED <<configs, blacklist, rules>>

-----------------------------------------------------------------------------
(* Saving the settings: the accounts, their payment types and blacklists   *)
(* are replaced, and every transaction of a requested account that is not  *)
(* deleted is judged again.                                                *)

\* Fault: only the accounts that are new are judged again.
Requested_new(requested, t) ==
  /\ transactions[t] # NoRow
  /\ requested[transactions[t].account] # NoType
  /\ configs[transactions[t].account] = NoType
  /\ ~transactions[t].deleted

Requested(requested, t) ==
  /\ transactions[t] # NoRow
  /\ requested[transactions[t].account] # NoType
  /\ ~transactions[t].deleted

Reviewed(r, lists) ==
  IF r.source = "manual" THEN r
  ELSE IF r.hold THEN InReview(r)
  ELSE Rematched(r, lists[r.account], rules)

\* upsert_payment finds the payment of a linked, settled transaction with an
\* amount that is not an integer: back to review.
Unpayable(r) == r.status = "matched" /\ Linked(r) /\ Settled(r) /\ r.money \in Fractional

\* The transactions before their payments are looked at.
rejudge(requested, lists) ==
  [t \in Transfers |-> IF Requested(requested, t) THEN Reviewed(transactions[t], lists)
                       ELSE transactions[t]]

\* The payment row of a judged transaction r.
Rewritten(r, row, type) ==
  IF r.status # "matched" \/ ~Settled(r) THEN [row EXCEPT !.included = FALSE]
  ELSE IF r.money \in Fractional THEN row
  ELSE Written(r, type, row.key)

SaveSettings(requested, lists) ==
  LET tab == rejudge(requested, lists)
      owners(p) == {t \in Transfers : Requested(requested, t) /\ tab[t].payment = p}
  IN  /\ \E a \in Accounts : requested[a] # NoType
      /\ \A a \in Accounts : requested[a] = NoType => lists[a] = {}
      /\ configs' = requested
      /\ blacklist' = lists
      /\ transactions' = [t \in Transfers |->
           IF Requested(requested, t) /\ Unpayable(tab[t]) THEN InReview(tab[t])
           ELSE tab[t]]
      /\ payments' = [p \in Positions |->
           IF owners(p) = {} THEN payments[p]
           ELSE LET r == tab[CHOOSE t \in owners(p) : TRUE]
                IN  Rewritten(r, payments[p], requested[r.account])]
      /\ UNCHANGED rules

-----------------------------------------------------------------------------
(* Payments entered and deleted on the balance page *)

CreatePayment(u, type, m) ==
  /\ m \notin Fractional
  /\ \E p \in Positions :
       /\ IsNextPosition(p)
       /\ payments' = [payments EXCEPT
            ![p] = [user |-> u, type |-> type, money |-> m, key |-> Manual,
                    included |-> TRUE]]
  /\ UNCHANGED <<transactions, configs, blacklist, rules>>

DeletePayment(p) ==
  /\ payments[p] # NoRow
  /\ payments' = [payments EXCEPT ![p] = NoRow]
  /\ transactions' = [t \in Transfers |->
       IF Linked(transactions[t]) /\ transactions[t].payment = p
       THEN [transactions[t] EXCEPT !.payment = NoPayment, !.user = NoUser,
                                    !.status = "rejected", !.source = "manual"]
       ELSE transactions[t]]
  /\ UNCHANGED <<configs, blacklist, rules>>

-----------------------------------------------------------------------------
Sync ==
  \E a \in Accounts :
    \/ \E i \in Items : SyncItem(a, i)
    \/ \E t \in Transfers : SyncDeletion(a, t)

Decide(t) ==
  \/ \E u \in Users : Assign(t, u)
  \/ Approve(t)
  \/ Reject(t)
  \/ Blacklist(t)
  \/ Retry(t)

Next ==
  \/ Sync
  \/ \E t \in Transfers : Decide(t) \/ ApproveMatched(t)
  \/ \E requested \in [Accounts -> PaymentTypes \cup {NoType}],
        lists \in [Accounts -> SUBSET Patterns] : SaveSettings(requested, lists)
  \/ \E u \in Users, type \in PaymentTypes, m \in Money : CreatePayment(u, type, m)
  \/ \E p \in Positions : DeletePayment(p)

Spec == Init /\ [][Next]_vars

-----------------------------------------------------------------------------
(* Properties *)

\* Transaction t counts in the balance through payment p.
Counts(t, p) ==
  /\ Linked(transactions[t])
  /\ transactions[t].payment = p
  /\ payments[p] # NoRow
  /\ payments[p].included

\* No payment is the payment of two transactions: upsert_payment may adopt an
\* existing payment, and one transfer must not pay for another
\* (zenmoney.py:561-587; the column payment_id is unique).
LinksInjective ==
  \A t, x \in Transfers :
    Linked(transactions[t]) /\ Linked(transactions[x]) /\ t # x
      => transactions[t].payment # transactions[x].payment

\* A payment created from a transfer stays the payment of that transfer for as
\* long as it exists.  So an approval that creates a payment never meets a
\* source_key that is taken, and approving, rejecting, retrying and approving
\* again counts a transfer once (zenmoney.py:590-605).
SourceKeyOwned ==
  \A p \in Positions : \A t \in Transfers :
    payments[p] # NoRow /\ payments[p].key = t
      => transactions[t] # NoRow /\ transactions[t].payment = p

\* A transfer that is on hold or deleted counts nothing, whatever the order in
\* which synchronisations and decisions arrived (zenmoney.py:550-552, 685-714).
UnsettledNotCounted ==
  \A t \in Transfers, p \in Positions :
    Counts(t, p) => ~transactions[t].hold /\ ~transactions[t].deleted

\* What counts for a transfer is what its row says: a matched transaction of the
\* user and with the amount of the payment.  The one exception is a transfer
\* whose amount became fractional after it was linked: upsert_payment sends it
\* to review and leaves the old payment counted (zenmoney.py:553-558).
CountedAgrees ==
  \A t \in Transfers, p \in Positions :
    Counts(t, p) =>
      \/ /\ transactions[t].status = "matched"
         /\ transactions[t].user = payments[p].user
         /\ transactions[t].money = payments[p].money
      \/ /\ transactions[t].status = "review"
         /\ transactions[t].user = NoUser
         /\ transactions[t].money \in Fractional

\* A transfer counts under the payment type its account is configured with,
\* also after the settings have changed the type (zenmoney.py:324-350).
CountedType ==
  \A t \in Transfers, p \in Positions :
    Counts(t, p) /\ transactions[t].money \notin Fractional /\ TypeOf(t) # NoType
      => payments[p].type = TypeOf(t)

\* A payment is out of the balance only while a transaction is linked to it, so
\* that a later decision about that transaction can bring it back: no payment
\* entered by hand is lost by a synchronisation (zenmoney.py:536-540).
ExcludedIsLinked ==
  \A p \in Positions :
    payments[p] # NoRow /\ ~payments[p].included
      => \E t \in Transfers : Linked(transactions[t]) /\ transactions[t].payment = p

\* Transaction t was matched by the program and waits for its approval.
Queued(t) ==
  /\ transactions[t] # NoRow
  /\ transactions[t].status = "matched"
  /\ transactions[t].source = "automatic"
  /\ transactions[t].payment = NoPayment

\* No transfer that its account's blacklist excludes waits for approval, so the
\* bulk approval never pays one in, however long ago the transfer was matched
\* and the entry was added (zenmoney.py:309-339, 911-926).
QueueNotBlocked ==
  \A t \in Transfers :
    Queued(t) /\ TypeOf(t) # NoType
      => \A q \in blacklist[transactions[t].account] :
           transactions[t].sender \notin Blocks[q]

\* While there is one account, a transfer waits for approval under the user the
\* rules learned so far give it, not under one it was matched with before an
\* assignment taught another rule (zenmoney.py:491-533, 883).
QueueFollowsRules ==
  \A t \in Transfers :
    Queued(t) /\ TypeOf(t) # NoType
      => SenderUsers(transactions[t].sender, rules) = {transactions[t].user}

Manually(t) == transactions[t] # NoRow /\ transactions[t].source = "manual"

\* What an editor decided about a transaction is changed by nobody but an editor
\* deciding about that transaction again (or deleting its payment): another
\* step may take the user away, never put another one in place, and what has no
\* user by decision is not matched again (zenmoney.py:329, 519, 694-703).
ManualDecisionsStand ==
  [][\A t \in Transfers :
       Manually(t) /\ ~Decide(t) =>
         /\ Manually(t)'
         /\ transactions'[t].user \in {transactions[t].user, NoUser}
         /\ transactions[t].user = NoUser => transactions'[t].status # "matched"]_vars

=============================================================================
