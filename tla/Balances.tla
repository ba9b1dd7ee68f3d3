------------------------------ MODULE Balances ------------------------------
(***************************************************************************)
(* The balance of one user and the adjustments that correct it             *)
(* (backend/app/services/balances.py).  A balance is read by several       *)
(* SELECTs of a READ COMMITTED transaction, the requests of other editors  *)
(* commit between them; an adjustment is inserted when the balance it      *)
(* found is the one its editor was shown.                                  *)
(*                                                                         *)
(* Users do not meet in these rows, so there is one.  A range of dates is  *)
(* cut into weeks for display only (LegacyWeeks): the balance is the sum   *)
(* over the range.                                                         *)
(***************************************************************************)
EXTENDS Integers, FiniteSets, Functions

CONSTANTS
  Editors,
  LastDate,         \* bound: the dates are 1 .. LastDate
  CookDate,         \* the date of the one cook of the user
  Prices,           \* cached totals of the cook
  Votes,            \* the users' votes for the cook
  Charge,           \* what the user owes for the cook, by price and votes
  PaymentIds,
  PaymentSums,
  Amounts,          \* adjustments an editor asks for
  MaxAdjustments,   \* bound: rows in balance_adjustments
  Nothing           \* no row, no request

Dates == 1 .. LastDate

Payment == [date : Dates, sum : PaymentSums]

\* A row of balance_adjustments; none is without effect.  The balance it records,
\* balance_before, is the one in read when it is inserted.
Adjustment ==
  [id : 1 .. MaxAdjustments, date : Dates, amount : Int \ {0}]

ASSUME BalanceAssumption ==
  /\ LastDate \in Nat \ {0} /\ CookDate \in Dates
  /\ Charge \in [Prices \X Votes -> Nat]
  /\ IsFiniteSet(PaymentIds)
  /\ PaymentSums \subseteq Nat \ {0} /\ Amounts \subseteq Int
  /\ MaxAdjustments \in Nat
  /\ Nothing \notin Payment /\ Nothing \notin Prices /\ Nothing \notin Int

VARIABLES
  payments,      \* the payments included in the balance
  cook,          \* [price, votes] of the cook
  adjustments,
  pc,            \* what the request of an editor does next
  request,       \* the request, kept until its answer has arrived
  read,          \* what the request has read so far
  told,          \* the row of the list an editor has clicked, with its range
  applied,       \* history: this request has already inserted its row
  undisturbed    \* history: nobody else committed since it was sent

vars == <<payments, cook, adjustments, pc, request, read, told, applied, undisturbed>>

Steps == {"idle", "payments", "members", "votes", "adjustments",
          "insert", "answer", "lost"}

Shown == [from : Dates, to : Dates, balance : Int]

Request ==
  [kind : {"list", "adjust", "close"}, from : Dates, to : Dates, date : Dates,
   expected : Int, amount : Int]

\* What a transaction has read: the balance so far, and the price of the cook while
\* its votes are still to come.
Reading == [balance : Int, price : Prices \cup {Nothing}]

TypeOK ==
  /\ payments \in [PaymentIds -> Payment \cup {Nothing}]
  /\ cook \in [price : Prices, votes : Votes]
  /\ adjustments \subseteq Adjustment
  /\ pc \in [Editors -> Steps]
  /\ request \in [Editors -> Request \cup {Nothing}]
  /\ read \in [Editors -> Reading]
  /\ told \in [Editors -> Shown \cup {Nothing}]
  /\ applied \in [Editors -> BOOLEAN]
  /\ undisturbed \in [Editors -> BOOLEAN]

Unread == [balance |-> 0, price |-> Nothing]

Init ==
  /\ payments = [p \in PaymentIds |-> Nothing]
  /\ cook \in [price : Prices, votes : Votes]
  /\ adjustments = {}
  /\ pc = [e \in Editors |-> "idle"]
  /\ request = [e \in Editors |-> Nothing]
  /\ read = [e \in Editors |-> Unread]
  /\ told = [e \in Editors |-> Nothing]
  /\ applied = [e \in Editors |-> FALSE]
  /\ undisturbed = [e \in Editors |-> FALSE]

-----------------------------------------------------------------------------
(* The sums of _load, one query each *)

Within(date, r) == r.from <= date /\ date <= r.to

Paid(r) ==
  LET counted == {p \in PaymentIds : payments[p] # Nothing /\ Within(payments[p].date, r)}
  IN  SumFunction([p \in counted |-> payments[p].sum])

Charged(price, votes, r) == IF Within(CookDate, r) THEN Charge[<<price, votes>>] ELSE 0

Adjusted(r) ==
  SumFunction([a \in {b \in adjustments : Within(b.date, r)} |-> a.amount])

\* The balance a reader sees whom nobody interrupts (aggregate_balances).
Balance(r) == Paid(r) - Charged(cook.price, cook.votes, r) + Adjusted(r)

-----------------------------------------------------------------------------
(* Requests *)

Goto(e, step) == pc' = [pc EXCEPT ![e] = step]

Send(e, r) ==
  /\ request' = [request EXCEPT ![e] = r]
  /\ read' = [read EXCEPT ![e] = Unread]
  /\ applied' = [applied EXCEPT ![e] = FALSE]
  /\ undisturbed' = [undisturbed EXCEPT ![e] = TRUE]
  /\ Goto(e, "payments")
  /\ UNCHANGED <<payments, cook, adjustments, told>>

AskBalance(e, from, to) ==
  /\ pc[e] = "idle"
  /\ from <= to
  /\ Send(e, [kind |-> "list", from |-> from, to |-> to, date |-> from,
              expected |-> 0, amount |-> 0])

\* Fault: the date of an adjustment is not compared with the range.
Accepted_anywhere(r) == r.amount # 0

\* What the contract lets through.
Accepted(r) == Within(r.date, r) /\ r.amount # 0

\* The page sends the range it shows now with the balance of the row that was clicked,
\* whatever range that row was loaded for.
AskAdjustment(e, from, to, date, amount) ==
  /\ pc[e] = "idle"
  /\ told[e] # Nothing
  /\ LET r == [kind |-> "adjust", from |-> from, to |-> to,
               date |-> date, expected |-> told[e].balance, amount |-> amount]
     IN  Accepted(r) /\ Send(e, r)

\* The balance from the first date on, brought to zero.
AskClose(e) ==
  /\ pc[e] = "idle"
  /\ told[e] # Nothing /\ told[e].from = 1
  /\ Send(e, [kind |-> "close", from |-> 1, to |-> told[e].to, date |-> told[e].to,
              expected |-> told[e].balance, amount |-> 0])

ReadPayments(e) ==
  /\ pc[e] = "payments"
  /\ read' = [read EXCEPT ![e].balance = Paid(request[e])]
  /\ Goto(e, "members")
  /\ UNCHANGED <<payments, cook, adjustments, request, told, applied, undisturbed>>

ReadMembers(e) ==
  /\ pc[e] = "members"
  /\ read' = [read EXCEPT ![e].price = cook.price]
  /\ Goto(e, "votes")
  /\ UNCHANGED <<payments, cook, adjustments, request, told, applied, undisturbed>>

ReadVotes(e) ==
  /\ pc[e] = "votes"
  /\ read' = [read EXCEPT
       ![e] = [balance |-> @.balance - Charged(@.price, cook.votes, request[e]),
               price |-> Nothing]]
  /\ Goto(e, "adjustments")
  /\ UNCHANGED <<payments, cook, adjustments, request, told, applied, undisturbed>>

\* The balance is still the one the editor was shown, and closing has a point.
Confirmed(r, balance) ==
  /\ balance = r.expected
  /\ r.kind = "adjust" \/ (r.kind = "close" /\ balance # 0)

\* The request has been answered.
Finish(e) ==
  /\ request' = [request EXCEPT ![e] = Nothing]
  /\ read' = [read EXCEPT ![e] = Unread]
  /\ applied' = [applied EXCEPT ![e] = FALSE]
  /\ undisturbed' = [undisturbed EXCEPT ![e] = FALSE]
  /\ Goto(e, "idle")

\* The list is shown; the editor clicks the row of the user, or leaves it at the row
\* that was clicked before.
Listed(e, r, balance) ==
  \/ told' = [told EXCEPT ![e] = [from |-> r.from, to |-> r.to, balance |-> balance]]
  \/ UNCHANGED told

\* Fault: the adjustments that exist are left out of the balance.
ReadAdjustments_without(e) ==
  LET r == request[e]
      balance == read[e].balance
  IN  /\ pc[e] = "adjustments"
      /\ \/ /\ r.kind = "list"
            /\ Listed(e, r, balance)
            /\ Finish(e)
         \/ /\ Confirmed(r, balance)
            /\ Cardinality(adjustments) < MaxAdjustments
            /\ Goto(e, "insert")
            /\ UNCHANGED <<told, read, request, applied, undisturbed>>
         \/ /\ r.kind # "list" /\ ~Confirmed(r, balance)
            /\ Finish(e)
            /\ UNCHANGED told
      /\ UNCHANGED <<payments, cook, adjustments>>

\* The last query; the answer to a reader, or the check of the expected balance.
ReadAdjustments(e) ==
  LET r == request[e]
      balance == read[e].balance + Adjusted(r)
  IN  /\ pc[e] = "adjustments"
      /\ \/ /\ r.kind = "list"
            /\ Listed(e, r, balance)
            /\ Finish(e)
         \/ /\ Confirmed(r, balance)
            /\ Cardinality(adjustments) < MaxAdjustments
            /\ read' = [read EXCEPT ![e].balance = balance]
            /\ Goto(e, "insert")
            /\ UNCHANGED <<told, request, applied, undisturbed>>
         \/ /\ r.kind # "list" /\ ~Confirmed(r, balance)
            /\ Finish(e)
            /\ UNCHANGED told
      /\ UNCHANGED <<payments, cook, adjustments>>

\* Fault: the balance itself is booked, not its opposite.
Booked_same(r, balance) == IF r.kind = "close" THEN balance ELSE r.amount

Booked(r, balance) == IF r.kind = "close" THEN -balance ELSE r.amount

\* Another editor, or a synchronisation, has committed.
Disturb(e) == undisturbed' = [x \in Editors |-> undisturbed[x] /\ x = e]

Book(date, amount) ==
  /\ Cardinality(adjustments) < MaxAdjustments
  /\ adjustments' = adjustments \cup
       {[id |-> Cardinality(adjustments) + 1, date |-> date, amount |-> amount]}

Insert(e) ==
  /\ pc[e] = "insert"
  /\ Book(request[e].date, Booked(request[e], read[e].balance))
  /\ applied' = [applied EXCEPT ![e] = TRUE]
  /\ Disturb(e)
  /\ read' = [read EXCEPT ![e] = Unread]
  /\ Goto(e, "answer")
  /\ UNCHANGED <<payments, cook, request, told>>

Answer(e) ==
  /\ pc[e] = "answer"
  /\ Finish(e)
  /\ UNCHANGED <<payments, cook, adjustments, told>>

\* The connection fails after the commit: the editor sees an error, the form stays.
LoseAnswer(e) ==
  /\ pc[e] = "answer"
  /\ Goto(e, "lost")
  /\ UNCHANGED <<payments, cook, adjustments, request, read, told, applied, undisturbed>>

\* The editor sends the form again.
Resubmit(e) ==
  /\ pc[e] = "lost"
  /\ Goto(e, "payments")
  /\ UNCHANGED <<payments, cook, adjustments, request, read, told, applied, undisturbed>>

GiveUp(e) ==
  /\ pc[e] = "lost"
  /\ Finish(e)
  /\ UNCHANGED <<payments, cook, adjustments, told>>

-----------------------------------------------------------------------------
(* Other requests that change the balance *)

OthersCommit ==
  /\ undisturbed' = [e \in Editors |-> FALSE]
  /\ UNCHANGED <<pc, request, read, told, applied>>

AddPayment(p, date, sum) ==
  /\ payments[p] = Nothing
  /\ payments' = [payments EXCEPT ![p] = [date |-> date, sum |-> sum]]
  /\ OthersCommit
  /\ UNCHANGED <<cook, adjustments>>

RemovePayment(p) ==
  /\ payments[p] # Nothing
  /\ payments' = [payments EXCEPT ![p] = Nothing]
  /\ OthersCommit
  /\ UNCHANGED <<cook, adjustments>>

EditCook(price, votes) ==
  /\ cook # [price |-> price, votes |-> votes]
  /\ cook' = [price |-> price, votes |-> votes]
  /\ OthersCommit
  /\ UNCHANGED <<payments, adjustments>>

\* An editor outside Editors adjusts the balance: of such a request others notice
\* the row, whatever it has read before.
OthersAdjust(date, amount) ==
  /\ amount # 0
  /\ Book(date, amount)
  /\ OthersCommit
  /\ UNCHANGED <<payments, cook>>

Next ==
  \/ \E e \in Editors :
       \/ \E from, to \in Dates : AskBalance(e, from, to)
       \/ \E from, to, date \in Dates, amount \in Amounts :
            AskAdjustment(e, from, to, date, amount)
       \/ AskClose(e)
       \/ ReadPayments(e) \/ ReadMembers(e) \/ ReadVotes(e) \/ ReadAdjustments(e)
       \/ Insert(e) \/ Answer(e) \/ LoseAnswer(e) \/ Resubmit(e) \/ GiveUp(e)
  \/ \E p \in PaymentIds :
       \/ \E date \in Dates, sum \in PaymentSums : AddPayment(p, date, sum)
       \/ RemovePayment(p)
  \/ \E price \in Prices, votes \in Votes : EditCook(price, votes)
  \/ \E date \in Dates, amount \in Amounts : OthersAdjust(date, amount)

Spec == Init /\ [][Next]_vars

-----------------------------------------------------------------------------
(* Properties *)

\* A request that nobody interferes with, a repeated one included, is about to book
\* against the balance as it is: the four separate reads add up
\* (balances.py:565-595, 451-461).
BookedBalanceIsTrue ==
  \A e \in Editors :
    pc[e] = "insert" /\ undisturbed[e] => read[e].balance = Balance(request[e])

\* An editor who repeats a request whose answer was lost does not adjust twice: the
\* balance is not the expected one any more, because the row that is already there
\* is not zero and lies inside the range.  Only a commit of somebody else can bring
\* the expected balance back (contracts/balances.py:74-79, balances.py:417-420, 458).
RetryAdjustsOnce ==
  \A e \in Editors : pc[e] = "insert" /\ applied[e] => ~undisturbed[e]

\* Closing a balance that nobody else changes meanwhile leaves zero (balances.py:409-431).
ClosedIsZero ==
  [][\A e \in Editors :
       pc[e] = "insert" /\ pc'[e] = "answer" /\ undisturbed[e] /\ request[e].kind = "close"
         => Balance(request[e])' = 0]_vars

\* "balance changed while the adjustment was being confirmed": an adjustment is only
\* booked while the balance is the one its editor was shown (balances.py:418, 459).
NeverBookedOverAChange ==
  [][\A e \in Editors :
       pc[e] = "insert" /\ pc'[e] = "answer" => Balance(request[e]) = request[e].expected]_vars

=============================================================================
