--------------------------- MODULE BalancesProofs ---------------------------
(***************************************************************************)
(* What holds of balances whatever the amounts, and however many editors,  *)
(* payments and adjustments there are.                                     *)
(***************************************************************************)
EXTENDS Balances, Sums

-----------------------------------------------------------------------------
(* Balances of given rows *)

PaidIn(rows, r) ==
  LET counted == {p \in PaymentIds : rows[p] # Nothing /\ Within(rows[p].date, r)}
  IN  SumFunction([p \in counted |-> rows[p].sum])

AdjustedIn(rows, r) == SumFunction([a \in {b \in rows : Within(b.date, r)} |-> a.amount])

BalanceIn(paid, c, adjusted, r) ==
  PaidIn(paid, r) - Charged(c.price, c.votes, r) + AdjustedIn(adjusted, r)

-----------------------------------------------------------------------------
(* The inductive invariant *)

\* Identifiers count the rows.
RowsCounted ==
  /\ IsFiniteSet(adjustments)
  /\ \A a \in adjustments : a.id <= Cardinality(adjustments)

\* What a request asks for, which the row it inserts lies in.
RequestOK(e) ==
  pc[e] # "idle" =>
    /\ request[e] \in Request
    /\ request[e].kind = "adjust" => Accepted(request[e])
    /\ request[e].kind = "close" => Within(request[e].date, request[e])

\* What it has read, nobody disturbing it, is what there is.
ReadsOK(e) ==
  /\ pc[e] = "votes" => read[e].price \in Prices
  /\ pc[e] = "insert" => Confirmed(request[e], read[e].balance)
  /\ undisturbed[e] =>
       /\ pc[e] \in {"members", "votes"} =>
            read[e].balance = PaidIn(payments, request[e])
       /\ pc[e] = "votes" => read[e].price = cook.price
       /\ pc[e] = "adjustments" =>
            read[e].balance = PaidIn(payments, request[e])
                                - Charged(cook.price, cook.votes, request[e])
       /\ pc[e] = "insert" =>
            read[e].balance = BalanceIn(payments, cook, adjustments, request[e])

\* Its row, once it is there, keeps the balance from being the expected one.
AppliedOK(e) ==
  /\ applied[e] => pc[e] # "idle"
  /\ applied[e] /\ undisturbed[e] =>
       BalanceIn(payments, cook, adjustments, request[e]) # request[e].expected

EditorOK(e) == RequestOK(e) /\ ReadsOK(e) /\ AppliedOK(e)

IInv == TypeOK /\ RowsCounted /\ \A e \in Editors : EditorOK(e)

-----------------------------------------------------------------------------
(* Sums of rows *)

LEMMA SumsAreOfRows ==
  ASSUME NEW r
  PROVE  /\ Paid(r) = PaidIn(payments, r)
         /\ Adjusted(r) = AdjustedIn(adjustments, r)
         /\ Balance(r) = BalanceIn(payments, cook, adjustments, r)
BY DEF Paid, PaidIn, Adjusted, AdjustedIn, Balance, BalanceIn

LEMMA PaidType ==
  ASSUME NEW rows \in [PaymentIds -> Payment \cup {Nothing}], NEW r
  PROVE  PaidIn(rows, r) \in Int
<1> DEFINE counted == {p \in PaymentIds : rows[p] # Nothing /\ Within(rows[p].date, r)}
           f == [p \in counted |-> rows[p].sum]
<1>1. IsFiniteSet(counted)
  BY FS_Subset, BalanceAssumption
<1>2. \A p \in counted : f[p] \in Int
  <2>1. PaymentSums \subseteq Int
    BY BalanceAssumption
  <2>2. \A p \in counted : rows[p] \in Payment
    OBVIOUS
  <2>3. QED BY <2>1, <2>2 DEF Payment
<1>3. DOMAIN f = counted
  OBVIOUS
<1> HIDE DEF counted, f
<1>4. SumFunctionOnSet(f, counted) \in Int
  BY <1>1, <1>2, SumType
<1>5. PaidIn(rows, r) = SumFunctionOnSet(f, DOMAIN f)
  BY DEF PaidIn, SumFunction, counted, f
<1>6. QED BY <1>3, <1>4, <1>5

LEMMA AdjustedType ==
  ASSUME NEW rows \in SUBSET Adjustment, IsFiniteSet(rows), NEW r
  PROVE  AdjustedIn(rows, r) \in Int
<1> DEFINE counted == {b \in rows : Within(b.date, r)}
           f == [a \in counted |-> a.amount]
<1>1. IsFiniteSet(counted)
  BY FS_Subset
<1>2. \A a \in counted : f[a] \in Int
  BY DEF Adjustment
<1>3. DOMAIN f = counted
  OBVIOUS
<1> HIDE DEF counted, f
<1>4. SumFunctionOnSet(f, counted) \in Int
  BY <1>1, <1>2, SumType
<1>5. AdjustedIn(rows, r) = SumFunctionOnSet(f, DOMAIN f)
  BY DEF AdjustedIn, SumFunction, counted, f
<1>6. QED BY <1>3, <1>4, <1>5

LEMMA ChargedType ==
  ASSUME NEW price \in Prices, NEW votes \in Votes, NEW r
  PROVE  Charged(price, votes, r) \in Int
<1>1. Charge[<<price, votes>>] \in Nat
  BY BalanceAssumption, Zenon
<1>2. Charge[<<price, votes>>] \in Int
  BY <1>1
<1>3. QED BY <1>2 DEF Charged

\* A new row inside the range changes the balance by its amount.
LEMMA AdjustmentCounts ==
  ASSUME NEW rows \in SUBSET Adjustment, IsFiniteSet(rows),
         NEW row \in Adjustment, row \notin rows, NEW r, Within(row.date, r)
  PROVE  AdjustedIn(rows \cup {row}, r) = AdjustedIn(rows, r) + row.amount
<1> DEFINE before == {b \in rows : Within(b.date, r)}
           after == {b \in rows \cup {row} : Within(b.date, r)}
           f == [a \in before |-> a.amount]
           g == [a \in after |-> a.amount]
<1>1. /\ after = before \cup {row} /\ row \in after \ before /\ before \in SUBSET after
      /\ before \in SUBSET rows
  OBVIOUS
<1>2. /\ DOMAIN f = before /\ DOMAIN g = after
      /\ \A a \in before : f[a] = g[a]
      /\ g[row] = row.amount
  BY <1>1
<1>3. \A a \in after : g[a] \in Int
  BY DEF Adjustment
<1>4. /\ AdjustedIn(rows, r) = SumFunctionOnSet(f, DOMAIN f)
      /\ AdjustedIn(rows \cup {row}, r) = SumFunctionOnSet(g, DOMAIN g)
  BY DEF AdjustedIn, SumFunction
<1> HIDE DEF before, after, f, g
<1>5. IsFiniteSet(before) /\ IsFiniteSet(after)
  BY <1>1, FS_Subset, FS_AddElement
<1>6. SumFunctionOnSet(f, before) = SumFunctionOnSet(g, before)
  BY <1>2, <1>5, SumsEqual
<1>7. SumFunctionOnSet(g, before \cup {row}) = SumFunctionOnSet(g, before) + g[row]
  BY <1>1, <1>3, <1>5, SumAdds
<1>8. QED BY <1>1, <1>2, <1>4, <1>6, <1>7

-----------------------------------------------------------------------------
(* What a step leaves alone *)

LEMMA Frame ==
  ASSUME NEW e \in Editors, EditorOK(e),
         pc'[e] = pc[e], request'[e] = request[e], read'[e] = read[e],
         applied'[e] = applied[e],
         \/ undisturbed'[e] = FALSE
         \/ undisturbed'[e] = undisturbed[e] /\ UNCHANGED <<payments, cook, adjustments>>
  PROVE  EditorOK(e)'
<1>1. RequestOK(e)'
  BY DEF EditorOK, RequestOK
<1>2. ReadsOK(e)' /\ AppliedOK(e)'
  <2>1. CASE undisturbed'[e] = FALSE
    BY <2>1 DEF EditorOK, ReadsOK, AppliedOK
  <2>2. CASE undisturbed'[e] = undisturbed[e] /\ UNCHANGED <<payments, cook, adjustments>>
    BY <2>2 DEF EditorOK, ReadsOK, AppliedOK
  <2>3. QED BY <2>1, <2>2
<1>3. QED BY <1>1, <1>2 DEF EditorOK

\* Everything but the request of one editor.
LEMMA OthersKeep ==
  ASSUME IInv, NEW e \in Editors,
         UNCHANGED <<payments, cook, adjustments>>,
         \A x \in Editors \ {e} :
           /\ pc'[x] = pc[x] /\ request'[x] = request[x] /\ read'[x] = read[x]
           /\ applied'[x] = applied[x] /\ undisturbed'[x] = undisturbed[x],
         TypeOK', EditorOK(e)'
  PROVE  IInv'
<1>1. \A x \in Editors \ {e} : EditorOK(x)'
  BY Frame DEF IInv
<1>2. RowsCounted'
  BY DEF IInv, RowsCounted
<1>3. QED BY <1>1, <1>2 DEF IInv

\* Everybody else has committed.
LEMMA OthersCommitKeeps ==
  ASSUME IInv, OthersCommit, RowsCounted',
         payments' \in [PaymentIds -> Payment \cup {Nothing}],
         cook' \in [price : Prices, votes : Votes],
         adjustments' \subseteq Adjustment
  PROVE  IInv'
<1>1. \A x \in Editors : EditorOK(x)'
  BY Frame DEF IInv, OthersCommit
<1>2. TypeOK'
  BY DEF IInv, TypeOK, OthersCommit
<1>3. QED BY <1>1, <1>2 DEF IInv

LEMMA BookCounts ==
  ASSUME IInv, NEW date \in Dates, NEW amount \in Int \ {0}, Book(date, amount)
  PROVE  /\ RowsCounted' /\ adjustments' \subseteq Adjustment
         /\ \E row \in Adjustment :
              /\ row \notin adjustments /\ row.date = date /\ row.amount = amount
              /\ adjustments' = adjustments \cup {row}
<1> DEFINE row == [id |-> Cardinality(adjustments) + 1, date |-> date, amount |-> amount]
<1>1. /\ adjustments' = adjustments \cup {row}
      /\ Cardinality(adjustments) < MaxAdjustments
  BY DEF Book
<1>2. /\ IsFiniteSet(adjustments) /\ Cardinality(adjustments) \in Nat
      /\ adjustments \subseteq Adjustment
      /\ \A a \in adjustments : a.id \in Int /\ a.id <= Cardinality(adjustments)
  BY FS_CardinalityType DEF IInv, RowsCounted, TypeOK, Adjustment
<1>3. row \in Adjustment
  BY <1>1, <1>2, BalanceAssumption DEF Adjustment
<1>4. row \notin adjustments
  <2>1. row.id = Cardinality(adjustments) + 1
    OBVIOUS
  <2> HIDE DEF row
  <2>2. QED BY <1>2, <2>1
<1>5. row.date = date /\ row.amount = amount /\ row.id = Cardinality(adjustments) + 1
  OBVIOUS
<1> HIDE DEF row
<1>6. /\ IsFiniteSet(adjustments \cup {row})
      /\ Cardinality(adjustments \cup {row}) = Cardinality(adjustments) + 1
  BY <1>2, <1>4, FS_AddElement
<1>7. \A a \in adjustments \cup {row} : a.id <= Cardinality(adjustments \cup {row})
  BY <1>2, <1>5, <1>6
<1>8. RowsCounted'
  BY <1>1, <1>6, <1>7 DEF RowsCounted
<1>9. QED BY <1>1, <1>2, <1>3, <1>4, <1>5, <1>8

-----------------------------------------------------------------------------
(* Each step keeps the invariant *)

LEMMA SendKeeps ==
  ASSUME IInv, NEW e \in Editors, NEW r \in Request, Send(e, r),
         r.kind = "adjust" => Accepted(r),
         r.kind = "close" => Within(r.date, r)
  PROVE  IInv'
<1>1. TypeOK'
  BY DEF IInv, TypeOK, Send, Goto, Steps, Reading, Unread
<1>2. /\ pc'[e] = "payments" /\ request'[e] = r /\ applied'[e] = FALSE
  BY DEF IInv, TypeOK, Send, Goto
<1>3. EditorOK(e)'
  BY <1>2 DEF EditorOK, RequestOK, ReadsOK, AppliedOK
<1>4. QED BY <1>1, <1>3, OthersKeep DEF IInv, TypeOK, Send, Goto

LEMMA AskBalanceKeeps ==
  ASSUME IInv, NEW e \in Editors, NEW from \in Dates, NEW to \in Dates,
         AskBalance(e, from, to)
  PROVE  IInv'
<1> DEFINE r == [kind |-> "list", from |-> from, to |-> to, date |-> from,
                 expected |-> 0, amount |-> 0]
<1>1. r \in Request /\ r.kind = "list" /\ Send(e, r)
  BY DEF AskBalance, Request
<1> HIDE DEF r
<1>2. QED BY <1>1, SendKeeps

LEMMA AskAdjustmentKeeps ==
  ASSUME IInv, NEW e \in Editors, NEW from \in Dates, NEW to \in Dates,
         NEW date \in Dates, NEW amount \in Amounts,
         AskAdjustment(e, from, to, date, amount)
  PROVE  IInv'
<1> DEFINE r == [kind |-> "adjust", from |-> from, to |-> to,
                 date |-> date, expected |-> told[e].balance, amount |-> amount]
<1>1. Accepted(r) /\ Send(e, r) /\ r.kind = "adjust"
  BY DEF AskAdjustment
<1>2. told[e].balance \in Int /\ amount \in Int
  BY BalanceAssumption DEF AskAdjustment, IInv, TypeOK, Shown
<1>3. r \in Request
  BY <1>2 DEF Request
<1> HIDE DEF r
<1>4. QED BY <1>1, <1>3, SendKeeps

LEMMA AskCloseKeeps ==
  ASSUME IInv, NEW e \in Editors, AskClose(e)
  PROVE  IInv'
<1> DEFINE r == [kind |-> "close", from |-> 1, to |-> told[e].to, date |-> told[e].to,
                 expected |-> told[e].balance, amount |-> 0]
<1>1. told[e].balance \in Int /\ told[e].to \in Dates
  BY DEF AskClose, IInv, TypeOK, Shown
<1>2. 1 \in Dates /\ 1 <= told[e].to
  BY <1>1, BalanceAssumption DEF Dates
<1>3. r \in Request /\ Send(e, r) /\ r.kind = "close" /\ Within(r.date, r)
  BY <1>1, <1>2 DEF AskClose, Request, Within, Dates
<1> HIDE DEF r
<1>4. QED BY <1>3, SendKeeps

LEMMA ReadPaymentsKeeps ==
  ASSUME IInv, NEW e \in Editors, ReadPayments(e)
  PROVE  IInv'
<1>1. Paid(request[e]) = PaidIn(payments, request[e]) /\ Paid(request[e]) \in Int
  BY SumsAreOfRows, PaidType DEF IInv, TypeOK
<1>2. TypeOK'
  BY <1>1 DEF IInv, TypeOK, ReadPayments, Goto, Steps, Reading
<1>3. /\ pc[e] = "payments" /\ pc'[e] = "members" /\ request'[e] = request[e]
      /\ read'[e].balance = PaidIn(payments, request[e])
      /\ applied'[e] = applied[e] /\ undisturbed'[e] = undisturbed[e]
      /\ UNCHANGED <<payments, cook, adjustments>>
  BY <1>1 DEF IInv, TypeOK, ReadPayments, Goto, Reading
<1>4. EditorOK(e)
  BY DEF IInv
<1>5. EditorOK(e)'
  BY <1>3, <1>4 DEF EditorOK, RequestOK, ReadsOK, AppliedOK
<1>6. QED BY <1>2, <1>5, OthersKeep DEF IInv, TypeOK, ReadPayments, Goto

LEMMA ReadMembersKeeps ==
  ASSUME IInv, NEW e \in Editors, ReadMembers(e)
  PROVE  IInv'
<1>1. TypeOK'
  BY DEF IInv, TypeOK, ReadMembers, Goto, Steps, Reading
<1>2. /\ pc[e] = "members" /\ pc'[e] = "votes" /\ request'[e] = request[e]
      /\ read'[e].balance = read[e].balance /\ read'[e].price = cook.price
      /\ cook.price \in Prices
      /\ applied'[e] = applied[e] /\ undisturbed'[e] = undisturbed[e]
      /\ UNCHANGED <<payments, cook, adjustments>>
  BY DEF IInv, TypeOK, ReadMembers, Goto, Reading
<1>3. EditorOK(e)
  BY DEF IInv
<1>4. EditorOK(e)'
  BY <1>2, <1>3 DEF EditorOK, RequestOK, ReadsOK, AppliedOK
<1>5. QED BY <1>1, <1>4, OthersKeep DEF IInv, TypeOK, ReadMembers, Goto

LEMMA ReadVotesKeeps ==
  ASSUME IInv, NEW e \in Editors, ReadVotes(e)
  PROVE  IInv'
<1>1. EditorOK(e)
  BY DEF IInv
<1>2. Charged(read[e].price, cook.votes, request[e]) \in Int
  BY <1>1, ChargedType DEF EditorOK, ReadsOK, ReadVotes, IInv, TypeOK
<1>3. TypeOK'
  BY <1>2 DEF IInv, TypeOK, ReadVotes, Goto, Steps, Reading
<1>4. /\ pc[e] = "votes" /\ pc'[e] = "adjustments" /\ request'[e] = request[e]
      /\ read'[e].balance = read[e].balance - Charged(read[e].price, cook.votes, request[e])
      /\ applied'[e] = applied[e] /\ undisturbed'[e] = undisturbed[e]
      /\ UNCHANGED <<payments, cook, adjustments>>
  BY DEF IInv, TypeOK, ReadVotes, Goto
<1>5. EditorOK(e)'
  BY <1>1, <1>4 DEF EditorOK, RequestOK, ReadsOK, AppliedOK
<1>6. QED BY <1>3, <1>5, OthersKeep DEF IInv, TypeOK, ReadVotes, Goto

\* An answer, or an error that is not repeated, leaves nothing of the request.
LEMMA FinishKeeps ==
  ASSUME IInv, NEW e \in Editors, Finish(e), UNCHANGED <<payments, cook, adjustments>>,
         told' \in [Editors -> Shown \cup {Nothing}]
  PROVE  IInv'
<1>1. TypeOK'
  <2>1. Unread \in Reading /\ "idle" \in Steps
    BY DEF Reading, Unread, Steps
  <2>2. read' \in [Editors -> Reading] /\ request' \in [Editors -> Request \cup {Nothing}]
    BY <2>1 DEF IInv, TypeOK, Finish
  <2>3. pc' \in [Editors -> Steps]
    BY <2>1 DEF IInv, TypeOK, Finish, Goto
  <2>4. applied' \in [Editors -> BOOLEAN] /\ undisturbed' \in [Editors -> BOOLEAN]
    BY DEF IInv, TypeOK, Finish
  <2>5. QED BY <2>2, <2>3, <2>4 DEF IInv, TypeOK
<1>2. pc'[e] = "idle" /\ applied'[e] = FALSE
  BY DEF IInv, TypeOK, Finish, Goto
<1>3. EditorOK(e)'
  BY <1>2 DEF EditorOK, RequestOK, ReadsOK, AppliedOK
<1>4. QED BY <1>1, <1>3, OthersKeep DEF IInv, TypeOK, Finish, Goto

LEMMA ReadAdjustmentsKeeps ==
  ASSUME IInv, NEW e \in Editors, ReadAdjustments(e)
  PROVE  IInv'
<1> DEFINE r == request[e]
           balance == read[e].balance + Adjusted(r)
<1>1. EditorOK(e) /\ pc[e] = "adjustments" /\ request[e] \in Request
  BY DEF IInv, EditorOK, RequestOK, ReadAdjustments
<1>2. /\ Adjusted(request[e]) = AdjustedIn(adjustments, request[e])
      /\ Adjusted(request[e]) \in Int
  BY SumsAreOfRows, AdjustedType DEF IInv, TypeOK, RowsCounted
<1>3. balance \in Int
  BY <1>2 DEF IInv, TypeOK, Reading
<1> HIDE DEF balance
<1>4. CASE r.kind = "list" /\ Listed(e, r, balance) /\ Finish(e)
  <2>1. [from |-> r.from, to |-> r.to, balance |-> balance] \in Shown
    BY <1>1, <1>3 DEF Request, Shown
  <2>2. told' \in [Editors -> Shown \cup {Nothing}]
    BY <1>4, <2>1 DEF Listed, IInv, TypeOK
  <2>3. QED BY <1>4, <2>2, FinishKeeps DEF ReadAdjustments
<1>5. CASE /\ Confirmed(r, balance)
           /\ read' = [read EXCEPT ![e].balance = balance]
           /\ Goto(e, "insert")
           /\ UNCHANGED <<told, request, applied, undisturbed>>
  <2>1. UNCHANGED <<payments, cook, adjustments>>
    BY DEF ReadAdjustments
  <2>2. TypeOK'
    BY <1>3, <1>5, <2>1 DEF IInv, TypeOK, Goto, Steps, Reading
  <2>3. /\ pc'[e] = "insert" /\ request'[e] = request[e] /\ read'[e].balance = balance
        /\ applied'[e] = applied[e] /\ undisturbed'[e] = undisturbed[e]
    BY <1>5 DEF IInv, TypeOK, Goto, Reading
  <2>4. undisturbed[e] =>
          balance = BalanceIn(payments, cook, adjustments, request[e])
    BY <1>1, <1>2 DEF EditorOK, ReadsOK, BalanceIn, balance
  <2>5. RequestOK(e)' /\ AppliedOK(e)'
    BY <1>1, <2>1, <2>3 DEF EditorOK, RequestOK, AppliedOK
  <2>6. ReadsOK(e)'
    BY <1>5, <2>1, <2>3, <2>4 DEF ReadsOK
  <2>7. EditorOK(e)'
    BY <2>5, <2>6 DEF EditorOK
  <2>8. QED BY <1>5, <2>1, <2>2, <2>7, OthersKeep DEF IInv, TypeOK, Goto
<1>6. CASE Finish(e) /\ UNCHANGED told
  BY <1>6, FinishKeeps DEF ReadAdjustments, IInv, TypeOK
<1>7. QED BY <1>4, <1>5, <1>6 DEF ReadAdjustments, balance

\* The amount of the new row changes a balance that was the expected one.
LEMMA InsertKeeps ==
  ASSUME IInv, NEW e \in Editors, Insert(e)
  PROVE  IInv'
<1> DEFINE amount == Booked(request[e], read[e].balance)
<1>1. /\ EditorOK(e) /\ pc[e] = "insert" /\ request[e] \in Request
      /\ read[e].balance \in Int /\ read[e].balance = request[e].expected
      /\ Within(request[e].date, request[e])
  BY DEF IInv, EditorOK, RequestOK, ReadsOK, Insert, Confirmed, Accepted, TypeOK, Reading
<1>2. amount \in Int \ {0}
  BY <1>1 DEF Booked, EditorOK, RequestOK, ReadsOK, Confirmed, Accepted, Request
<1>3. request[e].date \in Dates /\ Book(request[e].date, amount)
  BY <1>1 DEF Insert, Request
<1> HIDE DEF amount
<1>4. /\ RowsCounted' /\ adjustments' \subseteq Adjustment
      /\ \E row \in Adjustment :
           /\ row \notin adjustments /\ row.date = request[e].date /\ row.amount = amount
           /\ adjustments' = adjustments \cup {row}
  BY <1>2, <1>3, BookCounts
<1>5. TypeOK'
  BY <1>4 DEF IInv, TypeOK, Insert, Disturb, Goto, Steps, Reading, Unread
<1>6. /\ pc'[e] = "answer" /\ request'[e] = request[e] /\ undisturbed'[e] = undisturbed[e]
      /\ UNCHANGED <<payments, cook>>
  BY DEF IInv, TypeOK, Insert, Disturb, Goto
<1>7. undisturbed[e] =>
        BalanceIn(payments, cook, adjustments', request[e]) # request[e].expected
  <2> SUFFICES ASSUME undisturbed[e]
               PROVE  BalanceIn(payments, cook, adjustments', request[e]) # request[e].expected
    OBVIOUS
  <2>1. PICK row \in Adjustment :
          /\ row \notin adjustments /\ row.date = request[e].date /\ row.amount = amount
          /\ adjustments' = adjustments \cup {row}
    BY <1>4
  <2>2. AdjustedIn(adjustments', request[e]) = AdjustedIn(adjustments, request[e]) + amount
    BY <1>1, <2>1, AdjustmentCounts DEF IInv, TypeOK, RowsCounted
  <2>3. /\ PaidIn(payments, request[e]) \in Int
        /\ AdjustedIn(adjustments, request[e]) \in Int
        /\ Charged(cook.price, cook.votes, request[e]) \in Int
    BY PaidType, AdjustedType, ChargedType DEF IInv, TypeOK, RowsCounted
  <2>4. read[e].balance = BalanceIn(payments, cook, adjustments, request[e])
    BY <1>1 DEF EditorOK, ReadsOK
  <2>5. QED BY <1>1, <1>2, <2>2, <2>3, <2>4 DEF BalanceIn
<1>8. EditorOK(e)'
  BY <1>1, <1>6, <1>7 DEF EditorOK, RequestOK, ReadsOK, AppliedOK
<1>9. \A x \in Editors \ {e} : EditorOK(x)'
  BY Frame DEF IInv, TypeOK, Insert, Disturb, Goto
<1>10. QED BY <1>4, <1>5, <1>8, <1>9 DEF IInv

LEMMA AnswerKeeps ==
  ASSUME IInv, NEW e \in Editors, Answer(e) \/ GiveUp(e)
  PROVE  IInv'
BY FinishKeeps DEF Answer, GiveUp, IInv, TypeOK

LEMMA LoseAnswerKeeps ==
  ASSUME IInv, NEW e \in Editors, LoseAnswer(e) \/ Resubmit(e)
  PROVE  IInv'
<1>1. TypeOK'
  BY DEF IInv, TypeOK, LoseAnswer, Resubmit, Goto, Steps
<1>2. /\ pc[e] # "idle" /\ pc'[e] \in {"lost", "payments"}
      /\ UNCHANGED <<payments, cook, adjustments, request, read, applied, undisturbed>>
  BY DEF IInv, TypeOK, LoseAnswer, Resubmit, Goto
<1>3. EditorOK(e)
  BY DEF IInv
<1>4. EditorOK(e)'
  BY <1>2, <1>3 DEF EditorOK, RequestOK, ReadsOK, AppliedOK
<1>5. QED BY <1>1, <1>4, OthersKeep DEF IInv, TypeOK, LoseAnswer, Resubmit, Goto

LEMMA OthersKeepInvariant ==
  ASSUME IInv,
         \/ \E p \in PaymentIds :
              \/ \E date \in Dates, sum \in PaymentSums : AddPayment(p, date, sum)
              \/ RemovePayment(p)
         \/ \E price \in Prices, votes \in Votes : EditCook(price, votes)
         \/ \E date \in Dates, amount \in Amounts : OthersAdjust(date, amount)
  PROVE  IInv'
<1>1. CASE \E p \in PaymentIds, date \in Dates, sum \in PaymentSums : AddPayment(p, date, sum)
  <2>1. OthersCommit /\ UNCHANGED <<cook, adjustments>>
    BY <1>1 DEF AddPayment
  <2>2. payments' \in [PaymentIds -> Payment \cup {Nothing}]
    BY <1>1 DEF AddPayment, IInv, TypeOK, Payment
  <2>3. QED BY <2>1, <2>2, OthersCommitKeeps DEF IInv, TypeOK, RowsCounted
<1>2. CASE \E p \in PaymentIds : RemovePayment(p)
  <2>1. OthersCommit /\ UNCHANGED <<cook, adjustments>>
    BY <1>2 DEF RemovePayment
  <2>2. payments' \in [PaymentIds -> Payment \cup {Nothing}]
    BY <1>2 DEF RemovePayment, IInv, TypeOK
  <2>3. QED BY <2>1, <2>2, OthersCommitKeeps DEF IInv, TypeOK, RowsCounted
<1>3. CASE \E price \in Prices, votes \in Votes : EditCook(price, votes)
  BY <1>3, OthersCommitKeeps DEF EditCook, IInv, TypeOK, RowsCounted
<1>4. CASE \E date \in Dates, amount \in Amounts : OthersAdjust(date, amount)
  <2>1. PICK date \in Dates, amount \in Amounts : OthersAdjust(date, amount)
    BY <1>4
  <2>2. amount \in Int \ {0} /\ Book(date, amount) /\ OthersCommit /\ UNCHANGED <<payments, cook>>
    BY <2>1, BalanceAssumption DEF OthersAdjust
  <2>3. RowsCounted' /\ adjustments' \subseteq Adjustment
    BY <2>2, BookCounts
  <2>4. QED BY <2>2, <2>3, OthersCommitKeeps DEF IInv, TypeOK
<1>5. QED BY <1>1, <1>2, <1>3, <1>4

LEMMA Invariant == Spec => []IInv
<1>1. Init => IInv
  <2> SUFFICES ASSUME Init PROVE IInv
    OBVIOUS
  <2>1. TypeOK
    BY DEF Init, TypeOK, Steps, Reading, Unread
  <2>2. RowsCounted
    BY FS_EmptySet DEF Init, RowsCounted
  <2>3. \A e \in Editors : EditorOK(e)
    BY DEF Init, EditorOK, RequestOK, ReadsOK, AppliedOK
  <2>4. QED BY <2>1, <2>2, <2>3 DEF IInv
<1>2. IInv /\ [Next]_vars => IInv'
  <2> SUFFICES ASSUME IInv, [Next]_vars PROVE IInv'
    OBVIOUS
  <2>1. ASSUME NEW e \in Editors, NEW from \in Dates, NEW to \in Dates, AskBalance(e, from, to)
        PROVE  IInv'
    BY <2>1, AskBalanceKeeps
  <2>2. ASSUME NEW e \in Editors, NEW from \in Dates, NEW to \in Dates, NEW date \in Dates,
               NEW amount \in Amounts, AskAdjustment(e, from, to, date, amount)
        PROVE  IInv'
    BY <2>2, AskAdjustmentKeeps
  <2>3. ASSUME NEW e \in Editors,
               \/ AskClose(e) \/ ReadPayments(e) \/ ReadMembers(e) \/ ReadVotes(e)
               \/ ReadAdjustments(e) \/ Insert(e) \/ Answer(e) \/ LoseAnswer(e)
               \/ Resubmit(e) \/ GiveUp(e)
        PROVE  IInv'
    BY <2>3, AskCloseKeeps, ReadPaymentsKeeps, ReadMembersKeeps, ReadVotesKeeps,
       ReadAdjustmentsKeeps, InsertKeeps, AnswerKeeps, LoseAnswerKeeps
  <2>4. CASE UNCHANGED vars
    <3>1. TypeOK' /\ RowsCounted'
      BY <2>4 DEF IInv, TypeOK, RowsCounted, vars
    <3>2. \A e \in Editors : EditorOK(e)'
      BY <2>4, Frame DEF IInv, vars
    <3>3. QED BY <3>1, <3>2 DEF IInv
  <2>5. QED BY <2>1, <2>2, <2>3, <2>4, OthersKeepInvariant DEF Next
<1>3. QED BY <1>1, <1>2, PTL DEF Spec

-----------------------------------------------------------------------------
(* The row that closes a balance *)

LEMMA StepsToAnswer ==
  ASSUME IInv, Next, NEW e \in Editors, pc[e] = "insert", pc'[e] = "answer"
  PROVE  Insert(e)
<1>1. \A x \in Editors : \A step : Goto(x, step) /\ pc'[e] # pc[e] => x = e /\ pc'[e] = step
  BY DEF Goto, IInv, TypeOK
<1>2. ~ OthersCommit
  BY DEF OthersCommit
<1>3. PICK x \in Editors :
        \/ \E from, to \in Dates : AskBalance(x, from, to)
        \/ \E from, to, date \in Dates, amount \in Amounts :
             AskAdjustment(x, from, to, date, amount)
        \/ AskClose(x)
        \/ ReadPayments(x) \/ ReadMembers(x) \/ ReadVotes(x) \/ ReadAdjustments(x)
        \/ Insert(x) \/ Answer(x) \/ LoseAnswer(x) \/ Resubmit(x) \/ GiveUp(x)
  BY <1>2 DEF Next, AddPayment, RemovePayment, EditCook, OthersAdjust
<1>4. \A step : Goto(x, step) => x = e /\ step = "answer"
  BY <1>1
<1>5. pc[x] = "idle" => x # e
  OBVIOUS
<1>6. Insert(x) /\ x = e
  BY <1>3, <1>4, <1>5 DEF AskBalance, AskAdjustment, AskClose, Send, ReadPayments,
     ReadMembers, ReadVotes, ReadAdjustments, Finish, Answer, LoseAnswer, Resubmit, GiveUp, Insert
<1>7. QED BY <1>6

LEMMA InsertCloses ==
  ASSUME IInv, NEW e \in Editors, Insert(e), undisturbed[e], request[e].kind = "close"
  PROVE  Balance(request[e])' = 0
<1>1. /\ EditorOK(e) /\ pc[e] = "insert" /\ request[e] \in Request
      /\ read[e].balance \in Int /\ read[e].balance # 0
      /\ read[e].balance = BalanceIn(payments, cook, adjustments, request[e])
      /\ Within(request[e].date, request[e])
  BY DEF IInv, EditorOK, RequestOK, ReadsOK, Insert, Confirmed, TypeOK, Reading
<1>2. /\ -read[e].balance \in Int \ {0} /\ request[e].date \in Dates
      /\ Book(request[e].date, -read[e].balance)
      /\ UNCHANGED <<payments, cook, request>>
  BY <1>1 DEF Insert, Booked, Request
<1>3. PICK row \in Adjustment :
        /\ row \notin adjustments /\ row.date = request[e].date
        /\ row.amount = -read[e].balance /\ adjustments' = adjustments \cup {row}
  BY <1>2, BookCounts
<1>4. AdjustedIn(adjustments', request[e])
        = AdjustedIn(adjustments, request[e]) + row.amount
  <2>1. adjustments \in SUBSET Adjustment /\ IsFiniteSet(adjustments)
    BY DEF IInv, TypeOK, RowsCounted
  <2>2. Within(row.date, request[e])
    BY <1>1, <1>3
  <2>3. QED BY <1>3, <2>1, <2>2, AdjustmentCounts
<1>5. /\ PaidIn(payments, request[e]) \in Int
      /\ AdjustedIn(adjustments, request[e]) \in Int
      /\ Charged(cook.price, cook.votes, request[e]) \in Int
  BY PaidType, AdjustedType, ChargedType DEF IInv, TypeOK, RowsCounted
<1>6. BalanceIn(payments, cook, adjustments', request[e]) = 0
  BY <1>1, <1>3, <1>4, <1>5 DEF BalanceIn
<1>7. Balance(request[e])' = BalanceIn(payments', cook', adjustments', request'[e])
  BY Zenon DEF Balance, BalanceIn, Paid, PaidIn, Adjusted, AdjustedIn
<1>8. QED BY <1>2, <1>6, <1>7

-----------------------------------------------------------------------------
(* Theorems *)

\* Rows, requests and what they have read stay in their types; no adjustment of zero is
\* ever stored.
THEOREM TypeCorrect == Spec => []TypeOK
<1>1. IInv => TypeOK
  BY DEF IInv
<1>2. QED BY <1>1, Invariant, PTL

\* What a request nobody interferes with is about to book against is the balance as
\* it is, although it was read by four SELECTs (balances.py:565-595, 451-461).
THEOREM BooksAgainstTheBalance == Spec => []BookedBalanceIsTrue
<1>1. IInv => BookedBalanceIsTrue
  BY SumsAreOfRows DEF IInv, EditorOK, ReadsOK, BookedBalanceIsTrue
<1>2. QED BY <1>1, Invariant, PTL

\* A request that is repeated is only confirmed again when somebody else has committed
\* meanwhile (contracts/balances.py:74-79, balances.py:417-420, 458).
THEOREM RetriesAdjustOnce == Spec => []RetryAdjustsOnce
<1>1. IInv => RetryAdjustsOnce
  <2> SUFFICES ASSUME IInv, NEW e \in Editors, pc[e] = "insert", applied[e], undisturbed[e]
               PROVE  FALSE
    BY DEF RetryAdjustsOnce
  <2>1. EditorOK(e)
    BY DEF IInv
  <2>2. QED BY <2>1 DEF EditorOK, ReadsOK, AppliedOK, Confirmed
<1>2. QED BY <1>1, Invariant, PTL

\* Closing leaves zero when nobody else commits meanwhile (balances.py:409-431).
THEOREM ClosingLeavesZero == Spec => ClosedIsZero
<1>1. IInv /\ [Next]_vars =>
        [\A e \in Editors :
           pc[e] = "insert" /\ pc'[e] = "answer" /\ undisturbed[e] /\ request[e].kind = "close"
             => Balance(request[e])' = 0]_vars
  <2> SUFFICES ASSUME IInv, Next, NEW e \in Editors, pc[e] = "insert", pc'[e] = "answer",
                      undisturbed[e], request[e].kind = "close"
               PROVE  Balance(request[e])' = 0
    BY DEF vars
  <2>1. Insert(e)
    BY StepsToAnswer
  <2>2. QED BY <2>1, InsertCloses
<1>2. QED BY <1>1, Invariant, PTL DEF Spec, ClosedIsZero

=============================================================================
