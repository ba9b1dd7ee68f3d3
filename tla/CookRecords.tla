---------------------------- MODULE CookRecords ----------------------------
(***************************************************************************)
(* The numbers of one cook through import, creation and replacement        *)
(* (backend/app/services/cooks.py, backend/app/migration/transform.py):    *)
(* what is stored, what the pages about cooks show of it, what a preview   *)
(* promises and what the balances charge.  The vote variants are           *)
(* renumbered row by row as in VariantPositions; the rest of an update is  *)
(* in the step that commits it.  Requests on other cooks, versions and     *)
(* dates are the subject of CookEditing.                                   *)
(***************************************************************************)
EXTENDS VariantPositions, CookCharges

CONSTANTS
  Users,
  SalesOf,     \* the discounts each user may have, in parts of One
  CookSales,   \* the sales of imported cooks, in parts of One
  NewSale,     \* NEW_COOK_SALE
  VoteTables,  \* the values the variants may have
  Receipts,    \* lists of products
  Rosters,     \* who takes part, active or not, with which votes
  NoCook

Ballot == [user : Users, active : BOOLEAN, votes : SUBSET Variants]

\* cook_members with their votes: a ballot and permanent_sale_snapshot.
Member == [user : Users, active : BOOLEAN, votes : SUBSET Variants, sale : Int]

Cook ==
  [value : VoteTables, products : Receipts, sale : Int, rows : SUBSET Member,
   total : {TotalPrice(products) : products \in Receipts}]

\* Contract: a user is named once and has a vote; an imported member may have none.
ASSUME RecordAssumption ==
  /\ IsFiniteSet(Users) /\ IsFiniteSet(Variants)
  /\ \A products \in Receipts :
       /\ IsFiniteSet(DOMAIN products)
       /\ \A i \in DOMAIN products :
            products[i].complete => products[i].price \in Int \cup {Unreadable}
  /\ SalesOf \in [Users -> SUBSET Int]
  /\ CookSales \subseteq Int /\ NewSale \in Int
  /\ VoteTables \subseteq [Variants -> Int]
  /\ Rosters \subseteq SUBSET Ballot
  /\ \A roster \in Rosters : \A a, b \in roster : a.user = b.user => a = b
  /\ NoCook \notin Cook

VARIABLES
  discount,   \* users.permanent_sale
  cook        \* the committed rows, NoCook before there is one

recordVars == <<vars, discount, cook>>

Voting(roster) == \A m \in roster : m.votes # {}

-----------------------------------------------------------------------------

\* The place of a variant in the list that is ordered by position.
Index(numbering, v) == Cardinality({w \in Variants : numbering[w] <= numbering[v]})

\* Votes become indexes into the list of values before they are added up.
Calculate(numbering, value, products, rows, sale) ==
  LET values == [i \in 1 .. Cardinality(Variants) |->
                   value[CHOOSE v \in Variants : Index(numbering, v) = i]]
      inputs == {[user |-> m.user, active |-> m.active, sale |-> m.sale,
                  indexes |-> {Index(numbering, v) : v \in m.votes}] : m \in rows}
  IN  calculate_cook(products, values, inputs, sale)

WithSales(roster, sales) ==
  {[user |-> m.user, active |-> m.active, votes |-> m.votes, sale |-> sales[m.user]] :
     m \in roster}

\* The draft a form sends that shows these rows.
Roster(rows) == {[user |-> m.user, active |-> m.active, votes |-> m.votes] : m \in rows}

\* What the cook and the list of cooks show, calculated from the stored rows.
Shown == Calculate(position, cook.value, cook.products, cook.rows, cook.sale)

\* What the balances charge for the cook.
Charged == calculate_cook_charges(cook.total, cook.value, cook.rows, cook.sale)

\* The list of balances can be loaded: nothing fails, and the contract of a week refuses
\* to show that somebody was charged less than nothing.
Available ==
  cook # NoCook => Charged # Failed /\ \A u \in DOMAIN Charged : Charged[u] >= 0

\* Prices or votes below zero, which no contract excludes.
Negative ==
  \/ cook.total < 0
  \/ \E m \in cook.rows : EffectiveWeight(SumFunctionOnSet(cook.value, m.votes), m, cook.sale) < 0

Snapshots(rows) == [u \in {m.user : m \in rows} |-> (CHOOSE m \in rows : m.user = u).sale]

\* Fault: the users' discounts of today are applied to all members.
Preview_today(numbering, value, products, roster) ==
  Calculate(numbering, value, products, WithSales(roster, discount),
            IF cook = NoCook THEN NewSale ELSE cook.sale)

\* preview_cook: stored snapshots go before the users' discounts.
Preview(numbering, value, products, roster) ==
  LET stored == IF cook = NoCook THEN << >> ELSE Snapshots(cook.rows)
  IN  Calculate(numbering, value, products,
                WithSales(roster, [u \in Users |->
                  IF u \in DOMAIN stored THEN stored[u] ELSE discount[u]]),
                IF cook = NoCook THEN NewSale ELSE cook.sale)

-----------------------------------------------------------------------------

\* Variants are counted from 0 when they are created.
RecordInit ==
  /\ Init
  /\ \A v \in Variants : \E n \in 1 .. Cardinality(Variants) : position[v] = n - 1
  /\ discount \in {f \in [Users -> UNION {SalesOf[u] : u \in Users}] :
                     \A u \in Users : f[u] \in SalesOf[u]}
  /\ cook = NoCook

\* A user is given another discount (catalog.py, update_user).  An update under way
\* has read the users before: a change it does not see is one after it.
ChangeDiscount(u, s) ==
  /\ phase = "idle"
  /\ discount[u] # s
  /\ discount' = [discount EXCEPT ![u] = s]
  /\ UNCHANGED <<vars, cook>>

\* Import keeps a cook that cannot be calculated; members are the users' discounts.
Import ==
  /\ cook = NoCook
  /\ \E value \in VoteTables, products \in Receipts, roster \in Rosters, sale \in CookSales :
       cook' = [value |-> value, products |-> products, sale |-> sale,
                rows |-> WithSales(roster, discount), total |-> TotalPrice(products)]
  /\ UNCHANGED <<vars, discount>>

\* create_cook, from the votes and the variants of the template.
Create ==
  /\ cook = NoCook
  /\ \E value \in VoteTables, products \in Receipts, roster \in Rosters :
       LET rows == WithSales(roster, discount)
       IN  /\ Voting(roster)
           /\ Calculate(position, value, products, rows, NewSale) # Failed
           /\ cook' = [value |-> value, products |-> products, sale |-> NewSale,
                       rows |-> rows, total |-> TotalPrice(products)]
  /\ UNCHANGED <<vars, discount>>

\* Members that stay keep their snapshot.
Kept(roster, keep) ==
  WithSales(roster, [u \in Users |-> IF u \in keep THEN Snapshots(cook.rows)[u] ELSE discount[u]])

\* Fault: the cached total is left as it was.
Replace_uncached(value, products, roster, keep) ==
  /\ Voting(roster)
  /\ Calculate(requested, value, products, Kept(roster, keep), cook.sale) # Failed
  /\ cook' = [cook EXCEPT !.value = value, !.products = products, !.rows = Kept(roster, keep)]

\* Fault: the calculation is not required to be valid.
Replace_unchecked(value, products, roster, keep) ==
  /\ Voting(roster)
  /\ cook' = [cook EXCEPT !.value = value, !.products = products,
                          !.rows = Kept(roster, keep), !.total = TotalPrice(products)]

\* The rows of the request, when it can be calculated.
Replace(value, products, roster, keep) ==
  /\ Voting(roster)
  /\ Calculate(requested, value, products, Kept(roster, keep), cook.sale) # Failed
  /\ cook' = [cook EXCEPT !.value = value, !.products = products,
                          !.rows = Kept(roster, keep), !.total = TotalPrice(products)]

\* update_cook has renumbered the variants and commits.
Update ==
  /\ Finish
  /\ \E value \in VoteTables, products \in Receipts, roster \in Rosters :
     \E keep \in SUBSET ({m.user : m \in cook.rows} \cap {m.user : m \in roster}) :
       Replace(value, products, roster, keep)
  /\ UNCHANGED discount

\* A step of the renumbering before the commit.
Renumber ==
  /\ cook # NoCook
  /\ \/ \E new \in Numbering : \E t \in 0 .. MaxPosition + 1 : Begin(new, t)
     \/ \E v \in Variants : Park(v) \/ Place(v)
     \/ Flushed \/ Rollback
  /\ UNCHANGED <<discount, cook>>

RecordNext ==
  \/ \E u \in Users : \E s \in SalesOf[u] : ChangeDiscount(u, s)
  \/ Import \/ Create \/ Update \/ Renumber

RecordSpec == RecordInit /\ [][RecordNext]_recordVars

-----------------------------------------------------------------------------
(* Properties *)

Committed == cook # NoCook /\ phase = "idle"

\* What the cook shows is what the balances charge, although one is calculated from
\* the expressions and by places in a list, the other from a cached total and by
\* rows (cooks.py:606-643, balances.py:222-269, 611-645).
ShownIsCharged == Committed /\ Shown # Failed => Charged = Shown

\* Nothing that is saved through the page makes the list of balances of everyone fail,
\* as long as no price and no vote is below zero; an import may
\* (cooks.py:208, 351, balances.py:238-252, contracts/balances.py:108, 116).
SavesKeepBalances ==
  [][cook' # cook /\ Available => Available' \/ Import \/ Negative']_recordVars

\* A preview shows what saving the same draft charges, for members that keep their
\* snapshots (cooks.py:471-529, 322-355).
PreviewIsSaved ==
  [][cook' # cook /\ ~Import =>
       LET stays == \A m \in IF cook = NoCook THEN {} ELSE cook.rows, n \in cook'.rows :
                      m.user = n.user => m.sale = n.sale
       IN  stays => Shown' = Preview(position', cook'.value, cook'.products,
                                     Roster(cook'.rows))]_recordVars

\* Rounding up favours the purse of the cook, but by less than five per member, and
\* never takes more than one unit per member from it (legacy_calculation.py:380-390).
ChargesCoverTotal ==
  Committed /\ Charged # Failed /\ cook.rows # {} /\ ~Negative
  => LET sum == SumFunction(Charged)
         n == Cardinality(cook.rows)
     IN  cook.total - n < sum /\ sum <= cook.total + 4 * n

-----------------------------------------------------------------------------
(* The invariant of CookRecordsProofs *)

RecordInv ==
  /\ discount \in [Users -> Int]
  /\ cook \in Cook \cup {NoCook}
  /\ cook = NoCook => phase = "idle"
  /\ cook # NoCook =>
       /\ cook.total = TotalPrice(cook.products)
       /\ \A m, n \in cook.rows : m.user = n.user => m = n

=============================================================================
