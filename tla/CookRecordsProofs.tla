------------------------- MODULE CookRecordsProofs -------------------------
(***************************************************************************)
(* The renumbering inside an update never runs into the unique constraint; *)
(* every update of a cook is such a renumbering; a preview is what saving  *)
(* it shows, what is shown is charged, and the charges cover the total,    *)
(* for any variants, members, votes and prices.  The text of a price is    *)
(* given the value it means, or none.                                      *)
(***************************************************************************)
EXTENDS MCCookRecords, Sums

(* Renumbering *)

LEMMA InitInvariant == Init => IInv
  BY VariantAssumption DEF Init, IInv, StateOK, RowsWhereTheyBelong, Numbering, Positions

\* One UPDATE of a row to a position no other row has.
LEMMA PutFree ==
  ASSUME IInv, NEW v \in Variants, NEW p \in Nat, Put(v, p),
         \A w \in Variants \ {v} : position[w] # p
  PROVE  /\ phase' = phase
         /\ position' \in [Variants -> Nat]
         /\ position'[v] = p
         /\ \A w \in Variants \ {v} : position'[w] = position[w]
  BY DEF Put, IInv, StateOK

\* A row is parked at a number above all positions, which no other parked row has.
LEMMA ParkInvariant == ASSUME IInv, NEW v \in Variants, Park(v) PROVE IInv'
<1>1. /\ temporary \in Nat /\ Offset[v] \in Nat
      /\ before \in Numbering /\ requested \in Numbering
      /\ position \in [Variants -> Nat]
      /\ \A w \in Variants : before[w] \in Nat
  BY VariantAssumption DEF IInv, StateOK, Numbering, Positions
<1>2. \A w \in Variants \ {v} : position[w] # temporary + Offset[v]
  <2> SUFFICES ASSUME NEW w \in Variants \ {v} PROVE position[w] # temporary + Offset[v]
    OBVIOUS
  <2>1. CASE w \in parked
    <3>1. position[w] = temporary + Offset[w]
      BY <2>1 DEF IInv, RowsWhereTheyBelong, Park
    <3>2. Offset[w] # Offset[v] /\ Offset[w] \in Nat
      BY VariantAssumption
    <3> QED BY <1>1, <3>1, <3>2
  <2>2. CASE w \notin parked
    <3>1. position[w] = before[w] /\ temporary > before[w]
      BY <2>2 DEF IInv, RowsWhereTheyBelong, Park, Above
    <3> QED BY <1>1, <3>1
  <2> QED BY <2>1, <2>2
<1>3. /\ phase' = "parking" /\ phase = "parking"
      /\ position' \in [Variants -> Nat]
      /\ position'[v] = temporary + Offset[v]
      /\ \A w \in Variants \ {v} : position'[w] = position[w]
  BY <1>1, <1>2, PutFree DEF Park
<1>4. StateOK'
  BY <1>3 DEF IInv, StateOK, Park
<1>5. RowsWhereTheyBelong'
  BY <1>3 DEF IInv, RowsWhereTheyBelong, Park, Above
<1> QED BY <1>4, <1>5 DEF IInv

\* A row gets its position back below all that are parked; no other request has it.
LEMMA PlaceInvariant == ASSUME IInv, NEW v \in Variants, Place(v) PROVE IInv'
<1>1. /\ temporary \in Nat
      /\ requested \in Numbering
      /\ position \in [Variants -> Nat]
      /\ \A w \in Variants : requested[w] \in Nat /\ Offset[w] \in Nat
  BY VariantAssumption DEF IInv, StateOK, Numbering, Positions
<1>2. \A w \in Variants \ {v} : position[w] # requested[v]
  <2> SUFFICES ASSUME NEW w \in Variants \ {v} PROVE position[w] # requested[v]
    OBVIOUS
  <2>1. CASE w \in placed
    BY <2>1, <1>1 DEF IInv, RowsWhereTheyBelong, Place, Numbering
  <2>2. CASE w \notin placed
    <3>1. position[w] = temporary + Offset[w] /\ temporary > requested[v]
      BY <2>2 DEF IInv, RowsWhereTheyBelong, Place, Above
    <3> QED BY <1>1, <3>1
  <2> QED BY <2>1, <2>2
<1>3. /\ phase' = "placing" /\ phase = "placing"
      /\ position' \in [Variants -> Nat]
      /\ position'[v] = requested[v]
      /\ \A w \in Variants \ {v} : position'[w] = position[w]
  BY <1>1, <1>2, PutFree DEF Place
<1>4. StateOK'
  BY <1>3 DEF IInv, StateOK, Place
<1>5. RowsWhereTheyBelong'
  BY <1>3 DEF IInv, RowsWhereTheyBelong, Place, Above
<1> QED BY <1>4, <1>5 DEF IInv

\* The steps that write no row, and the rollback.
LEMMA PhaseInvariant ==
  ASSUME IInv,
         \/ \E new \in Numbering : \E t \in 0 .. MaxPosition + 1 : Begin(new, t)
         \/ Flushed \/ Finish \/ Rollback
  PROVE  IInv'
<1>1. ASSUME NEW new \in Numbering, NEW t \in 0 .. MaxPosition + 1, Begin(new, t)
      PROVE  IInv'
  <2>1. position \in Numbering
    BY <1>1 DEF IInv, StateOK, RowsWhereTheyBelong, Begin
  <2>2. t \in Nat
    BY VariantAssumption
  <2> QED BY <1>1, <2>1, <2>2 DEF IInv, StateOK, RowsWhereTheyBelong, Begin, Above
<1>2. CASE Flushed
  <2>1. \A v \in Variants : position[v] = temporary + Offset[v] /\ v \notin placed
    BY <1>2 DEF IInv, RowsWhereTheyBelong, Flushed
  <2>2. phase' = "placing" /\ Above(temporary, before, requested)
    BY <1>2 DEF IInv, RowsWhereTheyBelong, Flushed
  <2>3. StateOK'
    BY <1>2 DEF IInv, StateOK, Flushed
  <2>4. RowsWhereTheyBelong'
    BY <1>2, <2>1, <2>2 DEF RowsWhereTheyBelong, Flushed, Above
  <2> QED BY <2>3, <2>4 DEF IInv
<1>3. CASE Finish
  <2>1. position \in [Variants -> Nat] /\ requested \in [Variants -> Positions]
    BY DEF IInv, StateOK, Numbering
  <2>2. \A v \in Variants : position[v] = requested[v]
    BY <1>3 DEF IInv, StateOK, RowsWhereTheyBelong, Finish
  <2>3. position = requested
    BY <2>1, <2>2
  <2> QED BY <1>3, <2>3 DEF IInv, StateOK, RowsWhereTheyBelong, Finish
<1>4. CASE Rollback
  <2>1. before \in [Variants -> Nat]
    BY VariantAssumption DEF IInv, StateOK, Numbering, Positions
  <2> QED BY <1>4, <2>1 DEF IInv, StateOK, RowsWhereTheyBelong, Rollback
<1> QED BY <1>1, <1>2, <1>3, <1>4

LEMMA StepInvariant == IInv /\ [Next]_vars => IInv'
<1> SUFFICES ASSUME IInv, [Next]_vars PROVE IInv'
  OBVIOUS
<1>1. CASE UNCHANGED vars
  BY <1>1 DEF vars, IInv, StateOK, RowsWhereTheyBelong, Above
<1> QED BY <1>1, ParkInvariant, PlaceInvariant, PhaseInvariant DEF Next

\* No UPDATE of a renumbering is refused by the unique constraint (cooks.py:356-368).
THEOREM RenumberingIsAccepted == Spec => []NeverCollides
<1>1. IInv => NeverCollides
  BY DEF IInv, StateOK, NeverCollides
<1> QED BY <1>1, InitInvariant, StepInvariant, PTL DEF Spec

\* A request that ends leaves its numbering, or the one before it (cooks.py:356-368).
THEOREM RenumberingIsWhole == Spec => []RequestedWhenIdle
<1>1. IInv => RequestedWhenIdle
  BY DEF IInv, RowsWhereTheyBelong, RequestedWhenIdle
<1> QED BY <1>1, InitInvariant, StepInvariant, PTL DEF Spec

-----------------------------------------------------------------------------
(* A cook *)

\* Every step of a cook is a step of the renumbering or leaves it alone.
THEOREM RecordsRenumber == RecordSpec => Spec
<1>1. RecordInit => Init
  BY DEF RecordInit
<1>2. [RecordNext]_recordVars => [Next]_vars
  BY DEF RecordNext, recordVars, Next, ChangeDiscount, Import, Create, Update, Renumber, vars
<1> QED BY <1>1, <1>2, PTL DEF RecordSpec, Spec

-----------------------------------------------------------------------------
(* The rows of a cook *)

\* Rows made from ballots are members, one per user, with the given discounts.
LEMMA RowsOfRoster ==
  ASSUME NEW roster \in Rosters, NEW sales \in [Users -> Int]
  PROVE  /\ WithSales(roster, sales) \in SUBSET Member
         /\ \A m, n \in WithSales(roster, sales) : m.user = n.user => m = n
         /\ \A m \in WithSales(roster, sales) : m.sale = sales[m.user]
<1>1. /\ roster \subseteq Ballot
      /\ \A a, b \in roster : a.user = b.user => a = b
  BY RecordAssumption
<1> QED BY <1>1 DEF WithSales, Ballot, Member

\* A discount per user that agrees with the rows turns their draft into the rows.
LEMMA RowsOfDraft ==
  ASSUME NEW rows \in SUBSET Member, NEW sales, \A m \in rows : m.sale = sales[m.user]
  PROVE  WithSales(Roster(rows), sales) = rows
<1> DEFINE Draft(m) == [user |-> m.user, active |-> m.active, votes |-> m.votes]
           Row(b) == [user |-> b.user, active |-> b.active, votes |-> b.votes,
                      sale |-> sales[b.user]]
<1>1. ASSUME NEW m \in rows PROVE Row(Draft(m)) = m
  BY DEF Member
<1>2. WithSales(Roster(rows), sales) = {Row(b) : b \in {Draft(m) : m \in rows}}
  BY DEF WithSales, Roster
<1> HIDE DEF Draft, Row
<1> QED BY <1>1, <1>2

\* The snapshot of a user who takes part.
LEMMA SnapshotOfRow ==
  ASSUME NEW rows \in SUBSET Member, \A m, n \in rows : m.user = n.user => m = n
  PROVE  /\ DOMAIN Snapshots(rows) = {m.user : m \in rows}
         /\ \A m \in rows : Snapshots(rows)[m.user] = m.sale
         /\ \A u \in {m.user : m \in rows} : Snapshots(rows)[u] \in Int
<1>1. ASSUME NEW m \in rows PROVE (CHOOSE n \in rows : n.user = m.user) = m
  OBVIOUS
<1> QED BY <1>1 DEF Snapshots, Member

\* The discounts an update gives to the members of its request.
KeptSales(keep) == [u \in Users |-> IF u \in keep THEN Snapshots(cook.rows)[u] ELSE discount[u]]

LEMMA KeptSalesType ==
  ASSUME RecordInv, cook # NoCook, NEW keep \in SUBSET {m.user : m \in cook.rows}
  PROVE  KeptSales(keep) \in [Users -> Int]
<1>1. cook.rows \in SUBSET Member /\ \A m, n \in cook.rows : m.user = n.user => m = n
  BY DEF RecordInv, Cook
<1>2. \A u \in keep : Snapshots(cook.rows)[u] \in Int
  BY <1>1, SnapshotOfRow
<1> QED BY <1>2 DEF KeptSales, RecordInv

-----------------------------------------------------------------------------
(* The invariant *)

LEMMA RecordInitInv == RecordInit => RecordInv
<1> SUFFICES ASSUME RecordInit PROVE RecordInv
  OBVIOUS
<1>1. discount \in [Users -> Int]
  BY RecordAssumption DEF RecordInit
<1> QED BY <1>1 DEF RecordInit, RecordInv, Init

\* What is written for a new cook.
LEMMA NewCook ==
  ASSUME NEW value \in VoteTables, NEW products \in Receipts, NEW sale \in Int,
         NEW roster \in Rosters, NEW sales \in [Users -> Int],
         cook' = [value |-> value, products |-> products, sale |-> sale,
                  rows |-> WithSales(roster, sales), total |-> TotalPrice(products)]
  PROVE  /\ cook' \in Cook /\ cook' # NoCook
         /\ cook'.total = TotalPrice(cook'.products)
         /\ \A m, n \in cook'.rows : m.user = n.user => m = n
<1>1. WithSales(roster, sales) \in SUBSET Member
  BY RowsOfRoster
<1>2. cook' \in Cook
  BY <1>1 DEF Cook
<1>3. cook'.rows = WithSales(roster, sales) /\ cook'.total = TotalPrice(cook'.products)
  OBVIOUS
<1> QED BY <1>2, <1>3, RowsOfRoster, RecordAssumption

\* What an update writes: a new cook but for the sale.
LEMMA ReplacedCook ==
  ASSUME RecordInv, cook # NoCook,
         NEW value, NEW products, NEW roster,
         NEW keep \in SUBSET {m.user : m \in cook.rows},
         Replace(value, products, roster, keep)
  PROVE  cook' = [value |-> value, products |-> products, sale |-> cook.sale,
                  rows |-> WithSales(roster, KeptSales(keep)), total |-> TotalPrice(products)]
  BY DEF Replace, Kept, KeptSales, RecordInv, Cook

LEMMA RecordStepInv == RecordInv /\ [RecordNext]_recordVars => RecordInv'
<1> SUFFICES ASSUME RecordInv, [RecordNext]_recordVars PROVE RecordInv'
  OBVIOUS
<1>1. CASE UNCHANGED recordVars
  BY <1>1 DEF recordVars, vars, RecordInv
<1>2. ASSUME NEW u \in Users, NEW s \in SalesOf[u], ChangeDiscount(u, s) PROVE RecordInv'
  <2>1. s \in Int
    BY RecordAssumption
  <2> QED BY <1>2, <2>1 DEF ChangeDiscount, RecordInv, vars
<1>3. CASE Import
  <2>1. PICK value \in VoteTables, products \in Receipts, roster \in Rosters,
             sale \in CookSales :
               cook' = [value |-> value, products |-> products, sale |-> sale,
                        rows |-> WithSales(roster, discount), total |-> TotalPrice(products)]
    BY <1>3 DEF Import
  <2>2. discount \in [Users -> Int] /\ sale \in Int
    BY RecordAssumption DEF RecordInv
  <2>3. /\ cook' \in Cook /\ cook' # NoCook
        /\ cook'.total = TotalPrice(cook'.products)
        /\ \A m, n \in cook'.rows : m.user = n.user => m = n
    BY <2>1, <2>2, NewCook
  <2> QED BY <1>3, <2>3 DEF Import, RecordInv, vars
<1>4. CASE Create
  <2>1. PICK value \in VoteTables, products \in Receipts, roster \in Rosters :
               cook' = [value |-> value, products |-> products, sale |-> NewSale,
                        rows |-> WithSales(roster, discount), total |-> TotalPrice(products)]
    BY <1>4 DEF Create
  <2>2. discount \in [Users -> Int] /\ NewSale \in Int
    BY RecordAssumption DEF RecordInv
  <2>3. /\ cook' \in Cook /\ cook' # NoCook
        /\ cook'.total = TotalPrice(cook'.products)
        /\ \A m, n \in cook'.rows : m.user = n.user => m = n
    BY <2>1, <2>2, NewCook
  <2> QED BY <1>4, <2>3 DEF Create, RecordInv, vars
<1>5. CASE Update
  <2>1. cook # NoCook
    BY <1>5 DEF Update, Finish, RecordInv
  <2>2. PICK value \in VoteTables, products \in Receipts, roster \in Rosters :
          \E keep \in SUBSET ({m.user : m \in cook.rows} \cap {m.user : m \in roster}) :
            Replace(value, products, roster, keep)
    BY <1>5 DEF Update
  <2>3. PICK keep \in SUBSET {m.user : m \in cook.rows} : Replace(value, products, roster, keep)
    BY <2>2
  <2>4. KeptSales(keep) \in [Users -> Int]
    BY <2>1, KeptSalesType
  <2>5. cook.sale \in Int
    BY <2>1 DEF RecordInv, Cook
  <2>6. cook' = [value |-> value, products |-> products, sale |-> cook.sale,
                 rows |-> WithSales(roster, KeptSales(keep)), total |-> TotalPrice(products)]
    BY <2>1, <2>3, ReplacedCook
  <2>7. /\ cook' \in Cook /\ cook' # NoCook
        /\ cook'.total = TotalPrice(cook'.products)
        /\ \A m, n \in cook'.rows : m.user = n.user => m = n
    BY <2>4, <2>5, <2>6, NewCook
  <2> QED BY <1>5, <2>7 DEF Update, RecordInv
<1>6. CASE Renumber
  BY <1>6 DEF Renumber, RecordInv
<1> QED BY <1>1, <1>2, <1>3, <1>4, <1>5, <1>6 DEF RecordNext

\* The cached total is the one the products add up to, and a user has one row.
THEOREM RecordsSound == RecordSpec => []RecordInv
  BY RecordInitInv, RecordStepInv, PTL DEF RecordSpec

-----------------------------------------------------------------------------
(* Previews *)

\* Before there is a cook, a preview calculates with the users' discounts.
LEMMA PreviewOfNew ==
  ASSUME RecordInv, Create
  PROVE  Shown' = Preview(position', cook'.value, cook'.products, Roster(cook'.rows))
<1>1. cook = NoCook
  BY DEF Create
<1>2. PICK value \in VoteTables, products \in Receipts, roster \in Rosters :
             cook' = [value |-> value, products |-> products, sale |-> NewSale,
                      rows |-> WithSales(roster, discount), total |-> TotalPrice(products)]
  BY DEF Create
<1>3. discount \in [Users -> Int]
  BY DEF RecordInv
<1> DEFINE sales == [u \in Users |-> IF u \in DOMAIN << >> THEN << >>[u] ELSE discount[u]]
<1>4. sales = discount
  BY <1>3
<1>5. cook'.rows = WithSales(roster, discount) /\ cook'.sale = NewSale
  BY <1>2
<1>6. cook'.rows \in SUBSET Member /\ \A m \in cook'.rows : m.sale = discount[m.user]
  BY <1>3, <1>5, RowsOfRoster
<1>7. WithSales(Roster(cook'.rows), sales) = cook'.rows
  BY <1>4, <1>6, RowsOfDraft
<1>8. Preview(position', cook'.value, cook'.products, Roster(cook'.rows))
        = Calculate(position', cook'.value, cook'.products,
                    WithSales(Roster(cook'.rows), sales), NewSale)
  BY <1>1 DEF Preview
<1> QED BY <1>5, <1>7, <1>8 DEF Shown

\* Later it calculates with the snapshots of those who take part already.
LEMMA PreviewOfUpdate ==
  ASSUME RecordInv, Update,
         \A m \in cook.rows, n \in cook'.rows : m.user = n.user => m.sale = n.sale
  PROVE  Shown' = Preview(position', cook'.value, cook'.products, Roster(cook'.rows))
<1>1. cook # NoCook
  BY DEF Update, Finish, RecordInv
<1>2. PICK value \in VoteTables, products \in Receipts, roster \in Rosters :
        \E keep \in SUBSET ({m.user : m \in cook.rows} \cap {m.user : m \in roster}) :
          Replace(value, products, roster, keep)
  BY DEF Update
<1>3. PICK keep \in SUBSET {m.user : m \in cook.rows} : Replace(value, products, roster, keep)
  BY <1>2
<1>4. cook' = [value |-> value, products |-> products, sale |-> cook.sale,
               rows |-> WithSales(roster, KeptSales(keep)), total |-> TotalPrice(products)]
  BY <1>1, <1>3, ReplacedCook
<1>5. KeptSales(keep) \in [Users -> Int]
  BY <1>1, KeptSalesType
<1>6. /\ cook'.rows \in SUBSET Member
      /\ \A n \in cook'.rows : n.sale = KeptSales(keep)[n.user]
  BY <1>4, <1>5, RowsOfRoster
<1> DEFINE stored == Snapshots(cook.rows)
           sales == [u \in Users |-> IF u \in DOMAIN stored THEN stored[u] ELSE discount[u]]
<1>7. cook.rows \in SUBSET Member /\ \A m, n \in cook.rows : m.user = n.user => m = n
  BY <1>1 DEF RecordInv, Cook
<1>8. ASSUME NEW n \in cook'.rows PROVE n.sale = sales[n.user]
  <2>1. n.user \in Users
    BY <1>6 DEF Member
  <2>2. CASE n.user \in DOMAIN stored
    <3>1. DOMAIN stored = {m.user : m \in cook.rows}
      BY <1>7, SnapshotOfRow
    <3>2. PICK m \in cook.rows : m.user = n.user
      BY <2>2, <3>1
    <3>3. stored[n.user] = m.sale
      BY <1>7, <3>2, SnapshotOfRow
    <3> QED BY <2>1, <2>2, <3>2, <3>3
  <2>3. CASE n.user \notin DOMAIN stored
    <3>1. n.user \notin keep
      BY <1>7, <2>3, SnapshotOfRow
    <3> QED BY <1>6, <2>1, <2>3, <3>1 DEF KeptSales
  <2> QED BY <2>2, <2>3
<1>9. WithSales(Roster(cook'.rows), sales) = cook'.rows
  BY <1>6, <1>8, RowsOfDraft
<1>10. cook'.sale = cook.sale
  BY <1>4
<1>11. Preview(position', cook'.value, cook'.products, Roster(cook'.rows))
         = Calculate(position', cook'.value, cook'.products,
                     WithSales(Roster(cook'.rows), sales), cook.sale)
  BY <1>1 DEF Preview
<1> QED BY <1>9, <1>10, <1>11 DEF Shown

\* A preview shows what saving the same draft charges, for any rosters, receipts,
\* vote values and discounts (cooks.py:471-529, 322-355).
THEOREM PreviewHolds == RecordSpec => PreviewIsSaved
<1> DEFINE earlier == IF cook = NoCook THEN {} ELSE cook.rows
           stays == \A m \in earlier, n \in cook'.rows : m.user = n.user => m.sale = n.sale
           promised == Preview(position', cook'.value, cook'.products, Roster(cook'.rows))
<1>1. ASSUME RecordInv, [RecordNext]_recordVars, cook' # cook, ~Import, stays
      PROVE  Shown' = promised
  <2>1. Create \/ Update
    BY <1>1 DEF RecordNext, recordVars, ChangeDiscount, Renumber
  <2>2. CASE Create
    BY <1>1, <2>2, PreviewOfNew
  <2>3. CASE Update
    <3>1. cook # NoCook
      BY <1>1, <2>3 DEF Update, Finish, RecordInv
    <3> QED BY <1>1, <2>3, <3>1, PreviewOfUpdate
  <2> QED BY <2>1, <2>2, <2>3
<1>2. RecordInv /\ [RecordNext]_recordVars
        => [cook' # cook /\ ~Import => (stays => Shown' = promised)]_recordVars
  BY <1>1
<1> QED BY <1>2, RecordsSound, PTL DEF RecordSpec, PreviewIsSaved

-----------------------------------------------------------------------------
(* Rounding *)

\* A charge is a multiple of five, never below the whole part of the price; it exceeds
\* a price that is not negative by less than five, and one below -4 by four to eight,
\* because C# cuts quotients towards zero (legacy_calculation.py:371-390).
THEOREM RoundingBounds ==
  ASSUME NEW price \in Int
  PROVE  /\ ceil_to_5(price) \in Int /\ ceil_to_5(price) % 5 = 0
         /\ price <= ceil_to_5(price)
         /\ price >= -4 => ceil_to_5(price) <= price + 4
         /\ price < -4 => ceil_to_5(price) \in price + 4 .. price + 8
<1>1. CASE price >= -4
  <2>1. ceil_to_5(price) = ((price + 4) \div 5) * 5
    BY <1>1 DEF ceil_to_5, truncating_integer_division, Magnitude
  <2> QED BY <1>1, <2>1
<1>2. CASE price < -4
  <2>1. ceil_to_5(price) = (-((-(price + 4)) \div 5)) * 5
    BY <1>2 DEF ceil_to_5, truncating_integer_division, Magnitude
  <2> QED BY <1>2, <2>1
<1> QED BY <1>1, <1>2

\* Who is to pay more is never charged less.
THEOREM RoundingKeepsOrder ==
  ASSUME NEW low \in Int, NEW high \in Int, low <= high
  PROVE  ceil_to_5(low) <= ceil_to_5(high)
<1>1. CASE low >= -4
  BY <1>1 DEF ceil_to_5, truncating_integer_division, Magnitude
<1>2. CASE low < -4 /\ high < -4
  BY <1>2 DEF ceil_to_5, truncating_integer_division, Magnitude
<1>3. CASE low < -4 /\ high >= -4
  BY <1>3 DEF ceil_to_5, truncating_integer_division, Magnitude
<1> QED BY <1>1, <1>2, <1>3

\* A share of the total is covered but for less than one, and exceeded by at most four.
THEOREM ShareIsCovered ==
  ASSUME NEW total \in Nat, NEW weight \in Nat, NEW all \in Nat \ {0}
  PROVE  /\ Rounded(total, weight, all) * all > total * weight - all
         /\ Rounded(total, weight, all) * all <= total * weight + 4 * all
<1> DEFINE share == total * weight
           whole == share \div all
<1>1. share \in Nat /\ whole \in Nat
  OBVIOUS
<1>2. whole * all <= share /\ share < whole * all + all
  BY <1>1
<1>3. Rounded(total, weight, all) = ceil_to_5(whole)
  BY <1>1 DEF Rounded, truncating_integer_division, Magnitude
<1>4. ceil_to_5(whole) \in Int /\ whole <= ceil_to_5(whole) /\ ceil_to_5(whole) <= whole + 4
  BY <1>1, RoundingBounds
<1> DEFINE charge == ceil_to_5(whole)
<1> HIDE DEF share, whole, charge
<1>5. whole * all <= charge * all /\ charge * all <= (whole + 4) * all
  BY <1>1, <1>4 DEF charge
<1>6. (whole + 4) * all = whole * all + 4 * all
  BY <1>1
<1> QED BY <1>1, <1>2, <1>3, <1>4, <1>5, <1>6 DEF charge, share

-----------------------------------------------------------------------------
(* What is charged *)

\* A cook as RecordInv has it, its weights and its charges.
CookOK(c) ==
  /\ c \in Cook /\ c.total = TotalPrice(c.products)
  /\ \A m, n \in c.rows : m.user = n.user => m = n

WeightIn(c, m) == EffectiveWeight(SumFunctionOnSet(c.value, m.votes), m, c.sale)

WeightsOf(c) == [m \in c.rows |-> WeightIn(c, m)]

AllOf(c) == SumFunction(WeightsOf(c))

ChargedOf(c) == calculate_cook_charges(c.total, c.value, c.rows, c.sale)

NegativeOf(c) == c.total < 0 \/ \E m \in c.rows : WeightIn(c, m) < 0

\* What the products add up to is a number, or nothing.
LEMMA TotalType ==
  ASSUME NEW products \in Receipts
  PROVE  TotalPrice(products) \in Int \cup {NoTotal}
<1> DEFINE included == {i \in DOMAIN products : products[i].complete}
           prices == [i \in included |-> products[i].price]
<1>1. CASE \E i \in included : products[i].price = Unreadable
  BY <1>1 DEF TotalPrice
<1>2. CASE ~ \E i \in included : products[i].price = Unreadable
  <2>1. IsFiniteSet(included)
    BY RecordAssumption, FS_Subset
  <2>2. \A i \in included : prices[i] \in Int
    BY <1>2, RecordAssumption
  <2>3. TotalPrice(products) = SumFunctionOnSet(prices, included)
    BY <1>2 DEF TotalPrice
  <2> HIDE DEF included, prices
  <2>4. QED BY <2>1, <2>2, <2>3, SumType
<1>3. QED BY <1>1, <1>2

\* The numbers of a cook.
LEMMA CookTypes ==
  ASSUME NEW c, CookOK(c)
  PROVE  /\ IsFiniteSet(c.rows) /\ c.total \in Int \cup {NoTotal}
         /\ \A m \in c.rows : /\ m \in Member /\ m.votes \subseteq Variants
                             /\ IsFiniteSet(m.votes) /\ WeightIn(c, m) \in Int
         /\ AllOf(c) = SumFunctionOnSet(WeightsOf(c), c.rows) /\ AllOf(c) \in Int
         /\ c.value \in [Variants -> Int] /\ c.sale \in Int
<1>1. /\ c.rows \in SUBSET Member /\ c.value \in [Variants -> Int] /\ c.sale \in Int
      /\ c.products \in Receipts /\ c.total = TotalPrice(c.products)
  BY RecordAssumption DEF CookOK, Cook
<1>2. IsFiniteSet(c.rows)
  <2> DEFINE f == [m \in c.rows |-> m.user]
  <2>1. f \in Injection(c.rows, Users)
    BY <1>1 DEF Injection, IsInjective, CookOK, Member
  <2> HIDE DEF f
  <2>2. QED BY <2>1, RecordAssumption, FS_Injection
<1>3. c.total \in Int \cup {NoTotal}
  BY <1>1, TotalType
<1>4. ASSUME NEW m \in c.rows
      PROVE  /\ m \in Member /\ m.votes \subseteq Variants
             /\ IsFiniteSet(m.votes) /\ WeightIn(c, m) \in Int
  <2>1. m \in Member /\ m.votes \subseteq Variants /\ m.sale \in Int
    BY <1>1 DEF Member
  <2>2. IsFiniteSet(m.votes)
    BY <2>1, RecordAssumption, FS_Subset
  <2> DEFINE vote == SumFunctionOnSet(c.value, m.votes)
  <2>3. vote \in Int
    BY <1>1, <2>1, <2>2, SumType
  <2> HIDE DEF vote
  <2>4. EffectiveWeight(vote, m, c.sale) \in Int
    <3>1. (IF m.active THEN c.sale ELSE One) \in Int
      BY <1>1, ChargesAssumption
    <3>2. QED BY <2>1, <2>3, <3>1 DEF EffectiveWeight
  <2>5. QED BY <2>1, <2>2, <2>4 DEF WeightIn, vote
<1>5. AllOf(c) = SumFunctionOnSet(WeightsOf(c), c.rows)
  BY DEF AllOf, SumFunction, WeightsOf
<1>6. \A m \in c.rows : WeightsOf(c)[m] \in Int
  BY <1>4 DEF WeightsOf
<1>7. AllOf(c) \in Int
  BY <1>2, <1>5, <1>6, SumType
<1>8. QED BY <1>1, <1>2, <1>3, <1>4, <1>5, <1>7

RowOf(rows, u) == CHOOSE m \in rows : m.user = u

LEMMA RowOfUser ==
  ASSUME NEW c, CookOK(c), NEW m \in c.rows
  PROVE  RowOf(c.rows, m.user) = m
BY DEF RowOf, CookOK

\* Charges that do not fail, row by row.
LEMMA ChargesUnfolded ==
  ASSUME NEW c, CookOK(c)
  PROVE  /\ c.rows = {} => ChargedOf(c) = << >>
         /\ c.rows # {} /\ ChargedOf(c) # Failed =>
              /\ c.total \in Int /\ AllOf(c) # 0
              /\ DOMAIN ChargedOf(c) = {m.user : m \in c.rows}
              /\ \A m \in c.rows :
                   ChargedOf(c)[m.user] = Rounded(c.total, WeightIn(c, m), AllOf(c))
         /\ /\ c.rows # {} /\ c.total # NoTotal /\ AllOf(c) # 0
            /\ \A m \in c.rows : ~TooLarge(c.total, WeightIn(c, m), AllOf(c))
            => ChargedOf(c) = [u \in {m.user : m \in c.rows} |->
                  Rounded(c.total, WeightIn(c, RowOf(c.rows, u)), AllOf(c))]
<1>1. ChargedOf(c) =
        IF c.rows = {} THEN << >>
        ELSE IF \/ c.total = NoTotal
                \/ AllOf(c) = 0
                \/ \E m \in c.rows : TooLarge(c.total, WeightsOf(c)[m], AllOf(c))
        THEN Failed
        ELSE [u \in {m.user : m \in c.rows} |->
                Rounded(c.total, WeightsOf(c)[RowOf(c.rows, u)], AllOf(c))]
  BY Zenon DEF ChargedOf, calculate_cook_charges, AllOf, WeightsOf, WeightIn, RowOf
<1>2. \A m \in c.rows : WeightsOf(c)[m] = WeightIn(c, m)
  BY DEF WeightsOf
<1>3. \A u \in {m.user : m \in c.rows} : RowOf(c.rows, u) \in c.rows
  BY RowOfUser
<1>4. c.total \in Int \cup {NoTotal}
  BY CookTypes
<1> DEFINE charge == [u \in {m.user : m \in c.rows} |->
                        Rounded(c.total, WeightsOf(c)[RowOf(c.rows, u)], AllOf(c))]
<1>5. charge = [u \in {m.user : m \in c.rows} |->
                  Rounded(c.total, WeightIn(c, RowOf(c.rows, u)), AllOf(c))]
  BY <1>2, <1>3
<1>6. /\ DOMAIN charge = {m.user : m \in c.rows}
      /\ \A m \in c.rows : charge[m.user] = Rounded(c.total, WeightIn(c, m), AllOf(c))
  BY <1>2, RowOfUser
<1> HIDE DEF charge
<1>7. ChargedOf(c) =
        IF c.rows = {} THEN << >>
        ELSE IF \/ c.total = NoTotal
                \/ AllOf(c) = 0
                \/ \E m \in c.rows : TooLarge(c.total, WeightsOf(c)[m], AllOf(c))
        THEN Failed
        ELSE charge
  BY <1>1 DEF charge
<1>8. QED BY <1>2, <1>4, <1>5, <1>6, <1>7

-----------------------------------------------------------------------------
(* What is shown is what is charged *)

Distinct(numbering) ==
  /\ numbering \in [Variants -> Nat]
  /\ \A v, w \in Variants : numbering[v] = numbering[w] => v = w

\* Variants that are numbered differently have different places in the list.
LEMMA IndexOneToOne ==
  ASSUME NEW numbering, Distinct(numbering)
  PROVE  /\ \A v \in Variants : Index(numbering, v) \in 1 .. Cardinality(Variants)
         /\ \A v, w \in Variants : Index(numbering, v) = Index(numbering, w) => v = w
<1> DEFINE UpTo(v) == {w \in Variants : numbering[w] <= numbering[v]}
<1>1. ASSUME NEW v \in Variants
      PROVE  /\ IsFiniteSet(UpTo(v)) /\ v \in UpTo(v) /\ UpTo(v) \subseteq Variants
             /\ Cardinality(UpTo(v)) \in 1 .. Cardinality(Variants)
  <2>1. v \in UpTo(v) /\ UpTo(v) \subseteq Variants
    BY DEF Distinct
  <2> HIDE DEF UpTo
  <2>2. /\ IsFiniteSet(UpTo(v)) /\ Cardinality(UpTo(v)) <= Cardinality(Variants)
        /\ Cardinality(UpTo(v)) \in Nat /\ Cardinality(Variants) \in Nat
    BY <2>1, RecordAssumption, FS_Subset, FS_CardinalityType
  <2>3. Cardinality(UpTo(v)) # 0
    BY <2>1, <2>2, FS_EmptySet
  <2>4. QED BY <2>1, <2>2, <2>3
<1>2. ASSUME NEW v \in Variants, NEW w \in Variants, numbering[v] < numbering[w]
      PROVE  Cardinality(UpTo(v)) # Cardinality(UpTo(w))
  <2>1. numbering[v] \in Nat /\ numbering[w] \in Nat
        /\ \A x \in Variants : numbering[x] \in Nat
    BY DEF Distinct
  <2>2. UpTo(v) \subseteq UpTo(w) /\ w \in UpTo(w) /\ w \notin UpTo(v)
    BY <1>2, <2>1
  <2>3. UpTo(v) # UpTo(w) /\ IsFiniteSet(UpTo(w))
    BY <1>1, <2>2
  <2> HIDE DEF UpTo
  <2>4. QED BY <2>2, <2>3, FS_Subset
<1>3. ASSUME NEW v \in Variants, NEW w \in Variants, Index(numbering, v) = Index(numbering, w)
      PROVE  v = w
  <2>1. Cardinality(UpTo(v)) = Cardinality(UpTo(w))
    BY <1>3 DEF Index
  <2>2. ~(numbering[v] < numbering[w]) /\ ~(numbering[w] < numbering[v])
    BY <1>2, <2>1
  <2>3. numbering[v] = numbering[w]
    BY <2>2 DEF Distinct
  <2>4. QED BY <2>3 DEF Distinct
<1>4. QED BY <1>1, <1>3 DEF Index

\* What calculate_cook is given of a row.
InputOf(numbering, m) ==
  [user |-> m.user, active |-> m.active, sale |-> m.sale,
   indexes |-> {Index(numbering, v) : v \in m.votes}]

ValuesOf(numbering, value) ==
  [i \in 1 .. Cardinality(Variants) |-> value[CHOOSE v \in Variants : Index(numbering, v) = i]]

\* The votes of a row add up to the same by rows and by places.
LEMMA VotesByPlace ==
  ASSUME NEW numbering, Distinct(numbering), NEW value \in [Variants -> Int],
         NEW votes \in SUBSET Variants
  PROVE  SumFunctionOnSet(ValuesOf(numbering, value), {Index(numbering, v) : v \in votes})
           = SumFunctionOnSet(value, votes)
<1> DEFINE places == [v \in Variants |-> Index(numbering, v)]
           values == ValuesOf(numbering, value)
<1>1. IsFiniteSet(votes)
  BY RecordAssumption, FS_Subset
<1>2. ASSUME NEW v \in Variants
      PROVE  values[places[v]] = value[v]
  <2>1. places[v] \in 1 .. Cardinality(Variants) /\ places[v] = Index(numbering, v)
    BY IndexOneToOne
  <2>2. (CHOOSE w \in Variants : Index(numbering, w) = places[v]) = v
    BY <2>1, IndexOneToOne
  <2>3. QED BY <2>1, <2>2 DEF ValuesOf
<1>3. \A v, w \in votes : places[v] = places[w] => v = w
  BY IndexOneToOne
<1>4. {Index(numbering, v) : v \in votes} = {places[v] : v \in votes}
  OBVIOUS
<1>5. \A v \in votes : value[v] \in Int /\ values[places[v]] = value[v]
  BY <1>2
<1> HIDE DEF places, values
<1>6. SumFunctionOnSet(values, {places[v] : v \in votes}) = SumFunctionOnSet(value, votes)
  BY <1>1, <1>3, <1>5, SumRenamed
<1>7. QED BY <1>4, <1>6 DEF values

\* A calculation that does not fail charges what the balances charge.
LEMMA CalculatedIsCharged ==
  ASSUME NEW numbering, Distinct(numbering), NEW c, CookOK(c),
         Calculate(numbering, c.value, c.products, c.rows, c.sale) # Failed
  PROVE  ChargedOf(c) = Calculate(numbering, c.value, c.products, c.rows, c.sale)
<1> DEFINE inputs == {InputOf(numbering, m) : m \in c.rows}
           values == ValuesOf(numbering, c.value)
           weight == [i \in inputs |->
                        EffectiveWeight(SumFunctionOnSet(values, i.indexes), i, c.sale)]
           charge == [i \in inputs |-> Rounded(c.total, weight[i], SumFunction(weight))]
           shown == Calculate(numbering, c.value, c.products, c.rows, c.sale)
<1>1. shown = calculate_cook(c.products, values, inputs, c.sale)
  BY Zenon DEF Calculate, InputOf, ValuesOf
<1>2. /\ IsFiniteSet(c.rows) /\ c.rows \in SUBSET Member /\ c.total = TotalPrice(c.products)
      /\ AllOf(c) = SumFunctionOnSet(WeightsOf(c), c.rows)
      /\ \A m \in c.rows : WeightIn(c, m) \in Int /\ m.votes \subseteq Variants
      /\ c.value \in [Variants -> Int]
  BY CookTypes DEF CookOK
<1>3. calculate_cook(c.products, values, inputs, c.sale) =
        IF \/ c.total = NoTotal
           \/ SumFunction(weight) = 0
           \/ \E i \in inputs : TooLarge(c.total, weight[i], SumFunction(weight))
           \/ SumFunction(charge) \notin Int32
        THEN Failed
        ELSE [u \in {i.user : i \in inputs} |-> charge[CHOOSE i \in inputs : i.user = u]]
  BY <1>2, Zenon DEF calculate_cook
<1>4. ASSUME NEW m \in c.rows
      PROVE  weight[InputOf(numbering, m)] = WeightIn(c, m)
  <2> DEFINE i == InputOf(numbering, m)
  <2>1. /\ i \in inputs /\ i.sale = m.sale /\ i.active = m.active
        /\ i.indexes = {Index(numbering, v) : v \in m.votes}
    BY DEF InputOf
  <2>2. SumFunctionOnSet(values, i.indexes) = SumFunctionOnSet(c.value, m.votes)
    BY <1>2, <2>1, VotesByPlace
  <2>3. weight[i] = EffectiveWeight(SumFunctionOnSet(values, i.indexes), i, c.sale)
    BY <2>1
  <2> HIDE DEF i, values, weight
  <2>4. weight[i] = EffectiveWeight(SumFunctionOnSet(c.value, m.votes), m, c.sale)
    BY <2>1, <2>2, <2>3 DEF EffectiveWeight
  <2>5. QED BY <2>4 DEF WeightIn, i
<1>5. ASSUME NEW m \in c.rows, NEW n \in c.rows, InputOf(numbering, m).user = n.user
      PROVE  m = n
  BY <1>5 DEF InputOf, CookOK
<1>6. SumFunction(weight) = AllOf(c)
  <2> DEFINE names == [m \in c.rows |-> InputOf(numbering, m)]
  <2>1. /\ DOMAIN weight = inputs /\ inputs = {names[m] : m \in c.rows}
        /\ \A m \in c.rows : /\ WeightsOf(c)[m] \in Int
                            /\ weight[names[m]] = WeightsOf(c)[m]
    BY <1>2, <1>4 DEF WeightsOf
  <2>2. \A m, n \in c.rows : names[m] = names[n] => m = n
    BY <1>5 DEF InputOf
  <2> DEFINE rows == c.rows
             weights == WeightsOf(c)
  <2>3. /\ IsFiniteSet(rows)
        /\ \A m \in rows : weights[m] \in Int /\ weight[names[m]] = weights[m]
        /\ \A m, n \in rows : names[m] = names[n] => m = n
    BY <1>2, <2>1, <2>2
  <2> HIDE DEF weight, names, inputs, rows, weights
  <2>4. SumFunctionOnSet(weight, {names[m] : m \in rows}) = SumFunctionOnSet(weights, rows)
    BY <2>3, SumRenamed
  <2>5. QED BY <1>2, <2>1, <2>4 DEF SumFunction, rows, weights
<1> HIDE DEF weight, values, shown
<1>7. /\ c.total # NoTotal /\ AllOf(c) # 0
      /\ \A i \in inputs : ~TooLarge(c.total, weight[i], AllOf(c))
      /\ shown = [u \in {i.user : i \in inputs} |-> charge[CHOOSE i \in inputs : i.user = u]]
  BY <1>1, <1>3, <1>6 DEF shown
<1>8. \A m \in c.rows : ~TooLarge(c.total, WeightIn(c, m), AllOf(c))
  BY <1>4, <1>7
<1>9. c.rows # {}
  <2>1. c.rows = {} => SumFunctionOnSet(WeightsOf(c), c.rows) = 0
    BY SumOfNone
  <2>2. QED BY <1>2, <1>7, <2>1
<1>10. ChargedOf(c) = [u \in {m.user : m \in c.rows} |->
                         Rounded(c.total, WeightIn(c, RowOf(c.rows, u)), AllOf(c))]
  BY <1>7, <1>8, <1>9, ChargesUnfolded
<1>11. {i.user : i \in inputs} = {m.user : m \in c.rows}
  <2>1. \A m \in c.rows : InputOf(numbering, m).user = m.user
    BY DEF InputOf
  <2>2. QED BY <2>1
<1>12. ASSUME NEW m \in c.rows
       PROVE  charge[CHOOSE i \in inputs : i.user = m.user]
                = Rounded(c.total, WeightIn(c, RowOf(c.rows, m.user)), AllOf(c))
  <2>1. (CHOOSE i \in inputs : i.user = m.user) = InputOf(numbering, m)
    <3>1. InputOf(numbering, m) \in inputs /\ InputOf(numbering, m).user = m.user
      BY DEF InputOf
    <3>2. \A i \in inputs : i.user = m.user => i = InputOf(numbering, m)
      BY <1>5
    <3> HIDE DEF inputs
    <3>3. QED BY <3>1, <3>2
  <2>2. charge[InputOf(numbering, m)] = Rounded(c.total, WeightIn(c, m), AllOf(c))
    BY <1>4, <1>6
  <2>3. RowOf(c.rows, m.user) = m
    BY RowOfUser
  <2>4. QED BY <2>1, <2>2, <2>3
<1> HIDE DEF inputs, charge
<1>13. shown = [u \in {m.user : m \in c.rows} |->
                  Rounded(c.total, WeightIn(c, RowOf(c.rows, u)), AllOf(c))]
  <2>1. ASSUME NEW u \in {m.user : m \in c.rows}
        PROVE  charge[CHOOSE i \in inputs : i.user = u]
                 = Rounded(c.total, WeightIn(c, RowOf(c.rows, u)), AllOf(c))
    BY <1>12
  <2> DEFINE ofInput(u) == charge[CHOOSE i \in inputs : i.user = u]
             ofRow(u) == Rounded(c.total, WeightIn(c, RowOf(c.rows, u)), AllOf(c))
  <2>2. shown = [u \in {i.user : i \in inputs} |-> ofInput(u)]
    BY <1>7
  <2>3. \A u \in {m.user : m \in c.rows} : ofInput(u) = ofRow(u)
    BY <2>1
  <2> HIDE DEF ofInput, ofRow
  <2>4. shown = [u \in {m.user : m \in c.rows} |-> ofRow(u)]
    BY <1>11, <2>2, <2>3
  <2>5. QED BY <2>4 DEF ofRow
<1>14. QED BY <1>10, <1>13 DEF shown

-----------------------------------------------------------------------------
(* Charges cover the total *)

\* Weights that are not negative, and not all zero, share a total that is not negative.
LEMMA SharesOfAll ==
  ASSUME NEW c, CookOK(c), c.rows # {}, ChargedOf(c) # Failed, ~NegativeOf(c)
  PROVE  /\ c.total \in Nat /\ AllOf(c) \in Nat \ {0}
         /\ \A m \in c.rows : WeightIn(c, m) \in Nat
<1>1. /\ c.total \in Int /\ AllOf(c) # 0
  BY ChargesUnfolded
<1>2. \A m \in c.rows : WeightIn(c, m) \in Int
  BY CookTypes
<1>3. c.total \in Nat /\ \A m \in c.rows : WeightIn(c, m) \in Nat
  BY <1>1, <1>2 DEF NegativeOf
<1>4. IsFiniteSet(c.rows) /\ AllOf(c) = SumFunctionOnSet(WeightsOf(c), c.rows)
  BY CookTypes
<1>5. \A m \in c.rows : WeightsOf(c)[m] \in Nat
  BY <1>3 DEF WeightsOf
<1>6. SumFunctionOnSet(WeightsOf(c), c.rows) \in Nat
  BY <1>4, <1>5, SumNat
<1>7. QED BY <1>1, <1>3, <1>4, <1>6

LEMMA ChargesNotNegative ==
  ASSUME NEW c, CookOK(c), ChargedOf(c) # Failed, ~NegativeOf(c)
  PROVE  \A u \in DOMAIN ChargedOf(c) : ChargedOf(c)[u] >= 0
<1>1. CASE c.rows = {}
  <2>1. ChargedOf(c) = << >>
    BY <1>1, ChargesUnfolded
  <2>2. DOMAIN << >> = {}
    OBVIOUS
  <2>3. QED BY <2>1, <2>2
<1>2. CASE c.rows # {}
  <2>1. ASSUME NEW m \in c.rows PROVE ChargedOf(c)[m.user] >= 0
    <3>1. c.total \in Nat /\ AllOf(c) \in Nat \ {0} /\ WeightIn(c, m) \in Nat
      BY <1>2, SharesOfAll
    <3>2. ChargedOf(c)[m.user] = Rounded(c.total, WeightIn(c, m), AllOf(c))
      BY <1>2, ChargesUnfolded
    <3> DEFINE share == c.total * WeightIn(c, m)
               whole == truncating_integer_division(share, AllOf(c))
    <3>3. share \in Nat
      BY <3>1
    <3> HIDE DEF share
    <3>4. whole \in Nat
      BY <3>1, <3>3 DEF truncating_integer_division, Magnitude
    <3> HIDE DEF whole
    <3>5. ceil_to_5(whole) >= whole /\ ceil_to_5(whole) \in Int
      BY <3>4, RoundingBounds
    <3>6. QED BY <3>2, <3>4, <3>5 DEF Rounded, whole, share
  <2>2. DOMAIN ChargedOf(c) = {m.user : m \in c.rows}
    BY <1>2, ChargesUnfolded
  <2>3. QED BY <2>1, <2>2
<1>3. QED BY <1>1, <1>2

\* Bounds on one more charge and its weight are bounds on the sums.
LEMMA OneMoreShare ==
  ASSUME NEW charge \in Int, NEW charges \in Int, NEW weight \in Int, NEW weights \in Int,
         NEW n \in Int, NEW total \in Nat, NEW all \in Nat,
         charge * all > total * weight - all, charge * all <= total * weight + 4 * all,
         charges * all >= total * weights - n * all + n,
         charges * all <= total * weights + 4 * (n * all)
  PROVE  /\ (charges + charge) * all >= total * (weights + weight) - (n + 1) * all + (n + 1)
         /\ (charges + charge) * all <= total * (weights + weight) + 4 * ((n + 1) * all)
<1> DEFINE a == charge * all
           b == charges * all
           d == total * weight
           e == total * weights
           f == n * all
<1>1. a \in Int /\ b \in Int /\ d \in Int /\ e \in Int /\ f \in Int
  OBVIOUS
<1>2. /\ (charges + charge) * all = b + a
      /\ total * (weights + weight) = e + d
      /\ (n + 1) * all = f + all
  OBVIOUS
<1>3. a > d - all /\ a <= d + 4 * all /\ b >= e - f + n /\ b <= e + 4 * f
  OBVIOUS
<1> HIDE DEF a, b, d, e, f
<1>4. QED BY <1>1, <1>2, <1>3

\* The charges of some of the members.
LEMMA SharesAddUp ==
  ASSUME NEW c, CookOK(c), c.rows # {}, ChargedOf(c) # Failed, ~NegativeOf(c)
  PROVE  \A rows \in SUBSET c.rows :
           LET sum == SumFunctionOnSet(ChargedOf(c), {m.user : m \in rows})
               weights == SumFunctionOnSet(WeightsOf(c), rows)
               n == Cardinality(rows)
           IN  /\ sum * AllOf(c) >= c.total * weights - n * AllOf(c) + n
               /\ sum * AllOf(c) <= c.total * weights + 4 * (n * AllOf(c))
<1> DEFINE charged == ChargedOf(c)
           weight == WeightsOf(c)
           all == AllOf(c)
           users(rows) == {m.user : m \in rows}
           Sum(rows) == SumFunctionOnSet(charged, users(rows))
           Weights(rows) == SumFunctionOnSet(weight, rows)
           Bound(rows) ==
             /\ Sum(rows) * all >= c.total * Weights(rows) - Cardinality(rows) * all
                                     + Cardinality(rows)
             /\ Sum(rows) * all <= c.total * Weights(rows) + 4 * (Cardinality(rows) * all)
           Good == {rows \in SUBSET c.rows : Bound(rows)}
<1>1. /\ IsFiniteSet(c.rows) /\ c.total \in Nat /\ all \in Nat \ {0}
      /\ \A m \in c.rows : weight[m] = WeightIn(c, m) /\ weight[m] \in Nat
      /\ \A m \in c.rows : charged[m.user] = Rounded(c.total, weight[m], all)
      /\ \A m, n \in c.rows : m.user = n.user => m = n
  BY CookTypes, SharesOfAll, ChargesUnfolded DEF WeightsOf, CookOK
<1>2. ASSUME NEW m \in c.rows
      PROVE  /\ charged[m.user] \in Int
             /\ charged[m.user] * all > c.total * weight[m] - all
             /\ charged[m.user] * all <= c.total * weight[m] + 4 * all
  <2>1. weight[m] \in Nat /\ charged[m.user] = Rounded(c.total, weight[m], all)
    BY <1>1
  <2> DEFINE share == c.total * weight[m]
             whole == truncating_integer_division(share, all)
  <2>2. share \in Nat
    BY <1>1, <2>1
  <2> HIDE DEF share
  <2>3. whole \in Nat
    BY <1>1, <2>2 DEF truncating_integer_division, Magnitude
  <2> HIDE DEF whole
  <2>4. ceil_to_5(whole) \in Int
    BY <2>3, RoundingBounds
  <2>5. charged[m.user] \in Int
    BY <2>1, <2>4 DEF Rounded, whole, share
  <2> HIDE DEF all, weight, charged
  <2>6. /\ Rounded(c.total, weight[m], all) * all > c.total * weight[m] - all
        /\ Rounded(c.total, weight[m], all) * all <= c.total * weight[m] + 4 * all
    BY <1>1, <2>1, ShareIsCovered
  <2>7. QED BY <2>1, <2>5, <2>6
<1> HIDE DEF charged, weight, all
<1>3. \A rows \in SUBSET c.rows :
        /\ IsFiniteSet(rows) /\ Cardinality(rows) \in Nat
        /\ Weights(rows) \in Int
  <2> SUFFICES ASSUME NEW rows \in SUBSET c.rows
               PROVE  /\ IsFiniteSet(rows) /\ Cardinality(rows) \in Nat
                      /\ Weights(rows) \in Int
    OBVIOUS
  <2>1. IsFiniteSet(rows) /\ Cardinality(rows) \in Nat
    BY <1>1, FS_Subset, FS_CardinalityType
  <2>2. \A m \in rows : weight[m] \in Int
    BY <1>1
  <2>3. QED BY <2>1, <2>2, SumType
<1>4. \A rows \in SUBSET c.rows : IsFiniteSet(users(rows)) /\ Sum(rows) \in Int
  <2> SUFFICES ASSUME NEW rows \in SUBSET c.rows
               PROVE  IsFiniteSet(users(rows)) /\ Sum(rows) \in Int
    OBVIOUS
  <2> DEFINE named == [m \in rows |-> m.user]
  <2>1. users(rows) = {named[m] : m \in rows}
    OBVIOUS
  <2> HIDE DEF named
  <2>2. IsFiniteSet(users(rows))
    <3>1. IsFiniteSet(rows)
      BY <1>3
    <3> HIDE DEF users
    <3>2. IsFiniteSet({named[m] : m \in rows})
      BY <3>1, FiniteImage
    <3>3. QED BY <2>1, <3>2
  <2>3. \A u \in users(rows) : charged[u] \in Int
    BY <1>2
  <2> HIDE DEF users
  <2>4. QED BY <2>2, <2>3, SumType
<1>5. ASSUME NEW rows \in SUBSET c.rows, \A t \in SUBSET rows : t # rows => t \in Good
      PROVE  rows \in Good
  <2>1. CASE rows = {}
    <3>1. users(rows) = {} /\ Cardinality(rows) = 0
      BY <2>1, FS_EmptySet
    <3>2. Sum(rows) = 0 /\ Weights(rows) = 0
      BY <2>1, <3>1, SumOfNone
    <3>3. Bound(rows)
      BY <1>1, <3>1, <3>2
    <3>4. QED BY <3>3
  <2>2. CASE rows # {}
    <3> DEFINE m == Picked(rows)
               rest == rows \ {m}
    <3>1. m \in rows /\ m \in c.rows /\ rest \in SUBSET c.rows /\ rest \in SUBSET rows
          /\ rest # rows /\ rows = rest \cup {m} /\ m \notin rest
      BY <2>2, PickedIn
    <3>2. Bound(rest)
      BY <1>5, <3>1
    <3>3. Cardinality(rows) = Cardinality(rest) + 1
      BY <1>3, <2>2, Smaller
    <3> HIDE DEF rest, m
    <3>4. Weights(rows) = Weights(rest) + weight[m]
      <4>1. \A x \in c.rows : weight[x] \in Int
        BY <1>1
      <4>2. m \in c.rows \ rest
        BY <3>1
      <4>3. QED BY <1>1, <3>1, <4>1, <4>2, SumAdds
    <3>5. Sum(rows) = Sum(rest) + charged[m.user]
      <4> DEFINE U == users(rows)
                 V == users(rest)
      <4>1. /\ IsFiniteSet(U) /\ V \in SUBSET U /\ U = V \cup {m.user}
            /\ \A u \in U : charged[u] \in Int
        BY <1>2, <1>4, <3>1
      <4>2. m.user \in U \ V
        BY <1>1, <3>1
      <4> HIDE DEF U, V
      <4>3. SumFunctionOnSet(charged, V \cup {m.user})
              = SumFunctionOnSet(charged, V) + charged[m.user]
        BY <4>1, <4>2, SumAdds
      <4>4. QED BY <4>1, <4>3 DEF U, V
    <3>6. /\ charged[m.user] \in Int /\ weight[m] \in Int
          /\ charged[m.user] * all > c.total * weight[m] - all
          /\ charged[m.user] * all <= c.total * weight[m] + 4 * all
      BY <1>1, <1>2, <3>1
    <3>7. Sum(rest) \in Int /\ Weights(rest) \in Int /\ Cardinality(rest) \in Int
      BY <1>3, <1>4, <3>1
    <3> DEFINE s == Sum(rest)
               w == Weights(rest)
               k == Cardinality(rest)
               charge == charged[m.user]
               mine == weight[m]
               total == c.total
    <3>8. /\ s \in Int /\ w \in Int /\ k \in Int /\ charge \in Int /\ mine \in Int
          /\ total \in Nat /\ all \in Nat
          /\ charge * all > total * mine - all /\ charge * all <= total * mine + 4 * all
          /\ s * all >= total * w - k * all + k /\ s * all <= total * w + 4 * (k * all)
      BY <1>1, <3>2, <3>6, <3>7
    <3>9. Sum(rows) = s + charge /\ Weights(rows) = w + mine /\ Cardinality(rows) = k + 1
      BY <3>3, <3>4, <3>5
    <3> HIDE DEF s, w, k, charge, mine, total, Sum, Weights
    <3>10. /\ (s + charge) * all >= total * (w + mine) - (k + 1) * all + (k + 1)
           /\ (s + charge) * all <= total * (w + mine) + 4 * ((k + 1) * all)
      BY <3>8, OneMoreShare
    <3>11. Bound(rows)
      BY <3>9, <3>10 DEF total
    <3>12. QED BY <3>11
  <2>3. QED BY <2>1, <2>2
<1> HIDE DEF Good
<1>6. \A rows \in SUBSET c.rows : rows \in Good
  BY <1>1, <1>5, SubsetInduction
<1> USE DEF Good
<1>7. \A rows \in SUBSET c.rows : Bound(rows)
  BY <1>6
<1> HIDE DEF Good
<1>8. QED BY <1>7 DEF charged, weight, all

LEMMA TotalIsCovered ==
  ASSUME NEW c, CookOK(c), c.rows # {}, ChargedOf(c) # Failed, ~NegativeOf(c)
  PROVE  /\ c.total - Cardinality(c.rows) < SumFunction(ChargedOf(c))
         /\ SumFunction(ChargedOf(c)) <= c.total + 4 * Cardinality(c.rows)
<1> DEFINE sum == SumFunctionOnSet(ChargedOf(c), {m.user : m \in c.rows})
           all == AllOf(c)
           n == Cardinality(c.rows)
           total == c.total
<1>1. SumFunction(ChargedOf(c)) = sum
  BY ChargesUnfolded DEF SumFunction
<1>2. /\ IsFiniteSet(c.rows) /\ AllOf(c) = SumFunctionOnSet(WeightsOf(c), c.rows)
      /\ total \in Nat /\ all \in Nat \ {0}
  BY CookTypes, SharesOfAll
<1>3. n \in Nat /\ n # 0
  BY <1>2, FS_CardinalityType, FS_EmptySet
<1>4. sum \in Int
  <2> DEFINE named == [m \in c.rows |-> m.user]
             users == {m.user : m \in c.rows}
  <2>1. users = {named[m] : m \in c.rows}
    OBVIOUS
  <2>2. \A u \in users : ChargedOf(c)[u] \in Int
    <3>1. ASSUME NEW m \in c.rows PROVE ChargedOf(c)[m.user] \in Int
      <4>1. ChargedOf(c)[m.user] = Rounded(c.total, WeightIn(c, m), AllOf(c))
            /\ WeightIn(c, m) \in Nat
        BY ChargesUnfolded, SharesOfAll
      <4> DEFINE share == c.total * WeightIn(c, m)
                 whole == truncating_integer_division(share, AllOf(c))
      <4>2. share \in Nat
        BY <1>2, <4>1
      <4> HIDE DEF share
      <4>3. whole \in Nat
        BY <1>2, <4>2 DEF truncating_integer_division, Magnitude
      <4> HIDE DEF whole
      <4>4. ceil_to_5(whole) \in Int
        BY <4>3, RoundingBounds
      <4>5. QED BY <4>1, <4>4 DEF Rounded, whole, share
    <3>2. QED BY <3>1
  <2> HIDE DEF named, users
  <2>3. IsFiniteSet({named[m] : m \in c.rows})
    BY <1>2, FiniteImage
  <2>4. IsFiniteSet(users)
    BY <2>1, <2>3
  <2>5. SumFunctionOnSet(ChargedOf(c), users) \in Int
    BY <2>2, <2>4, SumType
  <2>6. QED BY <2>5 DEF users
<1>5. /\ sum * all >= total * all - n * all + n
      /\ sum * all <= total * all + 4 * (n * all)
  <2>1. c.rows \in SUBSET c.rows
    OBVIOUS
  <2>2. QED BY <1>2, <2>1, SharesAddUp
<1> HIDE DEF sum, all, n, total
<1>6. (total - n) * all = total * all - n * all
      /\ (total + 4 * n) * all = total * all + 4 * (n * all)
  BY <1>2, <1>3
<1>7. sum > total - n
  <2> SUFFICES ASSUME sum <= total - n PROVE FALSE
    BY <1>2, <1>3, <1>4
  <2>1. sum * all <= (total - n) * all
    BY <1>2, <1>3, <1>4
  <2>2. QED BY <1>2, <1>3, <1>4, <1>5, <1>6, <2>1
<1>8. sum <= total + 4 * n
  <2> SUFFICES ASSUME sum >= total + 4 * n + 1 PROVE FALSE
    BY <1>2, <1>3, <1>4
  <2>1. sum * all >= (total + 4 * n + 1) * all
    BY <1>2, <1>3, <1>4
  <2>2. (total + 4 * n + 1) * all = (total + 4 * n) * all + all
    BY <1>2, <1>3
  <2>3. QED BY <1>2, <1>3, <1>4, <1>5, <1>6, <2>1, <2>2
<1>9. QED BY <1>1, <1>7, <1>8 DEF sum, n, total

-----------------------------------------------------------------------------
(* Every behaviour *)

\* The variants are distinct between requests, and the cook is as RecordInv has it.
LEMMA CommittedFacts ==
  ASSUME IInv, RecordInv, cook # NoCook
  PROVE  /\ CookOK(cook) /\ Charged = ChargedOf(cook)
         /\ Negative <=> NegativeOf(cook)
         /\ phase = "idle" => Distinct(position)
<1>1. CookOK(cook)
  BY DEF RecordInv, CookOK
<1>2. Charged = ChargedOf(cook)
  BY DEF Charged, ChargedOf
<1>3. Negative <=> NegativeOf(cook)
  BY DEF Negative, NegativeOf, WeightIn
<1>4. phase = "idle" => Distinct(position)
  BY DEF IInv, StateOK, RowsWhereTheyBelong, Numbering, Positions, Distinct
<1>5. QED BY <1>1, <1>2, <1>3, <1>4

LEMMA Records == RecordSpec => [](IInv /\ RecordInv)
<1>1. Spec => []IInv
  BY InitInvariant, StepInvariant, PTL DEF Spec
<1>2. QED BY <1>1, RecordsRenumber, RecordsSound, PTL

\* What the pages of a cook calculate from its expressions, by places in a list, is what
\* the balances charge from the cached total, by rows, for any members, votes and prices
\* (cooks.py:606-643, balances.py:222-269).
THEOREM ShownCharges == RecordSpec => []ShownIsCharged
<1>1. ASSUME IInv, RecordInv, Committed, Shown # Failed
      PROVE  Charged = Shown
  <2>1. CookOK(cook) /\ Charged = ChargedOf(cook) /\ Distinct(position)
    BY <1>1, CommittedFacts DEF Committed
  <2>2. Shown = Calculate(position, cook.value, cook.products, cook.rows, cook.sale)
    BY DEF Shown
  <2>3. QED BY <1>1, <2>1, <2>2, CalculatedIsCharged
<1>2. IInv /\ RecordInv => ShownIsCharged
  BY <1>1 DEF ShownIsCharged
<1>3. QED BY <1>2, Records, PTL

\* The charges of a cook pay for it but for less than one unit per member, and take at
\* most four more from each (legacy_calculation.py:380-390).
THEOREM ChargesPayForTheCook == RecordSpec => []ChargesCoverTotal
<1>1. ASSUME IInv, RecordInv, Committed, Charged # Failed, cook.rows # {}, ~Negative
      PROVE  /\ cook.total - Cardinality(cook.rows) < SumFunction(Charged)
             /\ SumFunction(Charged) <= cook.total + 4 * Cardinality(cook.rows)
  BY <1>1, CommittedFacts, TotalIsCovered DEF Committed
<1>2. IInv /\ RecordInv => ChargesCoverTotal
  BY <1>1 DEF ChargesCoverTotal
<1>3. QED BY <1>2, Records, PTL

\* What a request has checked before its commit holds of what it commits.
LEMMA SavedIsCalculated ==
  ASSUME IInv, RecordInv, RecordInv', Create \/ Update
  PROVE  /\ cook' # NoCook /\ CookOK(cook') /\ Distinct(position)
         /\ Calculate(position, cook'.value, cook'.products, cook'.rows, cook'.sale) # Failed
<1>1. CASE Create
  <2>1. PICK value \in VoteTables, products \in Receipts, roster \in Rosters :
          /\ Calculate(position, value, products, WithSales(roster, discount), NewSale) # Failed
          /\ cook' = [value |-> value, products |-> products, sale |-> NewSale,
                      rows |-> WithSales(roster, discount), total |-> TotalPrice(products)]
    BY <1>1 DEF Create
  <2>2. /\ cook'.value = value /\ cook'.products = products /\ cook'.sale = NewSale
        /\ cook'.rows = WithSales(roster, discount)
    BY <2>1
  <2>3. discount \in [Users -> Int] /\ NewSale \in Int
    BY RecordAssumption DEF RecordInv
  <2>4. cook' # NoCook
    BY <2>1, <2>3, NewCook, RecordAssumption
  <2>5. CookOK(cook')
    BY <2>4 DEF RecordInv, CookOK
  <2>6. Distinct(position)
    BY <1>1 DEF Create, RecordInv, IInv, StateOK, RowsWhereTheyBelong, Numbering, Positions,
         Distinct
  <2>7. QED BY <2>1, <2>2, <2>4, <2>5, <2>6
<1>2. CASE Update
  <2>1. cook # NoCook /\ phase = "placing" /\ placed = Variants
    BY <1>2 DEF Update, Finish, RecordInv
  <2>2. position = requested /\ Distinct(position)
    BY <2>1 DEF IInv, StateOK, RowsWhereTheyBelong, Numbering, Positions, Distinct
  <2>3. PICK value \in VoteTables, products \in Receipts, roster \in Rosters :
          \E keep \in SUBSET ({m.user : m \in cook.rows} \cap {m.user : m \in roster}) :
            Replace(value, products, roster, keep)
    BY <1>2 DEF Update
  <2>4. PICK keep \in SUBSET {m.user : m \in cook.rows} :
          Replace(value, products, roster, keep)
    BY <2>3
  <2>5. cook' = [value |-> value, products |-> products, sale |-> cook.sale,
                 rows |-> WithSales(roster, KeptSales(keep)), total |-> TotalPrice(products)]
    BY <2>1, <2>4, ReplacedCook
  <2>6. /\ cook'.value = value /\ cook'.products = products /\ cook'.sale = cook.sale
        /\ cook'.rows = WithSales(roster, KeptSales(keep))
    BY <2>5
  <2>7. Calculate(requested, value, products, WithSales(roster, KeptSales(keep)), cook.sale)
          # Failed
    BY <2>4 DEF Replace, Kept, KeptSales
  <2>8. cook' # NoCook
    BY <2>1, <2>4, <2>5, KeptSalesType, NewCook, RecordAssumption DEF RecordInv, Cook
  <2>9. CookOK(cook')
    BY <2>8 DEF RecordInv, CookOK
  <2>10. QED BY <2>2, <2>6, <2>7, <2>8, <2>9
<1>3. QED BY <1>1, <1>2

\* A save through the page leaves a cook the balances can charge, as long as no price and
\* no vote is below zero (cooks.py:208, 351, balances.py:238-252).
THEOREM SavesCanBeCharged == RecordSpec => SavesKeepBalances
<1>1. ASSUME IInv, RecordInv, RecordInv', [RecordNext]_recordVars, cook' # cook, Available
      PROVE  Available' \/ Import \/ Negative'
  <2> SUFFICES ASSUME ~Import, ~Negative' PROVE Available'
    OBVIOUS
  <2>1. Create \/ Update
    BY <1>1 DEF RecordNext, recordVars, ChangeDiscount, Renumber
  <2>2. /\ CookOK(cook') /\ Distinct(position)
        /\ Calculate(position, cook'.value, cook'.products, cook'.rows, cook'.sale) # Failed
    BY <1>1, <2>1, SavedIsCalculated
  <2>3. ChargedOf(cook') # Failed
    BY <2>2, CalculatedIsCharged
  <2>4. ~NegativeOf(cook') /\ Charged' = ChargedOf(cook')
    BY DEF Negative, NegativeOf, WeightIn, Charged, ChargedOf
  <2>5. \A u \in DOMAIN Charged' : Charged'[u] >= 0
    BY <2>2, <2>3, <2>4, ChargesNotNegative
  <2>6. QED BY <2>3, <2>4, <2>5 DEF Available
<1>2. IInv /\ RecordInv /\ RecordInv' /\ [RecordNext]_recordVars
        => [cook' # cook /\ Available => Available' \/ Import \/ Negative']_recordVars
  BY <1>1
<1>3. QED BY <1>2, Records, PTL DEF RecordSpec, SavesKeepBalances

-----------------------------------------------------------------------------
(* The ranges of numbers *)

LEMMA RangesAre ==
  /\ Int32Max \in Nat /\ Int64Max \in Nat /\ DecimalMax \in Nat /\ Float32Max \in Nat
  /\ MaxDepth \in Nat
  /\ Int32Max <= Int64Max /\ Int32Max <= DecimalMax /\ Int32Max <= Float32Max
BY RangesAssumption

-----------------------------------------------------------------------------
(* Products of integers *)

LEMMA ProductType == ASSUME NEW a \in Int, NEW b \in Int PROVE a * b \in Int
OBVIOUS

LEMMA ProductNat == ASSUME NEW a \in Nat, NEW b \in Nat PROVE a * b \in Nat
OBVIOUS

LEMMA ProductPositive ==
  ASSUME NEW a \in Nat \ {0}, NEW b \in Nat \ {0}
  PROVE  a * b \in Nat \ {0}
OBVIOUS

\* A positive factor can be taken from both sides.
LEMMA Cancel ==
  ASSUME NEW a \in Int, NEW b \in Int, NEW d \in Nat \ {0}
  PROVE  /\ a * d <= b * d <=> a <= b
         /\ a * d = b * d <=> a = b
<1>1. ASSUME NEW x \in Int, NEW y \in Int, x < y PROVE x * d < y * d
  <2>1. PICK e \in Nat \ {0} : y = x + e
    <3>1. y - x \in Nat \ {0} /\ y = x + (y - x)
      BY <1>1
    <3>2. QED BY <3>1
  <2>2. y * d = x * d + e * d /\ e * d \in Nat \ {0} /\ x * d \in Int
    BY <2>1, ProductPositive
  <2>3. QED BY <2>2
<1>2. a * d \in Int /\ b * d \in Int
  OBVIOUS
<1>3. CASE a < b
  <2>1. a * d < b * d
    BY <1>1, <1>3
  <2>2. QED BY <1>2, <1>3, <2>1
<1>4. CASE b < a
  <2>1. b * d < a * d
    BY <1>1, <1>4
  <2>2. QED BY <1>2, <1>4, <2>1
<1>5. CASE a = b
  BY <1>2, <1>5
<1>6. QED BY <1>3, <1>4, <1>5

-----------------------------------------------------------------------------
(* Values and the quotients they stand for *)

Quotient == [num : Int, den : Nat \ {0}]

\* p / d is a quotient.
Equals(p, d, a) == p * a.den = a.num * d

\* The sums of equal fractions are equal, and so are their products.
LEMMA EqualSums ==
  ASSUME NEW p \in Int, NEW d \in Int, NEW a \in Quotient, Equals(p, d, a),
         NEW q \in Int, NEW e \in Int, NEW b \in Quotient, Equals(q, e, b)
  PROVE  /\ Equals(p * e + q * d, d * e, Apply("+", a, b))
         /\ Equals(p * q, d * e, Apply("*", a, b))
<1> DEFINE m == a.num
           k == a.den
           n == b.num
           l == b.den
<1>1. m \in Int /\ k \in Int /\ n \in Int /\ l \in Int /\ p * k = m * d /\ q * l = n * e
  BY DEF Quotient, Equals
<1>2. /\ Apply("+", a, b).num = m * l + n * k /\ Apply("+", a, b).den = k * l
      /\ Apply("*", a, b).num = m * n /\ Apply("*", a, b).den = k * l
  BY DEF Apply
<1> HIDE DEF m, k, n, l
<1>3. (p * e + q * d) * (k * l) = (m * l + n * k) * (d * e)
  <2>1. (p * e + q * d) * (k * l) = (p * k) * (l * e) + (q * l) * (d * k)
    BY <1>1
  <2>2. (m * l + n * k) * (d * e) = (m * d) * (l * e) + (n * e) * (d * k)
    BY <1>1
  <2>3. QED BY <1>1, <2>1, <2>2
<1>4. (p * q) * (k * l) = (m * n) * (d * e)
  <2>1. (p * q) * (k * l) = (p * k) * (q * l)
    BY <1>1
  <2>2. (m * n) * (d * e) = (m * d) * (n * e)
    BY <1>1
  <2>3. QED BY <1>1, <2>1, <2>2
<1>5. QED BY <1>2, <1>3, <1>4 DEF Equals

WholeKinds == {"int32", "int64"}

Represents(x, a) ==
  /\ x \in Values /\ x.den \in Nat \ {0}
  /\ x.kind \in WholeKinds => x.den = 1
  /\ Equals(Signed(x), x.den, a)

\* A quotient that fits the smallest kind.
Fits(a) == a.num \in -Int32Max * a.den .. Int32Max * a.den

LEMMA ValueFields ==
  ASSUME NEW x \in Values
  PROVE  /\ x.kind \in Kinds /\ x.sign \in {-1, 1} /\ x.num \in Nat /\ x.den \in Nat
         /\ Signed(x) \in {x.num, -x.num} /\ Signed(x) \in Int
         /\ x # Error /\ x # None
<1>1. x.kind \in Kinds /\ x.sign \in {-1, 1} /\ x.num \in Nat /\ x.den \in Nat
  BY DEF Values
<1>2. x.kind # "error" /\ x.kind # "none"
  BY <1>1 DEF Kinds
<1>3. QED BY <1>1, <1>2 DEF Signed, Error, None

LEMMA NumberFields ==
  ASSUME NEW kind \in Kinds, NEW sign \in {-1, 1}, NEW num \in Nat, NEW den \in Nat
  PROVE  LET x == Number(kind, sign, num, den)
         IN  /\ x \in Values
             /\ x.kind = kind /\ x.sign = sign /\ x.num = num /\ x.den = den
             /\ Signed(x) = sign * num
BY DEF Number, Values, Signed

LEMMA FitsNumerator ==
  ASSUME NEW x, NEW a \in Quotient, Represents(x, a), Fits(a)
  PROVE  x.num <= Int32Max * x.den
<1> USE RangesAre
<1>1. /\ x.num \in Nat /\ x.den \in Nat \ {0} /\ Signed(x) \in {x.num, -x.num}
      /\ a.num \in Int /\ a.den \in Nat \ {0}
      /\ Signed(x) * a.den = a.num * x.den
  BY ValueFields DEF Represents, Quotient, Equals
<1> DEFINE n == IF a.num < 0 THEN -a.num ELSE a.num
           limit == Int32Max * a.den
<1>2. n \in Nat /\ limit \in Nat /\ n <= limit
  BY <1>1, ProductNat DEF Fits
<1>3. x.num * a.den = n * x.den
  <2>1. CASE Signed(x) = x.num /\ a.num >= 0
    BY <1>1, <2>1
  <2>2. CASE Signed(x) = -x.num /\ a.num <= 0
    BY <1>1, <2>2
  <2>3. CASE Signed(x) = x.num /\ a.num < 0
    <3>1. x.num * a.den \in Nat /\ (-a.num) * x.den \in Nat \ {0}
      BY <1>1, <2>3, ProductNat, ProductPositive
    <3>2. a.num * x.den = -((-a.num) * x.den)
      BY <1>1
    <3>3. QED BY <1>1, <2>3, <3>1, <3>2
  <2>4. CASE Signed(x) = -x.num /\ a.num > 0
    <3>1. x.num * a.den \in Nat /\ a.num * x.den \in Nat \ {0}
      BY <1>1, <2>4, ProductNat, ProductPositive
    <3>2. Signed(x) * a.den = -(x.num * a.den)
      BY <1>1, <2>4
    <3>3. QED BY <1>1, <3>1, <3>2
  <2>5. QED BY <1>1, <2>1, <2>2, <2>3, <2>4
<1> HIDE DEF n
<1>4. n * x.den <= limit * x.den
  BY <1>1, <1>2, Cancel
<1>5. limit * x.den = (Int32Max * x.den) * a.den /\ Int32Max * x.den \in Int
  BY <1>1
<1>6. QED BY <1>1, <1>3, <1>4, <1>5, Cancel

LEMMA CheckedType ==
  ASSUME NEW x \in Values
  PROVE  Checked(x) \in Values \cup {Error}
<1>1. CASE x.kind \in WholeKinds
  BY <1>1 DEF WholeKinds, Checked, Values
<1>2. CASE x.kind = "decimal"
  BY <1>2 DEF Checked
<1>3. CASE x.kind = "double"
  BY <1>3 DEF Checked
<1>4. QED BY <1>1, <1>2, <1>3, ValueFields DEF Kinds, WholeKinds

\* A check changes no quotient, and refuses none that fits.
LEMMA CheckedIs ==
  ASSUME NEW x, NEW a \in Quotient, Represents(x, a)
  PROVE  /\ Checked(x) # Error => Represents(Checked(x), a)
         /\ Fits(a) => Checked(x) # Error
<1> USE RangesAre
<1>1. /\ x \in Values /\ x.kind \in Kinds /\ x.num \in Nat /\ x.den \in Nat \ {0}
      /\ Signed(x) \in {x.num, -x.num} /\ x # Error
  BY ValueFields DEF Represents
<1>2. CASE x.kind \in WholeKinds
  <2> DEFINE max == IF x.kind = "int32" THEN Int32Max ELSE Int64Max
             y == [x EXCEPT !.sign = IF x.num = 0 THEN 1 ELSE x.sign]
  <2>1. Checked(x) = IF Signed(x) \in -max - 1 .. max THEN y ELSE Error
    BY <1>2 DEF Checked, WholeKinds
  <2>2. /\ y \in Values /\ y.kind = x.kind /\ y.den = x.den /\ Signed(y) = Signed(x)
    BY <1>1 DEF Values, Signed
  <2>3. Represents(y, a) /\ y # Error
    BY <2>2, ValueFields DEF Represents
  <2>4. Fits(a) => Signed(x) \in -max - 1 .. max
    <3>1. x.den = 1
      BY <1>2 DEF Represents
    <3>2. max \in Nat /\ Int32Max <= max
      OBVIOUS
    <3>3. Fits(a) => x.num <= Int32Max
      BY <3>1, FitsNumerator
    <3> HIDE DEF max
    <3>4. QED BY <1>1, <3>2, <3>3
  <2> HIDE DEF y, max
  <2>5. QED BY <2>1, <2>3, <2>4
<1>3. CASE x.kind = "decimal"
  <2>1. Checked(x) = IF x.num <= DecimalMax * x.den THEN x ELSE Error
    BY <1>3 DEF Checked
  <2>2. Fits(a) => x.num <= DecimalMax * x.den
    <3>1. Int32Max * x.den <= DecimalMax * x.den
      BY <1>1, Cancel
    <3>2. Int32Max * x.den \in Int /\ DecimalMax * x.den \in Int
      BY <1>1
    <3>3. QED BY <1>1, <3>1, <3>2, FitsNumerator
  <2>3. QED BY <1>1, <2>1, <2>2
<1>4. CASE x.kind = "double"
  BY <1>1, <1>4 DEF Checked
<1>5. QED BY <1>1, <1>2, <1>3, <1>4 DEF Kinds, WholeKinds

-----------------------------------------------------------------------------
(* Each operation is the one of arithmetic, or is refused *)

Symbols == {"+", "-", "*", "/", "(", ")"}

\* An integer is written without a denominator.
Literals ==
  {t \in [kind : {"number"}, form : {"integer", "point", "exponent"},
          num : Nat, den : Nat \ {0}] : t.form = "integer" => t.den = 1}

Token == Literals \cup [kind : Symbols]

LEMMA LiteralIs ==
  ASSUME NEW t \in Literals
  PROVE  LET a == [num |-> t.num, den |-> t.den]
         IN  /\ a \in Quotient
             /\ literal(t) \in Values \cup {Error}
             /\ literal(t) # Error => Represents(literal(t), a)
             /\ Fits(a) => literal(t) # Error
<1> DEFINE a == [num |-> t.num, den |-> t.den]
           Of(kind) == Number(kind, 1, t.num, t.den)
<1>1. /\ t.num \in Nat /\ t.den \in Nat \ {0} /\ t.form \in {"integer", "point", "exponent"}
      /\ t.form = "integer" => t.den = 1
  BY DEF Literals
<1>2. a \in Quotient /\ a.num = t.num /\ a.den = t.den
  BY <1>1 DEF Quotient
<1>3. ASSUME NEW kind \in Kinds, kind \in WholeKinds => t.den = 1
      PROVE  Of(kind) \in Values /\ Represents(Of(kind), a) /\ Of(kind).kind = kind
  <2>1. /\ Of(kind) \in Values /\ Of(kind).kind = kind /\ Of(kind).den = t.den
        /\ Signed(Of(kind)) = 1 * t.num
    BY <1>1, NumberFields
  <2> HIDE DEF Of, a
  <2>2. QED BY <1>1, <1>2, <1>3, <2>1 DEF Represents, Equals
<1> DEFINE G == /\ literal(t) \in Values \cup {Error}
                /\ literal(t) # Error => Represents(literal(t), a)
                /\ Fits(a) => literal(t) # Error
<1>4. ASSUME t.form = "exponent" PROVE G
  <2>1. literal(t) = Of("double")
    BY <1>4 DEF literal
  <2>2. Of("double") \in Values /\ Represents(Of("double"), a)
    BY <1>3 DEF Kinds, WholeKinds
  <2> HIDE DEF Of, a
  <2>3. QED BY <1>2, <2>1, <2>2, ValueFields
<1>5. ASSUME t.form = "point" PROVE G
  <2>1. literal(t) = Checked(Of("decimal"))
    BY <1>5 DEF literal
  <2>2. Of("decimal") \in Values /\ Represents(Of("decimal"), a)
    BY <1>3 DEF Kinds, WholeKinds
  <2> HIDE DEF Of, a
  <2>3. QED BY <1>2, <2>1, <2>2, CheckedType, CheckedIs
<1>6. ASSUME t.form = "integer" PROVE G
  <2>1. PICK kind \in Kinds : literal(t) = Of(kind)
    BY <1>6 DEF literal, Kinds
  <2>2. Of(kind) \in Values /\ Represents(Of(kind), a)
    BY <1>1, <1>3, <1>6
  <2> HIDE DEF Of, a
  <2>3. QED BY <1>2, <2>1, <2>2, ValueFields
<1> HIDE DEF G
<1>7. G
  BY <1>1, <1>4, <1>5, <1>6
<1> HIDE DEF Of
<1>8. QED BY <1>2, <1>7 DEF G

Opposite(sign, a) == IF sign = "-" THEN [a EXCEPT !.num = -@] ELSE a

LEMMA UnaryIs ==
  ASSUME NEW sign \in {"+", "-"}, NEW x \in Values
  PROVE  /\ unary(sign, x) \in Values \cup {Error}
         /\ \A a \in Quotient :
              Represents(x, a) =>
                /\ Opposite(sign, a) \in Quotient
                /\ unary(sign, x) # Error => Represents(unary(sign, x), Opposite(sign, a))
                /\ Fits(Opposite(sign, a)) => unary(sign, x) # Error
<1>1. CASE sign = "+"
  <2>1. unary(sign, x) = x /\ \A a : Opposite(sign, a) = a
    BY <1>1 DEF unary, Opposite
  <2>2. QED BY <2>1, ValueFields
<1>2. CASE sign = "-"
  <2> DEFINE s == IF x.kind = "decimal" /\ IsZero(x) THEN 1 ELSE -x.sign
             y == [x EXCEPT !.sign = s]
  <2>1. unary(sign, x) = Checked(y)
    BY <1>2 DEF unary
  <2>2. /\ x.kind \in Kinds /\ x.sign \in {-1, 1} /\ x.num \in Nat /\ x.den \in Nat
        /\ Signed(x) \in Int
    BY ValueFields
  <2>3. s \in {-1, 1} /\ s * x.num = -(x.sign * x.num)
    BY <2>2 DEF IsZero
  <2>4. /\ y \in Values /\ y.kind = x.kind /\ y.den = x.den /\ Signed(y) = s * x.num
    BY <2>2, <2>3 DEF Values, Signed
  <2>5. Signed(y) = -Signed(x)
    BY <2>3, <2>4 DEF Signed
  <2>6. ASSUME NEW a \in Quotient, Represents(x, a)
        PROVE  Opposite(sign, a) \in Quotient /\ Represents(y, Opposite(sign, a))
    <3>1. /\ Opposite(sign, a) \in Quotient
          /\ Opposite(sign, a).num = -a.num /\ Opposite(sign, a).den = a.den
          /\ a.num \in Int /\ a.den \in Nat \ {0}
      BY <1>2 DEF Opposite, Quotient
    <3> HIDE DEF y
    <3>2. (-Signed(x)) * a.den = (-a.num) * x.den
      <4>1. Signed(x) * a.den = a.num * x.den
        BY <2>6 DEF Represents, Equals
      <4>2. (-Signed(x)) * a.den = -(Signed(x) * a.den) /\ (-a.num) * x.den = -(a.num * x.den)
        BY <2>2, <3>1
      <4>3. QED BY <4>1, <4>2
    <3>3. QED BY <2>4, <2>5, <2>6, <3>1, <3>2 DEF Represents, Equals
  <2> HIDE DEF y, s
  <2>7. Checked(y) \in Values \cup {Error}
    BY <2>4, CheckedType
  <2>8. ASSUME NEW a \in Quotient, Represents(x, a)
        PROVE  /\ Checked(y) # Error => Represents(Checked(y), Opposite(sign, a))
               /\ Fits(Opposite(sign, a)) => Checked(y) # Error
    BY <2>6, <2>8, CheckedIs
  <2>9. QED BY <2>1, <2>6, <2>7, <2>8
<1>3. QED BY <1>1, <1>2

LEMMA CommonKind ==
  ASSUME NEW k \in Kinds, NEW l \in Kinds
  PROVE  /\ common_arithmetic_kind(k, l) \in Kinds
         /\ common_arithmetic_kind(k, l) \in WholeKinds => k \in WholeKinds /\ l \in WholeKinds
         /\ common_arithmetic_kind(l, k) = common_arithmetic_kind(k, l)
BY DEF common_arithmetic_kind, Kinds, WholeKinds

LEMMA TimesIs ==
  ASSUME NEW kind \in Kinds, NEW x \in Values, NEW y \in Values
  PROVE  /\ Times(kind, x, y) \in Values
         /\ \A a, b \in Quotient :
              /\ Represents(x, a) /\ Represents(y, b)
              /\ kind \in WholeKinds => x.kind \in WholeKinds /\ y.kind \in WholeKinds
              => Represents(Times(kind, x, y), Apply("*", a, b))
<1>1. /\ x.sign \in {-1, 1} /\ x.num \in Nat /\ x.den \in Nat /\ Signed(x) \in Int
      /\ y.sign \in {-1, 1} /\ y.num \in Nat /\ y.den \in Nat /\ Signed(y) \in Int
  BY ValueFields
<1> DEFINE z == Times(kind, x, y)
<1>2. x.sign * y.sign \in {-1, 1} /\ x.num * y.num \in Nat /\ x.den * y.den \in Nat
  BY <1>1, ProductNat
<1>3. /\ z \in Values /\ z.kind = kind /\ z.den = x.den * y.den
      /\ Signed(z) = (x.sign * y.sign) * (x.num * y.num)
  BY <1>2, NumberFields DEF Times
<1>4. Signed(z) = Signed(x) * Signed(y)
  BY <1>1, <1>3 DEF Signed
<1> HIDE DEF z
<1>5. ASSUME NEW a \in Quotient, NEW b \in Quotient, Represents(x, a), Represents(y, b),
             kind \in WholeKinds => x.kind \in WholeKinds /\ y.kind \in WholeKinds
      PROVE  Represents(z, Apply("*", a, b))
  <2>1. /\ a.num \in Int /\ a.den \in Nat \ {0} /\ b.num \in Int /\ b.den \in Nat \ {0}
        /\ x.den \in Nat \ {0} /\ y.den \in Nat \ {0}
    BY <1>5 DEF Represents, Quotient
  <2>2. Equals(Signed(x) * Signed(y), x.den * y.den, Apply("*", a, b))
    BY <1>1, <1>5, EqualSums DEF Represents
  <2>3. z.den \in Nat \ {0} /\ (z.kind \in WholeKinds => z.den = 1)
    BY <1>3, <1>5, <2>1, ProductPositive DEF Represents
  <2>4. QED BY <1>3, <1>4, <2>2, <2>3 DEF Represents
<1>6. QED BY <1>3, <1>5 DEF z

LEMMA PlusIs ==
  ASSUME NEW kind \in Kinds, NEW x \in Values, NEW y \in Values
  PROVE  /\ Plus(kind, x, y) \in Values
         /\ \A a, b \in Quotient :
              /\ Represents(x, a) /\ Represents(y, b)
              /\ kind \in WholeKinds => x.kind \in WholeKinds /\ y.kind \in WholeKinds
              => Represents(Plus(kind, x, y), Apply("+", a, b))
<1>1. /\ x.sign \in {-1, 1} /\ x.num \in Nat /\ x.den \in Nat /\ Signed(x) \in Int
      /\ y.sign \in {-1, 1} /\ y.num \in Nat /\ y.den \in Nat /\ Signed(y) \in Int
  BY ValueFields
<1> DEFINE sum == Signed(x) * y.den + Signed(y) * x.den
           sign == IF sum < 0 \/ (sum = 0 /\ x.sign = -1 /\ y.sign = -1) THEN -1 ELSE 1
           num == IF sum < 0 THEN -sum ELSE sum
           w == Number(kind, sign, num, x.den * y.den)
           z == Plus(kind, x, y)
<1>2. sum \in Int /\ x.den * y.den \in Nat
  BY <1>1, ProductNat
<1>3. sign \in {-1, 1} /\ num \in Nat /\ sign * num = sum
  <2> HIDE DEF sum
  <2>1. QED BY <1>2
<1>4. z = IF ~Finite(x) /\ ~Finite(y) /\ x.num = 1 /\ y.num = 1 /\ x.sign = y.sign
          THEN Number(kind, x.sign, 1, 0) ELSE w
  BY DEF Plus
<1> HIDE DEF sum, sign, num
<1>5. /\ w \in Values /\ w.kind = kind /\ w.den = x.den * y.den /\ Signed(w) = sum
  BY <1>2, <1>3, NumberFields
<1>6. Number(kind, x.sign, 1, 0) \in Values
  BY <1>1, NumberFields
<1> HIDE DEF w
<1>7. z \in Values
  BY <1>4, <1>5, <1>6
<1>8. ASSUME NEW a \in Quotient, NEW b \in Quotient, Represents(x, a), Represents(y, b),
             kind \in WholeKinds => x.kind \in WholeKinds /\ y.kind \in WholeKinds
      PROVE  Represents(z, Apply("+", a, b))
  <2>1. /\ a.num \in Int /\ a.den \in Nat \ {0} /\ b.num \in Int /\ b.den \in Nat \ {0}
        /\ x.den \in Nat \ {0} /\ y.den \in Nat \ {0}
    BY <1>8 DEF Represents, Quotient
  <2>2. Equals(sum, x.den * y.den, Apply("+", a, b))
    BY <1>1, <1>8, EqualSums DEF Represents, sum
  <2>3. w.den \in Nat \ {0} /\ (w.kind \in WholeKinds => w.den = 1)
    BY <1>5, <1>8, <2>1, ProductPositive DEF Represents
  <2>4. z = w
    BY <1>4, <2>1 DEF Finite
  <2>5. QED BY <1>5, <2>2, <2>3, <2>4 DEF Represents
<1> HIDE DEF z
<1>9. QED BY <1>7, <1>8 DEF z

\* Quotients of equal fractions are equal; the sign of the divisor moves to the numerator.
LEMMA EqualQuotients ==
  ASSUME NEW p \in Int, NEW d \in Int, NEW a \in Quotient, Equals(p, d, a),
         NEW q \in Int, NEW e \in Int, NEW b \in Quotient, Equals(q, e, b)
  PROVE  /\ b.num < 0 => Equals(-(p * e), -(d * q), Apply("/", a, b))
         /\ b.num > 0 => Equals(p * e, d * q, Apply("/", a, b))
<1> DEFINE m == a.num
           k == a.den
           n == b.num
           l == b.den
<1>1. m \in Int /\ k \in Int /\ n \in Int /\ l \in Int /\ p * k = m * d /\ q * l = n * e
  BY DEF Quotient, Equals
<1>2. /\ n > 0 => Apply("/", a, b).num = m * l /\ Apply("/", a, b).den = k * n
      /\ n < 0 => Apply("/", a, b).num = -m * l /\ Apply("/", a, b).den = -k * n
  BY <1>1 DEF Apply
<1> HIDE DEF m, k, n, l
<1>3. (p * e) * (k * n) = (m * l) * (d * q)
  <2>1. (p * e) * (k * n) = (p * k) * (n * e)
    BY <1>1
  <2>2. (m * l) * (d * q) = (m * d) * (q * l)
    BY <1>1
  <2>3. QED BY <1>1, <2>1, <2>2
<1>4. (-(p * e)) * (-k * n) = (-m * l) * (-(d * q))
  <2>1. (-(p * e)) * (-k * n) = (p * e) * (k * n)
    BY <1>1
  <2>2. (-m * l) * (-(d * q)) = (m * l) * (d * q)
    BY <1>1
  <2>3. QED BY <1>3, <2>1, <2>2
<1>5. b.num = n
  BY DEF n
<1>6. QED BY <1>2, <1>3, <1>4, <1>5 DEF Equals

LEMMA ApplyType ==
  ASSUME NEW operator \in {"+", "-", "*", "/"}, NEW a \in Quotient, NEW b \in Quotient,
         operator = "/" => b.num # 0
  PROVE  Apply(operator, a, b) \in Quotient
<1>1. a.num \in Int /\ a.den \in Nat \ {0} /\ b.num \in Int /\ b.den \in Nat \ {0}
  BY DEF Quotient
<1>2. /\ a.num * b.den \in Int /\ b.num * a.den \in Int /\ a.num * b.num \in Int
      /\ a.den * b.den \in Nat \ {0} /\ a.den * b.num \in Int
      /\ -a.num * b.den \in Int
  BY <1>1, ProductPositive
<1>3. CASE operator \in {"+", "-", "*"}
  BY <1>2, <1>3 DEF Apply, Quotient
<1>4. CASE operator = "/" /\ b.num > 0
  <2>1. a.den * b.num \in Nat \ {0}
    BY <1>1, <1>4, ProductPositive
  <2>2. QED BY <1>1, <1>2, <1>4, <2>1 DEF Apply, Quotient
<1>5. CASE operator = "/" /\ b.num < 0
  <2>1. a.den * (-b.num) \in Nat \ {0}
    BY <1>1, <1>5, ProductPositive
  <2>2. -a.den * b.num = a.den * (-b.num)
    BY <1>1
  <2>3. QED BY <1>1, <1>2, <1>5, <2>1, <2>2 DEF Apply, Quotient
<1>6. QED BY <1>1, <1>3, <1>4, <1>5

LEMMA DivideType ==
  ASSUME NEW x \in Values, NEW y \in Values
  PROVE  divide(x, y) \in Values \cup {Error}
<1>1. /\ x.sign \in {-1, 1} /\ x.num \in Nat /\ x.den \in Nat
      /\ y.sign \in {-1, 1} /\ y.num \in Nat /\ y.den \in Nat
  BY ValueFields
<1>2. x.sign * y.sign \in {-1, 1} /\ x.num * y.den \in Nat /\ x.den * y.num \in Nat
  BY <1>1, ProductNat
<1>3. ASSUME NEW kind \in Kinds
      PROVE  /\ Number(kind, x.sign * y.sign, x.num * y.den, x.den * y.num) \in Values
             /\ Number(kind, x.sign * y.sign, IF IsZero(x) THEN 0 ELSE 1, 0) \in Values
  BY <1>2, NumberFields
<1>4. QED BY <1>3, CheckedType DEF divide, Kinds

LEMMA DivideIs ==
  ASSUME NEW x, NEW y, NEW a \in Quotient, NEW b \in Quotient,
         Represents(x, a), Represents(y, b), b.num # 0
  PROVE  /\ divide(x, y) # Error => Represents(divide(x, y), Apply("/", a, b))
         /\ Fits(Apply("/", a, b)) => divide(x, y) # Error
<1>1. /\ x \in Values /\ x.sign \in {-1, 1} /\ x.num \in Nat /\ x.den \in Nat \ {0}
      /\ y \in Values /\ y.sign \in {-1, 1} /\ y.num \in Nat /\ y.den \in Nat \ {0}
      /\ Signed(x) \in Int /\ Signed(y) \in Int
      /\ Signed(x) = x.sign * x.num /\ Signed(y) = y.sign * y.num
  BY ValueFields DEF Represents, Signed
<1>2. b.num \in Int /\ b.den \in Nat \ {0} /\ Signed(y) * b.den = b.num * y.den
  BY DEF Represents, Quotient, Equals
<1>3. (b.num > 0 => Signed(y) > 0) /\ (b.num < 0 => Signed(y) < 0)
  <2>1. CASE b.num > 0
    <3>1. b.num * y.den > 0
      BY <1>1, <1>2, <2>1, ProductPositive
    <3>2. Signed(y) <= 0 => Signed(y) * b.den <= 0
      BY <1>1, <1>2
    <3>3. QED BY <1>1, <1>2, <2>1, <3>1, <3>2
  <2>2. CASE b.num < 0
    <3>1. b.num * y.den < 0
      BY <1>1, <1>2, <2>2, ProductPositive
    <3>2. Signed(y) >= 0 => Signed(y) * b.den >= 0
      BY <1>1, <1>2
    <3>3. QED BY <1>1, <1>2, <2>2, <3>1, <3>2
  <2>3. QED BY <1>2, <2>1, <2>2
<1>4. /\ b.num > 0 => y.sign = 1 /\ y.num = Signed(y)
      /\ b.num < 0 => y.sign = -1 /\ y.num = -Signed(y)
      /\ y.num # 0
  BY <1>1, <1>2, <1>3
<1>5. /\ Apply("/", a, b) \in Quotient
      /\ b.num < 0 => Equals(-(Signed(x) * y.den), -(x.den * Signed(y)), Apply("/", a, b))
      /\ b.num > 0 => Equals(Signed(x) * y.den, x.den * Signed(y), Apply("/", a, b))
  BY <1>1, EqualQuotients, ApplyType DEF Represents
<1>6. ASSUME NEW kind \in {"decimal", "double"}
      PROVE  Represents(Number(kind, x.sign * y.sign, x.num * y.den, x.den * y.num),
                        Apply("/", a, b))
  <2> DEFINE z == Number(kind, x.sign * y.sign, x.num * y.den, x.den * y.num)
  <2>1. /\ x.sign * y.sign \in {-1, 1} /\ x.num * y.den \in Nat
        /\ x.den * y.num \in Nat \ {0} /\ kind \in Kinds /\ kind \notin WholeKinds
    BY <1>1, <1>4, ProductNat, ProductPositive DEF Kinds, WholeKinds
  <2>2. /\ z \in Values /\ z.kind = kind /\ z.den = x.den * y.num
        /\ Signed(z) = (x.sign * y.sign) * (x.num * y.den)
    BY <2>1, NumberFields
  <2> HIDE DEF z
  <2>3. Equals(Signed(z), z.den, Apply("/", a, b))
    <3>1. CASE b.num > 0
      <4>1. Signed(z) = Signed(x) * y.den /\ z.den = x.den * Signed(y)
        BY <1>1, <1>4, <2>2, <3>1
      <4>2. QED BY <1>5, <3>1, <4>1
    <3>2. CASE b.num < 0
      <4>1. Signed(z) = -(Signed(x) * y.den) /\ z.den = -(x.den * Signed(y))
        BY <1>1, <1>4, <2>2, <3>2
      <4>2. QED BY <1>5, <3>2, <4>1
    <3>3. QED BY <1>2, <3>1, <3>2
  <2>4. QED BY <2>1, <2>2, <2>3 DEF Represents, z
<1> DEFINE w == Number("decimal", x.sign * y.sign, x.num * y.den, x.den * y.num)
           v == Number("double", x.sign * y.sign, x.num * y.den, x.den * y.num)
<1>7. divide(x, y) = IF common_arithmetic_kind(x.kind, y.kind) = "decimal" THEN Checked(w) ELSE v
  BY <1>4 DEF divide, IsZero
<1>8. Represents(w, Apply("/", a, b)) /\ Represents(v, Apply("/", a, b))
  BY <1>6
<1> HIDE DEF w, v
<1>9. v # Error
  BY <1>8, ValueFields DEF Represents
<1>10. QED BY <1>5, <1>7, <1>8, <1>9, CheckedIs

LEMMA MinusIs ==
  ASSUME NEW y \in Values
  PROVE  LET z == [y EXCEPT !.sign = -y.sign]
         IN  /\ z \in Values /\ z.kind = y.kind
             /\ \A b \in Quotient : Represents(y, b) => Represents(z, Opposite("-", b))
<1> DEFINE z == [y EXCEPT !.sign = -y.sign]
<1>1. /\ y.sign \in {-1, 1} /\ y.num \in Nat /\ y.den \in Nat /\ Signed(y) \in Int
  BY ValueFields
<1>2. /\ z \in Values /\ z.kind = y.kind /\ z.den = y.den /\ Signed(z) = -Signed(y)
  BY <1>1 DEF Values, Signed
<1>3. ASSUME NEW b \in Quotient, Represents(y, b) PROVE Represents(z, Opposite("-", b))
  <2>1. /\ Opposite("-", b).num = -b.num /\ Opposite("-", b).den = b.den
        /\ b.num \in Int /\ b.den \in Nat \ {0}
    BY DEF Opposite, Quotient
  <2> HIDE DEF z
  <2>2. Signed(y) * b.den = b.num * y.den
    BY <1>3 DEF Represents, Equals
  <2>3. (-Signed(y)) * b.den = -(Signed(y) * b.den) /\ (-b.num) * y.den = -(b.num * y.den)
    BY <1>1, <2>1
  <2>4. QED BY <1>2, <1>3, <2>1, <2>2, <2>3 DEF Represents, Equals
<1>4. QED BY <1>2, <1>3

LEMMA BinaryType ==
  ASSUME NEW operator \in {"+", "-", "*", "/"}, NEW x \in Values, NEW y \in Values
  PROVE  binary(operator, x, y) \in Values \cup {Error}
<1> DEFINE kind == common_arithmetic_kind(x.kind, y.kind)
           z == [y EXCEPT !.sign = -y.sign]
<1>1. kind \in Kinds
  BY CommonKind, ValueFields
<1>2. z \in Values
  BY MinusIs
<1> HIDE DEF z
<1>3. /\ Times(kind, x, y) \in Values /\ Plus(kind, x, y) \in Values /\ Plus(kind, x, z) \in Values
  BY <1>1, <1>2, TimesIs, PlusIs
<1>4. /\ Checked(Times(kind, x, y)) \in Values \cup {Error}
      /\ Checked(Plus(kind, x, y)) \in Values \cup {Error}
      /\ Checked(Plus(kind, x, z)) \in Values \cup {Error}
      /\ divide(x, y) \in Values \cup {Error}
  BY <1>3, CheckedType, DivideType
<1> HIDE DEF kind
<1>5. QED BY <1>4 DEF binary, kind, z

LEMMA BinaryIs ==
  ASSUME NEW operator \in {"+", "-", "*", "/"}, NEW x, NEW y,
         NEW a \in Quotient, NEW b \in Quotient,
         Represents(x, a), Represents(y, b), operator = "/" => b.num # 0
  PROVE  /\ binary(operator, x, y) # Error =>
              Represents(binary(operator, x, y), Apply(operator, a, b))
         /\ Fits(Apply(operator, a, b)) => binary(operator, x, y) # Error
<1> DEFINE kind == common_arithmetic_kind(x.kind, y.kind)
           z == [y EXCEPT !.sign = -y.sign]
           c == Opposite("-", b)
<1>1. x \in Values /\ y \in Values
  BY DEF Represents
<1>2. kind \in Kinds /\ (kind \in WholeKinds => x.kind \in WholeKinds /\ y.kind \in WholeKinds)
  BY <1>1, CommonKind, ValueFields
<1>3. CASE operator = "/"
  <2>1. binary(operator, x, y) = divide(x, y)
    BY <1>3 DEF binary
  <2>2. QED BY <1>3, <2>1, DivideIs
<1>4. CASE operator = "*"
  <2>1. binary(operator, x, y) = Checked(Times(kind, x, y))
    BY <1>4 DEF binary
  <2>2. Represents(Times(kind, x, y), Apply("*", a, b)) /\ Apply("*", a, b) \in Quotient
    BY <1>1, <1>2, TimesIs, ApplyType
  <2> HIDE DEF kind
  <2>3. QED BY <1>4, <2>1, <2>2, CheckedIs
<1>5. CASE operator = "+"
  <2>1. binary(operator, x, y) = Checked(Plus(kind, x, y))
    BY <1>5 DEF binary
  <2>2. Represents(Plus(kind, x, y), Apply("+", a, b)) /\ Apply("+", a, b) \in Quotient
    BY <1>1, <1>2, PlusIs, ApplyType
  <2> HIDE DEF kind
  <2>3. QED BY <1>5, <2>1, <2>2, CheckedIs
<1>6. CASE operator = "-"
  <2>1. binary(operator, x, y) = Checked(Plus(kind, x, z))
    BY <1>6 DEF binary
  <2>2. z \in Values /\ z.kind = y.kind /\ Represents(z, c)
    BY <1>1, MinusIs
  <2>3. c \in Quotient /\ Apply("+", a, c) = Apply("-", a, b) /\ Apply("-", a, b) \in Quotient
    <3>1. /\ c.num = -b.num /\ c.den = b.den /\ c \in Quotient
          /\ a.num \in Int /\ a.den \in Int /\ b.num \in Int /\ b.den \in Int
      BY DEF Opposite, Quotient
    <3> HIDE DEF c
    <3>2. a.num * b.den + (-b.num) * a.den = a.num * b.den - b.num * a.den
      BY <3>1
    <3>3. Apply("+", a, c) = Apply("-", a, b)
      BY <3>1, <3>2 DEF Apply
    <3>4. QED BY <3>1, <3>3, ApplyType
  <2> HIDE DEF kind, z, c
  <2>4. Represents(Plus(kind, x, z), Apply("+", a, c))
    BY <1>1, <1>2, <2>2, <2>3, PlusIs
  <2>5. QED BY <1>6, <2>1, <2>3, <2>4, CheckedIs
<1>7. QED BY <1>3, <1>4, <1>5, <1>6

-----------------------------------------------------------------------------
(* Texts, places and calls *)

LEMMA TokenKinds ==
  ASSUME NEW text \in Seq(Token), NEW at \in Nat \ {0}
  PROVE  /\ at <= Len(text) => /\ Current(text, at) = text[at].kind
                               /\ text[at].kind \in Symbols \cup {"number"}
                               /\ text[at].kind = "number" => text[at] \in Literals
         /\ at > Len(text) => Current(text, at) = "eof"
<1>1. Len(text) \in Nat
  OBVIOUS
<1>2. CASE at <= Len(text)
  <2>1. text[at] \in Token
    BY <1>1, <1>2
  <2>2. /\ text[at] \in Literals => text[at].kind = "number"
        /\ text[at] \in [kind : Symbols] => text[at].kind \in Symbols
    BY DEF Literals
  <2>3. "number" \notin Symbols
    BY DEF Symbols
  <2>4. QED BY <1>1, <1>2, <2>1, <2>2, <2>3 DEF Token, Current
<1>3. CASE at > Len(text)
  BY <1>1, <1>3 DEF Current
<1>4. QED BY <1>1, <1>2, <1>3

\* A place where a kind of token stands is in the text.
LEMMA InText ==
  ASSUME NEW text \in Seq(Token), NEW at \in Nat \ {0},
         Current(text, at) \in {"+", "-", "*", "/", "(", ")", "number"}
  PROVE  at <= Len(text)
BY TokenKinds

LEMMA PlaceFields ==
  ASSUME NEW x \in Places
  PROVE  x.at \in Nat \ {0} /\ x.value \in Values \cup {None} /\ x # Error
<1>1. DOMAIN x = {"at", "value"} /\ DOMAIN Error = {"kind"}
  BY DEF Places, Error
<1>2. QED BY <1>1 DEF Places

LEMMA ReadIs ==
  ASSUME NEW at \in Nat \ {0}, NEW v \in Values \cup {None, Error}
  PROVE  /\ v = Error => Read(at, v) = Error
         /\ v # Error => Read(at, v) \in Places /\ Read(at, v).at = at /\ Read(at, v).value = v
BY DEF Read, Places

LEMMA NoneIs == None # Error /\ None \notin Values
BY ValueFields DEF None, Error

\* A result of a method that was called at a place.
Onward(at, r) == r = Error \/ (r \in Places /\ r.value \in Values /\ r.at >= at)

Methods == {"additive", "multiplicative", "unary", "primary"}

Rank == [additive |-> 3, multiplicative |-> 2, unary |-> 1, primary |-> 0]

Rest(text, at) == IF at <= Len(text) THEN Len(text) + 1 - at ELSE 0

\* What decreases from a call to the calls it makes.
Measure(text, call) == 4 * Rest(text, call[2].at) + Rank[call[1]]

LEMMA MeasureIs ==
  ASSUME NEW text \in Seq(Token), NEW method \in Methods, NEW place \in Places,
         NEW depth \in 0 .. MaxDepth
  PROVE  /\ <<method, place, depth>> \in Calls
         /\ Measure(text, <<method, place, depth>>) = 4 * Rest(text, place.at) + Rank[method]
         /\ Measure(text, <<method, place, depth>>) \in 0 .. 4 * (Len(text) + 1) + 3
<1>1. Rank[method] \in 0 .. 3
  BY DEF Rank, Methods
<1>2. Rest(text, place.at) \in 0 .. Len(text) + 1
  BY PlaceFields DEF Rest
<1>3. Measure(text, <<method, place, depth>>) = 4 * Rest(text, place.at) + Rank[method]
  BY DEF Measure
<1>4. QED BY <1>1, <1>2, <1>3 DEF Calls, Methods

\* Later in the text, or a method that binds more.
Below(text, a, method, b, other) ==
  \/ a < b /\ a <= Len(text)
  \/ a = b /\ Rank[other] < Rank[method]

LEMMA Decreases ==
  ASSUME NEW text \in Seq(Token), NEW a \in Nat \ {0}, NEW b \in Nat \ {0},
         NEW method \in Methods, NEW other \in Methods, Below(text, a, method, b, other)
  PROVE  4 * Rest(text, b) + Rank[other] < 4 * Rest(text, a) + Rank[method]
<1>1. Rank[method] \in 0 .. 3 /\ Rank[other] \in 0 .. 3
  BY DEF Rank, Methods
<1>2. Len(text) \in Nat
  OBVIOUS
<1>3. CASE a < b /\ a <= Len(text)
  <2>1. Rest(text, b) + 1 <= Rest(text, a) /\ Rest(text, b) \in Nat /\ Rest(text, a) \in Nat
    BY <1>2, <1>3 DEF Rest
  <2>2. QED BY <1>1, <2>1
<1>4. CASE a = b /\ Rank[other] < Rank[method]
  <2>1. Rest(text, b) \in Nat
    BY <1>2 DEF Rest
  <2>2. QED BY <1>1, <1>4, <2>1
<1>5. QED BY <1>3, <1>4 DEF Below

\* The calls of a smaller measure return the same, and what a method may return.
Agree(p, q, text, k) ==
  \A c \in Calls : Measure(text, c) < k => p[c] = q[c] /\ Onward(c[2].at, p[c])

LEMMA AgreeOn ==
  ASSUME NEW text \in Seq(Token), NEW p, NEW q, NEW at \in Nat \ {0}, NEW method \in Methods,
         Agree(p, q, text, 4 * Rest(text, at) + Rank[method]),
         NEW place \in Places, NEW other \in Methods, NEW depth \in 0 .. MaxDepth,
         Below(text, at, method, place.at, other)
  PROVE  /\ p[<<other, place, depth>>] = q[<<other, place, depth>>]
         /\ Onward(place.at, p[<<other, place, depth>>])
<1> DEFINE c == <<other, place, depth>>
<1>1. c \in Calls /\ Measure(text, c) = 4 * Rest(text, place.at) + Rank[other]
  BY MeasureIs
<1>2. 4 * Rest(text, place.at) + Rank[other] < 4 * Rest(text, at) + Rank[method]
  BY Decreases, PlaceFields
<1>3. c[2] = place
  OBVIOUS
<1> HIDE DEF c
<1>4. p[c] = q[c] /\ Onward(place.at, p[c])
  BY <1>1, <1>2, <1>3 DEF Agree
<1>5. QED BY <1>4 DEF c

Operators == {"+", "-", "*", "/"}

LEMMA JoinedType ==
  ASSUME NEW text, NEW left \in Places, left.value \in Values,
         Current(text, left.at) \in Operators, NEW right, Onward(left.at + 1, right)
  PROVE  Onward(left.at + 1, Joined(text, left, right))
<1>1. CASE right = Error
  BY <1>1 DEF Joined, Onward
<1>2. CASE right # Error
  <2>1. right \in Places /\ right.value \in Values /\ right.at >= left.at + 1 /\ right.at \in Nat \ {0}
    BY <1>2, PlaceFields DEF Onward
  <2> DEFINE v == binary(Current(text, left.at), left.value, right.value)
  <2>2. v \in Values \cup {Error} /\ Joined(text, left, right) = Read(right.at, v)
    BY <1>2, <2>1, BinaryType DEF Joined, Operators
  <2> HIDE DEF v
  <2>3. QED BY <2>1, <2>2, ReadIs DEF Onward
<1>3. QED BY <1>1, <1>2

LEMMA ChainLocal ==
  ASSUME NEW text \in Seq(Token), NEW p, NEW q, NEW at \in Nat \ {0}, NEW method \in Methods,
         Agree(p, q, text, 4 * Rest(text, at) + Rank[method]),
         NEW left, Onward(at, left), NEW depth \in 0 .. MaxDepth,
         NEW operators \in SUBSET Operators, NEW operand \in Methods
  PROVE  /\ Chain(p, text, left, depth, method, operators, operand)
              = Chain(q, text, left, depth, method, operators, operand)
         /\ Onward(at, Chain(p, text, left, depth, method, operators, operand))
<1>1. CASE left = Error \/ Current(text, left.at) \notin operators
  BY <1>1 DEF Chain
<1>2. CASE left # Error /\ Current(text, left.at) \in operators
  <2>1. /\ left \in Places /\ left.value \in Values /\ left.at \in Nat \ {0} /\ left.at >= at
        /\ left.at <= Len(text) /\ Current(text, left.at) \in Operators
    <3>1. left \in Places /\ left.value \in Values /\ left.at >= at /\ left.at \in Nat \ {0}
      BY <1>2, PlaceFields DEF Onward
    <3>2. QED BY <1>2, <3>1, InText DEF Operators
  <2> DEFINE next == Read(left.at + 1, None)
             right == p[<<operand, next, depth>>]
             joined == Joined(text, left, right)
  <2>2. next \in Places /\ next.at = left.at + 1
    <3>1. left.at + 1 \in Nat \ {0}
      BY <2>1
    <3>2. QED BY <3>1, ReadIs, NoneIs
  <2> HIDE DEF next
  <2>3. right = q[<<operand, next, depth>>] /\ Onward(left.at + 1, right)
    <3>1. at < next.at /\ at <= Len(text)
      BY <2>1, <2>2
    <3>2. QED BY <2>2, <3>1, AgreeOn DEF Below
  <2>4. /\ Chain(p, text, left, depth, method, operators, operand)
             = Continue(p, method, joined, depth)
        /\ Chain(q, text, left, depth, method, operators, operand)
             = Continue(q, method, joined, depth)
    BY <1>2, <2>3 DEF Chain, next
  <2> HIDE DEF right
  <2>5. Onward(left.at + 1, joined)
    BY <2>1, <2>3, JoinedType
  <2> HIDE DEF joined
  <2>6. CASE joined = Error
    BY <2>4, <2>6 DEF Continue, Onward
  <2>7. CASE joined # Error
    <3>1. joined \in Places /\ joined.at >= left.at + 1 /\ joined.at \in Nat \ {0}
      BY <2>5, <2>7, PlaceFields DEF Onward
    <3>2. at < joined.at /\ at <= Len(text)
      BY <2>1, <3>1
    <3>3. /\ p[<<method, joined, depth>>] = q[<<method, joined, depth>>]
          /\ Onward(joined.at, p[<<method, joined, depth>>])
      BY <3>1, <3>2, AgreeOn DEF Below
    <3>4. Onward(at, p[<<method, joined, depth>>])
      BY <3>1, <3>2, <3>3, PlaceFields DEF Onward
    <3>5. QED BY <2>4, <2>7, <3>3, <3>4 DEF Continue
  <2>8. QED BY <2>6, <2>7
<1>3. QED BY <1>1, <1>2

LEMMA FirstOperand ==
  ASSUME NEW text \in Seq(Token), NEW p, NEW q, NEW method \in Methods, NEW place \in Places,
         Agree(p, q, text, 4 * Rest(text, place.at) + Rank[method]),
         NEW operand \in Methods, Rank[operand] < Rank[method], NEW depth \in 0 .. MaxDepth
  PROVE  LET left == IF place.value = None THEN p[<<operand, place, depth>>] ELSE place
         IN  /\ left = IF place.value = None THEN q[<<operand, place, depth>>] ELSE place
             /\ Onward(place.at, left)
<1>1. place.at \in Nat \ {0} /\ place.value \in Values \cup {None}
  BY PlaceFields
<1>2. /\ p[<<operand, place, depth>>] = q[<<operand, place, depth>>]
      /\ Onward(place.at, p[<<operand, place, depth>>])
  BY <1>1, AgreeOn DEF Below
<1>3. place.value # None => Onward(place.at, place)
  BY <1>1 DEF Onward
<1>4. QED BY <1>2, <1>3

LEMMA AdditiveLocal ==
  ASSUME NEW text \in Seq(Token), NEW p, NEW q, NEW place \in Places, NEW depth \in 0 .. MaxDepth,
         Agree(p, q, text, 4 * Rest(text, place.at) + Rank["additive"])
  PROVE  /\ Additive(p, text, place, depth) = Additive(q, text, place, depth)
         /\ Onward(place.at, Additive(p, text, place, depth))
<1> DEFINE left == IF place.value = None THEN p[<<"multiplicative", place, depth>>] ELSE place
<1>1. /\ {"additive", "multiplicative"} \subseteq Methods /\ {"+", "-"} \in SUBSET Operators
      /\ Rank["multiplicative"] < Rank["additive"] /\ place.at \in Nat \ {0}
  BY PlaceFields DEF Rank, Methods, Operators
<1>2. /\ left = IF place.value = None THEN q[<<"multiplicative", place, depth>>] ELSE place
      /\ Onward(place.at, left)
  BY <1>1, FirstOperand
<1>3. /\ Additive(p, text, place, depth)
           = Chain(p, text, left, depth, "additive", {"+", "-"}, "multiplicative")
      /\ Additive(q, text, place, depth)
           = Chain(q, text, left, depth, "additive", {"+", "-"}, "multiplicative")
  BY <1>2 DEF Additive
<1> HIDE DEF left
<1>4. "additive" \in Methods /\ "multiplicative" \in Methods
  BY <1>1
<1> DEFINE operators == {"+", "-"}
           at == place.at
           method == "additive"
           operand == "multiplicative"
<1> HIDE DEF operators, at, method, operand
<1>5. operators \in SUBSET Operators /\ at \in Nat \ {0} /\ method \in Methods /\ operand \in Methods
  BY <1>1, <1>4 DEF operators, at, method, operand
<1>6. Onward(at, left) /\ Agree(p, q, text, 4 * Rest(text, at) + Rank[method])
  BY <1>2 DEF at, method
<1>7. /\ Chain(p, text, left, depth, method, operators, operand)
           = Chain(q, text, left, depth, method, operators, operand)
      /\ Onward(at, Chain(p, text, left, depth, method, operators, operand))
  BY <1>5, <1>6, ChainLocal
<1>8. QED BY <1>3, <1>7 DEF operators, at, method, operand

LEMMA MultiplicativeLocal ==
  ASSUME NEW text \in Seq(Token), NEW p, NEW q, NEW place \in Places, NEW depth \in 0 .. MaxDepth,
         Agree(p, q, text, 4 * Rest(text, place.at) + Rank["multiplicative"])
  PROVE  /\ Multiplicative(p, text, place, depth) = Multiplicative(q, text, place, depth)
         /\ Onward(place.at, Multiplicative(p, text, place, depth))
<1> DEFINE left == IF place.value = None THEN p[<<"unary", place, depth>>] ELSE place
<1>1. /\ {"multiplicative", "unary"} \subseteq Methods /\ {"*", "/"} \in SUBSET Operators
      /\ Rank["unary"] < Rank["multiplicative"] /\ place.at \in Nat \ {0}
  BY PlaceFields DEF Rank, Methods, Operators
<1>2. /\ left = IF place.value = None THEN q[<<"unary", place, depth>>] ELSE place
      /\ Onward(place.at, left)
  BY <1>1, FirstOperand
<1>3. /\ Multiplicative(p, text, place, depth)
           = Chain(p, text, left, depth, "multiplicative", {"*", "/"}, "unary")
      /\ Multiplicative(q, text, place, depth)
           = Chain(q, text, left, depth, "multiplicative", {"*", "/"}, "unary")
  BY <1>2 DEF Multiplicative
<1> HIDE DEF left
<1>4. "multiplicative" \in Methods /\ "unary" \in Methods
  BY <1>1
<1> DEFINE operators == {"*", "/"}
           at == place.at
           method == "multiplicative"
           operand == "unary"
<1> HIDE DEF operators, at, method, operand
<1>5. operators \in SUBSET Operators /\ at \in Nat \ {0} /\ method \in Methods /\ operand \in Methods
  BY <1>1, <1>4 DEF operators, at, method, operand
<1>6. Onward(at, left) /\ Agree(p, q, text, 4 * Rest(text, at) + Rank[method])
  BY <1>2 DEF at, method
<1>7. /\ Chain(p, text, left, depth, method, operators, operand)
           = Chain(q, text, left, depth, method, operators, operand)
      /\ Onward(at, Chain(p, text, left, depth, method, operators, operand))
  BY <1>5, <1>6, ChainLocal
<1>8. QED BY <1>3, <1>7 DEF operators, at, method, operand

LEMMA UnaryLocal ==
  ASSUME NEW text \in Seq(Token), NEW p, NEW q, NEW at \in Nat \ {0}, NEW depth \in 0 .. MaxDepth,
         Agree(p, q, text, 4 * Rest(text, at) + Rank["unary"])
  PROVE  /\ Unary(p, text, at, depth) = Unary(q, text, at, depth)
         /\ Onward(at, Unary(p, text, at, depth))
<1>1. {"unary", "primary"} \subseteq Methods /\ Rank["primary"] < Rank["unary"]
  BY DEF Rank, Methods
<1>2. CASE Current(text, at) \notin {"+", "-"}
  <2> DEFINE place == Read(at, None)
  <2>1. place \in Places /\ place.at = at
    BY ReadIs, NoneIs
  <2>2. Unary(p, text, at, depth) = p[<<"primary", place, depth>>]
        /\ Unary(q, text, at, depth) = q[<<"primary", place, depth>>]
    BY <1>2 DEF Unary
  <2> HIDE DEF place
  <2>3. QED BY <1>1, <2>1, <2>2, AgreeOn DEF Below
<1>3. CASE Current(text, at) \in {"+", "-"} /\ depth >= MaxDepth
  BY <1>3 DEF Unary, Onward
<1>4. CASE Current(text, at) \in {"+", "-"} /\ ~(depth >= MaxDepth)
  <2> DEFINE place == Read(at + 1, None)
             x == p[<<"unary", place, depth + 1>>]
  <2>1. place \in Places /\ place.at = at + 1
    <3>1. at + 1 \in Nat \ {0}
      OBVIOUS
    <3>2. QED BY <3>1, ReadIs, NoneIs
  <2> HIDE DEF place
  <2>2. depth + 1 \in 0 .. MaxDepth /\ at < place.at /\ at <= Len(text)
    BY <1>4, <2>1, RangesAre, InText
  <2>3. x = q[<<"unary", place, depth + 1>>] /\ Onward(at + 1, x)
    BY <1>1, <2>1, <2>2, AgreeOn DEF Below
  <2>4. Unary(p, text, at, depth) =
          IF x = Error THEN Error ELSE Read(x.at, unary(Current(text, at), x.value))
    BY <1>4 DEF Unary, place
  <2>5. Unary(q, text, at, depth) =
          IF x = Error THEN Error ELSE Read(x.at, unary(Current(text, at), x.value))
    BY <1>4, <2>3 DEF Unary, place
  <2> HIDE DEF x
  <2>6. CASE x = Error
    BY <2>4, <2>5, <2>6 DEF Onward
  <2>7. CASE x # Error
    <3>1. x.at \in Nat \ {0} /\ x.value \in Values /\ x.at >= at + 1
      BY <2>3, <2>7, PlaceFields DEF Onward
    <3> DEFINE v == unary(Current(text, at), x.value)
    <3>2. v \in Values \cup {Error}
      BY <1>4, <3>1, UnaryIs
    <3> HIDE DEF v
    <3>3. Onward(at, Read(x.at, v))
      BY <3>1, <3>2, ReadIs DEF Onward
    <3>4. QED BY <2>4, <2>5, <2>7, <3>3 DEF v
  <2>8. QED BY <2>6, <2>7
<1>5. QED BY <1>2, <1>3, <1>4

LEMMA PrimaryLocal ==
  ASSUME NEW text \in Seq(Token), NEW p, NEW q, NEW at \in Nat \ {0}, NEW depth \in 0 .. MaxDepth,
         Agree(p, q, text, 4 * Rest(text, at) + Rank["primary"])
  PROVE  /\ Primary(p, text, at, depth) = Primary(q, text, at, depth)
         /\ Onward(at, Primary(p, text, at, depth))
<1>1. "additive" \in Methods /\ "primary" \in Methods
  BY DEF Methods
<1>2. CASE Current(text, at) = "number"
  <2>1. text[at] \in Literals
    BY <1>2, InText, TokenKinds
  <2>2. literal(text[at]) \in Values \cup {Error}
    BY <2>1, LiteralIs
  <2>3. Primary(p, text, at, depth) = Read(at + 1, literal(text[at]))
        /\ Primary(q, text, at, depth) = Read(at + 1, literal(text[at]))
    BY <1>2 DEF Primary
  <2>4. at + 1 \in Nat \ {0} /\ at + 1 >= at
    OBVIOUS
  <2>5. Onward(at, Read(at + 1, literal(text[at])))
    BY <2>2, <2>4, ReadIs DEF Onward
  <2>6. QED BY <2>3, <2>5
<1>3. CASE Current(text, at) = "(" /\ depth >= MaxDepth
  <2>1. Primary(p, text, at, depth) = Error /\ Primary(q, text, at, depth) = Error
    BY <1>3 DEF Primary
  <2>2. QED BY <2>1 DEF Onward
<1>4. CASE Current(text, at) = "(" /\ ~(depth >= MaxDepth)
  <2> DEFINE place == Read(at + 1, None)
             x == p[<<"additive", place, depth + 1>>]
             result == IF x = Error \/ Current(text, x.at) # ")" THEN Error
                       ELSE Read(x.at + 1, x.value)
  <2>1. place \in Places /\ place.at = at + 1
    <3>1. at + 1 \in Nat \ {0}
      OBVIOUS
    <3>2. QED BY <3>1, ReadIs, NoneIs
  <2> HIDE DEF place
  <2>2. depth + 1 \in 0 .. MaxDepth /\ at < place.at /\ at <= Len(text)
    <3>1. at <= Len(text)
      BY <1>4, InText
    <3>2. QED BY <1>4, <2>1, <3>1, RangesAre
  <2>3. x = q[<<"additive", place, depth + 1>>] /\ Onward(at + 1, x)
    <3>1. Below(text, at, "primary", place.at, "additive")
      BY <2>2 DEF Below
    <3>2. /\ p[<<"additive", place, depth + 1>>] = q[<<"additive", place, depth + 1>>]
          /\ Onward(place.at, p[<<"additive", place, depth + 1>>])
      BY <1>1, <2>1, <2>2, <3>1, AgreeOn
    <3>3. QED BY <2>1, <3>2
  <2>4. Primary(p, text, at, depth) = result
    BY <1>4 DEF Primary, place
  <2>5. Primary(q, text, at, depth) = result
    BY <1>4, <2>3 DEF Primary, place
  <2> HIDE DEF x
  <2>6. CASE result = Error
    BY <2>4, <2>5, <2>6 DEF Onward
  <2>7. CASE result # Error
    <3>1. x # Error /\ result = Read(x.at + 1, x.value)
      BY <2>7
    <3>2. x.at \in Nat \ {0} /\ x.value \in Values /\ x.at >= at + 1
      BY <2>3, <3>1, PlaceFields DEF Onward
    <3>3. x.at + 1 \in Nat \ {0} /\ x.at + 1 >= at
      BY <3>2
    <3>4. x.value # Error
      BY <3>2, ValueFields
    <3> HIDE DEF result
    <3>5. Onward(at, result)
      BY <3>1, <3>2, <3>3, <3>4, ReadIs DEF Onward
    <3>6. QED BY <2>4, <2>5, <3>5
  <2>8. QED BY <2>6, <2>7
<1>5. CASE Current(text, at) \notin {"number", "("}
  <2>1. Primary(p, text, at, depth) = Error /\ Primary(q, text, at, depth) = Error
    BY <1>5 DEF Primary
  <2>2. QED BY <2>1 DEF Onward
<1>6. QED BY <1>2, <1>3, <1>4, <1>5

LEMMA CalledLocal ==
  ASSUME NEW text \in Seq(Token), NEW p, NEW q, NEW call \in Calls,
         Agree(p, q, text, Measure(text, call))
  PROVE  /\ Called(p, text, call[1], call[2], call[3]) = Called(q, text, call[1], call[2], call[3])
         /\ Onward(call[2].at, Called(p, text, call[1], call[2], call[3]))
<1>1. PICK method \in Methods, place \in Places, depth \in 0 .. MaxDepth :
        call = <<method, place, depth>>
  BY DEF Calls, Methods
<1>2. call[1] = method /\ call[2] = place /\ call[3] = depth
  BY <1>1
<1>3. Agree(p, q, text, 4 * Rest(text, place.at) + Rank[method])
  BY <1>1, MeasureIs
<1>4. place.at \in Nat \ {0}
  BY PlaceFields
<1>5. /\ Called(p, text, method, place, depth) = Called(q, text, method, place, depth)
      /\ Onward(place.at, Called(p, text, method, place, depth))
  <2>1. CASE method = "additive"
    BY <1>3, <2>1, AdditiveLocal DEF Called
  <2>2. CASE method = "multiplicative"
    BY <1>3, <2>2, MultiplicativeLocal DEF Called
  <2>3. CASE method = "unary"
    BY <1>3, <1>4, <2>3, UnaryLocal DEF Called
  <2>4. CASE method = "primary"
    BY <1>3, <1>4, <2>4, PrimaryLocal DEF Called
  <2>5. QED BY <2>1, <2>2, <2>3, <2>4 DEF Methods
<1>6. QED BY <1>2, <1>5

\* The parser of a text, as the function of its calls.
Solves(p, text) == p = [call \in Calls |-> Called(p, text, call[1], call[2], call[3])]

Parser(text) == CHOOSE p : Solves(p, text)

LEMMA ParseIs ==
  ASSUME NEW text
  PROVE  Parse(text) = Parser(text)[<<"additive", Read(1, None), 0>>]
BY Zenon DEF Parse, Parser, Solves

LEMMA CallMeasure ==
  ASSUME NEW text \in Seq(Token), NEW call \in Calls
  PROVE  Measure(text, call) \in 0 .. 4 * (Len(text) + 1) + 3
<1>1. PICK method \in Methods, place \in Places, depth \in 0 .. MaxDepth :
        call = <<method, place, depth>>
  BY DEF Calls, Methods
<1>2. QED BY <1>1, MeasureIs

\* The equations hold and the results move on.
Right(p, text, call) ==
  /\ p[call] = Called(p, text, call[1], call[2], call[3])
  /\ Onward(call[2].at, p[call])

LEMMA ParserExists ==
  ASSUME NEW text \in Seq(Token)
  PROVE  \E p : Solves(p, text)
<1> DEFINE Solved(p, k) == \A c \in Calls : Measure(text, c) < k => Right(p, text, c)
           Good == {k \in Nat : \E p : Solved(p, k)}
           After(p) == [c \in Calls |-> Called(p, text, c[1], c[2], c[3])]
<1>1. \A c \in Calls : Measure(text, c) \in Nat /\ Measure(text, c) < 4 * (Len(text) + 1) + 4
  BY CallMeasure
<1>2. 0 \in Good
  <2>1. Solved(<< >>, 0)
    BY <1>1
  <2>2. QED BY <2>1
<1>3. ASSUME NEW k \in Nat, NEW p, Solved(p, k)
      PROVE  Solved(After(p), k + 1)
  <2>1. ASSUME NEW c \in Calls, Measure(text, c) < k + 1 PROVE Right(After(p), text, c)
    <3> DEFINE q == After(p)
    <3>1. ASSUME NEW d \in Calls, Measure(text, d) < Measure(text, c)
          PROVE  p[d] = q[d] /\ Onward(d[2].at, p[d])
      <4>1. Measure(text, d) < k
        BY <1>1, <2>1, <3>1
      <4>2. p[d] = Called(p, text, d[1], d[2], d[3]) /\ Onward(d[2].at, p[d])
        BY <1>3, <4>1 DEF Right
      <4>3. QED BY <4>2
    <3>2. q[c] = Called(p, text, c[1], c[2], c[3])
      OBVIOUS
    <3> HIDE DEF q
    <3>3. Agree(p, q, text, Measure(text, c))
      BY <3>1 DEF Agree
    <3>4. /\ Called(p, text, c[1], c[2], c[3]) = Called(q, text, c[1], c[2], c[3])
          /\ Onward(c[2].at, Called(p, text, c[1], c[2], c[3]))
      BY <3>3, CalledLocal
    <3>5. Right(q, text, c)
      BY <3>2, <3>4 DEF Right
    <3>6. QED BY <3>5 DEF q
  <2> HIDE DEF After
  <2>2. QED BY <2>1
<1>4. ASSUME NEW k \in Nat, k \in Good PROVE k + 1 \in Good
  <2>1. PICK p : Solved(p, k)
    BY <1>4
  <2>2. Solved(After(p), k + 1)
    BY <1>3, <2>1
  <2> HIDE DEF Solved, After
  <2>3. QED BY <2>2
<1> HIDE DEF Good
<1>5. Nat \subseteq Good
  BY <1>2, <1>4, CountInduction
<1>6. 4 * (Len(text) + 1) + 4 \in Good
  BY <1>5
<1>7. PICK p : Solved(p, 4 * (Len(text) + 1) + 4)
  BY <1>6 DEF Good
<1>8. \A c \in Calls : Right(p, text, c)
  BY <1>1, <1>7
<1> DEFINE q == After(p)
<1>9. \A c \in Calls : q[c] = Called(q, text, c[1], c[2], c[3])
  <2> SUFFICES ASSUME NEW c \in Calls PROVE q[c] = Called(q, text, c[1], c[2], c[3])
    OBVIOUS
  <2>1. q[c] = Called(p, text, c[1], c[2], c[3])
    OBVIOUS
  <2>2. \A d \in Calls : p[d] = q[d] /\ Onward(d[2].at, p[d])
    BY <1>8 DEF Right
  <2> HIDE DEF q
  <2>3. Agree(p, q, text, Measure(text, c))
    BY <2>2 DEF Agree
  <2>4. QED BY <2>1, <2>3, CalledLocal
<1>10. q = [c \in Calls |-> Called(q, text, c[1], c[2], c[3])]
  <2>1. q = [c \in Calls |-> q[c]]
    OBVIOUS
  <2> HIDE DEF q
  <2>2. QED BY <1>9, <2>1
<1> HIDE DEF q
<1>11. QED BY <1>10 DEF Solves

\* The methods of the parser satisfy their equations, and move on in the text.
LEMMA ParserIs ==
  ASSUME NEW text \in Seq(Token), NEW call \in Calls
  PROVE  Right(Parser(text), text, call)
<1> DEFINE p == Parser(text)
           m == [c \in Calls |-> Measure(text, c)]
           Good == {c \in Calls : Right(p, text, c)}
<1>1. Solves(p, text)
  BY ParserExists DEF Parser
<1> HIDE DEF p
<1>2. \A c \in Calls : p[c] = Called(p, text, c[1], c[2], c[3])
  <2> DEFINE g == [c \in Calls |-> Called(p, text, c[1], c[2], c[3])]
  <2>1. p = g
    BY <1>1 DEF Solves
  <2>2. \A c \in Calls : g[c] = Called(p, text, c[1], c[2], c[3])
    OBVIOUS
  <2> HIDE DEF g
  <2>3. QED BY <2>1, <2>2
<1>3. m \in [Calls -> Nat]
  BY CallMeasure
<1>4. \A c \in Calls : m[c] = Measure(text, c)
  OBVIOUS
<1> HIDE DEF m
<1>5. ASSUME NEW c \in Calls, \A d \in Calls : m[d] < m[c] => d \in Good PROVE c \in Good
  <2>1. Agree(p, p, text, Measure(text, c))
    BY <1>4, <1>5 DEF Agree, Right
  <2>2. Onward(c[2].at, Called(p, text, c[1], c[2], c[3]))
    BY <2>1, CalledLocal
  <2>3. QED BY <1>2, <2>2 DEF Right
<1> HIDE DEF Good
<1>6. Calls \subseteq Good
  BY <1>3, <1>5, MeasureInduction
<1>7. QED BY <1>6 DEF Good, p

-----------------------------------------------------------------------------
(* The meanings of the parts of a text *)

Defined == {a \in [value : Quotient, parts : SUBSET Quotient] : a.value \in a.parts}

Meanings == Defined \cup {Meaningless, Undefined}

LEMMA DefinedIs ==
  ASSUME NEW a \in Defined
  PROVE  /\ a.value \in Quotient /\ a.parts \in SUBSET Quotient /\ a.value \in a.parts
         /\ a \notin {Meaningless, Undefined}
<1>1. a.value \in Quotient /\ a.parts \in SUBSET Quotient /\ a.value \in a.parts
  BY DEF Defined
<1>2. DOMAIN a = {"value", "parts"}
  BY DEF Defined
<1>3. DOMAIN Meaningless = {"kind"} /\ DOMAIN Undefined = {"kind"}
  BY DEF Meaningless, Undefined
<1>4. QED BY <1>1, <1>2, <1>3

LEMMA MeaninglessIs == Meaningless # Undefined
BY DEF Meaningless, Undefined

LEMMA WithIs ==
  ASSUME NEW v \in Quotient, NEW parts \in SUBSET Quotient
  PROVE  /\ With(v, parts) \in Defined
         /\ With(v, parts).value = v /\ With(v, parts).parts = parts \cup {v}
BY DEF With, Defined

LEMMA OppositeType ==
  ASSUME NEW sign, NEW a \in Quotient
  PROVE  Opposite(sign, a) \in Quotient
BY DEF Opposite, Quotient

LEMMA SignsIs ==
  ASSUME NEW sign, NEW a \in Meanings
  PROVE  /\ Signs(sign, a) \in Meanings
         /\ a \in {Meaningless, Undefined} => Signs(sign, a) = a
         /\ a \in Defined => /\ Signs(sign, a) \in Defined
                             /\ Signs(sign, a).value = Opposite(sign, a.value)
                             /\ Signs(sign, a).parts = a.parts \cup {Opposite(sign, a.value)}
<1>1. CASE a \in {Meaningless, Undefined}
  <2>1. Signs(sign, a) = a
    BY <1>1 DEF Signs
  <2>2. QED BY <1>1, <2>1, DefinedIs
<1>2. CASE a \in Defined
  <2> DEFINE v == Opposite(sign, a.value)
  <2>1. a \notin {Meaningless, Undefined} /\ a.value \in Quotient /\ a.parts \in SUBSET Quotient
    BY <1>2, DefinedIs
  <2>2. Signs(sign, a) = With(v, a.parts)
    BY <2>1, Zenon DEF Signs, Opposite
  <2>3. v \in Quotient
    BY <2>1, OppositeType
  <2> HIDE DEF v
  <2>4. /\ Signs(sign, a) \in Defined
        /\ Signs(sign, a).value = v /\ Signs(sign, a).parts = a.parts \cup {v}
    BY <2>1, <2>2, <2>3, WithIs
  <2>5. QED BY <2>1, <2>4 DEF v, Meanings
<1>3. QED BY <1>1, <1>2 DEF Meanings

LEMMA JoinsIs ==
  ASSUME NEW operator \in Operators, NEW a \in Meanings, NEW b \in Meanings
  PROVE  /\ Joins(operator, a, b) \in Meanings
         /\ Joins(operator, a, b) = Meaningless <=> Meaningless \in {a, b}
         /\ Joins(operator, a, b) \in Defined =>
              /\ a \in Defined /\ b \in Defined
              /\ operator = "/" => b.value.num # 0
              /\ Joins(operator, a, b).value = Apply(operator, a.value, b.value)
              /\ Joins(operator, a, b).parts
                   = (a.parts \cup b.parts) \cup {Apply(operator, a.value, b.value)}
<1>1. CASE Meaningless \in {a, b}
  <2>1. Joins(operator, a, b) = Meaningless
    BY <1>1 DEF Joins
  <2>2. QED BY <1>1, <2>1, DefinedIs DEF Meanings
<1>2. CASE /\ Meaningless \notin {a, b}
           /\ Undefined \in {a, b} \/ (operator = "/" /\ b.value.num = 0)
  <2>1. Joins(operator, a, b) = Undefined
    BY <1>2 DEF Joins
  <2>2. QED BY <1>2, <2>1, DefinedIs, MeaninglessIs DEF Meanings
<1>3. CASE /\ {Meaningless, Undefined} \cap {a, b} = {}
           /\ operator = "/" => b.value.num # 0
  <2> DEFINE v == Apply(operator, a.value, b.value)
  <2>1. a \in Defined /\ b \in Defined
    BY <1>3 DEF Meanings
  <2>2. Joins(operator, a, b) = With(v, a.parts \cup b.parts)
    BY <1>3, Zenon DEF Joins
  <2>3. /\ a.value \in Quotient /\ a.parts \in SUBSET Quotient
        /\ b.value \in Quotient /\ b.parts \in SUBSET Quotient
    BY <2>1, DefinedIs
  <2>4. v \in Quotient
    BY <1>3, <2>3, ApplyType DEF Operators
  <2> HIDE DEF v
  <2>5. /\ Joins(operator, a, b) \in Defined
        /\ Joins(operator, a, b).value = v
        /\ Joins(operator, a, b).parts = (a.parts \cup b.parts) \cup {v}
    BY <2>2, <2>3, <2>4, WithIs
  <2>6. Joins(operator, a, b) # Meaningless /\ Meaningless \notin {a, b}
    BY <1>3, <2>5, DefinedIs
  <2>7. QED BY <1>3, <2>1, <2>5, <2>6 DEF v, Meanings
<1>4. QED BY <1>1, <1>2, <1>3

Cells(text) == (1 .. Len(text) + 1) \X (0 .. Len(text))

Size(part) == IF part[1] <= part[2] THEN part[2] - part[1] + 1 ELSE 0

LEMMA SplitsIn ==
  ASSUME NEW text, NEW i \in Nat, NEW j \in Nat, NEW operators
  PROVE  /\ Splits(text, i, j, operators) \in SUBSET (i + 1 .. j)
         /\ \A k \in Splits(text, i, j, operators) :
              /\ text[k].kind \in operators /\ text[k - 1].kind \in {"number", ")"}
              /\ Open(text, i, k) = 0
BY DEF Splits

\* The operator that is applied last.
LEMMA LastOperator ==
  ASSUME NEW text, NEW i \in Nat, NEW j \in Nat, Outermost(text, i, j) # {}
  PROVE  LET k == Max(Outermost(text, i, j))
         IN  /\ k \in i + 1 .. j /\ k \in Outermost(text, i, j)
             /\ \A l \in Outermost(text, i, j) : l <= k
             /\ text[k].kind \in Operators /\ text[k - 1].kind \in {"number", ")"}
             /\ Open(text, i, k) = 0
<1> DEFINE S == Outermost(text, i, j)
<1>1. PICK operators \in SUBSET Operators : S = Splits(text, i, j, operators)
  <2>1. {"+", "-"} \in SUBSET Operators /\ {"*", "/"} \in SUBSET Operators
    BY DEF Operators
  <2>2. QED BY <2>1 DEF Outermost
<1>2. S \in SUBSET (i + 1 .. j)
  BY <1>1, SplitsIn
<1> HIDE DEF S
<1>3. S \in SUBSET (0 .. j)
  BY <1>2
<1>4. S # {}
  BY DEF S
<1>5. Max(S) \in S /\ \A l \in S : l <= Max(S)
  BY <1>3, <1>4, MaxIs
<1> DEFINE k == Max(S)
<1> HIDE DEF k
<1>6. k \in S /\ \A l \in S : l <= k
  BY <1>5 DEF k
<1>7. /\ k \in i + 1 .. j /\ text[k].kind \in Operators
      /\ text[k - 1].kind \in {"number", ")"} /\ Open(text, i, k) = 0
  BY <1>1, <1>2, <1>6, SplitsIn
<1>8. QED BY <1>6, <1>7 DEF k, S

\* Same is what the smaller parts mean.
Alike(m, n, text, size) ==
  \A part \in Cells(text) : Size(part) < size => m[part] = n[part] /\ m[part] \in Meanings

LEMMA AlikeOn ==
  ASSUME NEW text \in Seq(Token), NEW m, NEW n, NEW i \in 1 .. Len(text) + 1, NEW j \in 0 .. Len(text),
         i <= j, Alike(m, n, text, Size(<<i, j>>)),
         NEW k \in i .. j + 1, NEW l \in i - 1 .. j, k # i \/ l # j
  PROVE  m[<<k, l>>] = n[<<k, l>>] /\ m[<<k, l>>] \in Meanings
<1>1. Len(text) \in Nat
  OBVIOUS
<1>2. <<k, l>> \in Cells(text)
  <2>1. k \in 1 .. Len(text) + 1 /\ l \in 0 .. Len(text)
    BY <1>1
  <2>2. QED BY <2>1 DEF Cells
<1>3. Size(<<k, l>>) < Size(<<i, j>>)
  BY <1>1 DEF Size
<1>4. QED BY <1>2, <1>3 DEF Alike

LEMMA MeantLocal ==
  ASSUME NEW text \in Seq(Token), NEW m, NEW n, NEW i \in 1 .. Len(text) + 1, NEW j \in 0 .. Len(text),
         Alike(m, n, text, Size(<<i, j>>))
  PROVE  Meant(m, text, i, j) = Meant(n, text, i, j) /\ Meant(m, text, i, j) \in Meanings
<1>1. Len(text) \in Nat /\ i \in Nat /\ j \in Nat
  OBVIOUS
<1>2. CASE Outermost(text, i, j) # {}
  <2> DEFINE k == Max(Outermost(text, i, j))
  <2>1. Meant(m, text, i, j) = Halves(text, m, i, j, k) /\ Meant(n, text, i, j) = Halves(text, n, i, j, k)
    BY <1>2 DEF Meant
  <2>2. k \in i + 1 .. j /\ text[k].kind \in Operators
    BY <1>1, <1>2, LastOperator
  <2> HIDE DEF k
  <2>3. /\ m[<<i, k - 1>>] = n[<<i, k - 1>>] /\ m[<<i, k - 1>>] \in Meanings
    <3>1. i <= j /\ i \in i .. j + 1 /\ k - 1 \in i - 1 .. j /\ k - 1 # j
      BY <1>1, <2>2
    <3>2. QED BY <3>1, AlikeOn
  <2>4. m[<<k + 1, j>>] = n[<<k + 1, j>>] /\ m[<<k + 1, j>>] \in Meanings
    <3>1. i <= j /\ k + 1 \in i .. j + 1 /\ j \in i - 1 .. j /\ k + 1 # i
      BY <1>1, <2>2
    <3>2. QED BY <3>1, AlikeOn
  <2>5. Joins(text[k].kind, m[<<i, k - 1>>], m[<<k + 1, j>>]) \in Meanings
    BY <2>2, <2>3, <2>4, JoinsIs
  <2>6. QED BY <2>1, <2>3, <2>4, <2>5 DEF Halves
<1>3. CASE Outermost(text, i, j) = {} /\ i <= j /\ text[i].kind \in {"+", "-"}
  <2>1. /\ Meant(m, text, i, j) = Signs(text[i].kind, m[<<i + 1, j>>])
        /\ Meant(n, text, i, j) = Signs(text[i].kind, n[<<i + 1, j>>])
    BY <1>3 DEF Meant, Enclosed
  <2>2. m[<<i + 1, j>>] = n[<<i + 1, j>>] /\ m[<<i + 1, j>>] \in Meanings
    <3>1. i + 1 \in i .. j + 1 /\ j \in i - 1 .. j /\ i + 1 # i
      BY <1>1, <1>3
    <3>2. QED BY <1>3, <3>1, AlikeOn
  <2>3. QED BY <2>1, <2>2, SignsIs
<1>4. CASE Outermost(text, i, j) = {} /\ i = j /\ text[i].kind = "number"
  <2>1. /\ Meant(m, text, i, j) = With([num |-> text[i].num, den |-> text[i].den], {})
        /\ Meant(n, text, i, j) = With([num |-> text[i].num, den |-> text[i].den], {})
    BY <1>4 DEF Meant, Enclosed
  <2>2. text[i] \in Literals
    <3>1. i \in Nat \ {0} /\ i <= Len(text)
      BY <1>1, <1>4
    <3>2. QED BY <1>4, <3>1, TokenKinds
  <2>3. [num |-> text[i].num, den |-> text[i].den] \in Quotient
    BY <2>2, LiteralIs
  <2>4. QED BY <2>1, <2>3, WithIs DEF Meanings
<1>5. CASE Outermost(text, i, j) = {} /\ Enclosed(text, i, j)
  <2>1. Meant(m, text, i, j) = m[<<i + 1, j - 1>>] /\ Meant(n, text, i, j) = n[<<i + 1, j - 1>>]
    BY <1>5 DEF Meant, Enclosed
  <2>2. i + 1 < j
    BY <1>5 DEF Enclosed
  <2>3. i <= j /\ i + 1 \in i .. j + 1 /\ j - 1 \in i - 1 .. j /\ i + 1 # i
    BY <1>1, <2>2
  <2>4. m[<<i + 1, j - 1>>] = n[<<i + 1, j - 1>>] /\ m[<<i + 1, j - 1>>] \in Meanings
    BY <2>3, AlikeOn
  <2>5. QED BY <2>1, <2>4
<1>6. CASE /\ Outermost(text, i, j) = {}
           /\ ~(i <= j /\ text[i].kind \in {"+", "-"})
           /\ ~(i = j /\ text[i].kind = "number") /\ ~Enclosed(text, i, j)
  BY <1>6 DEF Meant, Meanings
<1>7. QED BY <1>2, <1>3, <1>4, <1>5, <1>6

\* The meanings of the parts of a text, as the function of the parts.
Fills(m, text) == m = [part \in Cells(text) |-> Meant(m, text, part[1], part[2])]

Table(text) == CHOOSE m : Fills(m, text)

LEMMA MeaningIs ==
  ASSUME NEW text
  PROVE  Meaning(text) = Table(text)[<<1, Len(text)>>]
BY Zenon DEF Meaning, Table, Fills, Cells

LEMMA CellIs ==
  ASSUME NEW text \in Seq(Token), NEW part \in Cells(text)
  PROVE  /\ part[1] \in 1 .. Len(text) + 1 /\ part[2] \in 0 .. Len(text)
         /\ part = <<part[1], part[2]>> /\ Size(part) \in 0 .. Len(text)
<1>1. part[1] \in 1 .. Len(text) + 1 /\ part[2] \in 0 .. Len(text) /\ part = <<part[1], part[2]>>
  BY DEF Cells
<1>2. QED BY <1>1 DEF Size

LEMMA MeantAt ==
  ASSUME NEW text \in Seq(Token), NEW m, NEW n, NEW part \in Cells(text),
         Alike(m, n, text, Size(part))
  PROVE  /\ Meant(m, text, part[1], part[2]) = Meant(n, text, part[1], part[2])
         /\ Meant(m, text, part[1], part[2]) \in Meanings
BY CellIs, MeantLocal

LEMMA TableExists ==
  ASSUME NEW text \in Seq(Token)
  PROVE  \E m : Fills(m, text)
<1> DEFINE Holds(m, c) == m[c] = Meant(m, text, c[1], c[2]) /\ m[c] \in Meanings
           Filled(m, k) == \A c \in Cells(text) : Size(c) < k => Holds(m, c)
           Good == {k \in Nat : \E m : Filled(m, k)}
           After(m) == [c \in Cells(text) |-> Meant(m, text, c[1], c[2])]
<1>1. Len(text) \in Nat /\ \A c \in Cells(text) : Size(c) \in Nat /\ Size(c) < Len(text) + 1
  BY CellIs
<1>2. 0 \in Good
  <2>1. Filled(<< >>, 0)
    BY <1>1
  <2>2. QED BY <2>1
<1>3. ASSUME NEW k \in Nat, NEW m, Filled(m, k)
      PROVE  Filled(After(m), k + 1)
  <2>1. ASSUME NEW c \in Cells(text), Size(c) < k + 1 PROVE Holds(After(m), c)
    <3> DEFINE n == After(m)
    <3>1. ASSUME NEW d \in Cells(text), Size(d) < Size(c) PROVE m[d] = n[d] /\ m[d] \in Meanings
      <4>1. Size(d) < k
        BY <1>1, <2>1, <3>1
      <4>2. m[d] = Meant(m, text, d[1], d[2]) /\ m[d] \in Meanings
        BY <1>3, <4>1
      <4>3. QED BY <4>2
    <3>2. n[c] = Meant(m, text, c[1], c[2])
      OBVIOUS
    <3> HIDE DEF n
    <3>3. Alike(m, n, text, Size(c))
      BY <3>1 DEF Alike
    <3>4. /\ Meant(m, text, c[1], c[2]) = Meant(n, text, c[1], c[2])
          /\ Meant(m, text, c[1], c[2]) \in Meanings
      BY <3>3, MeantAt
    <3>5. Holds(n, c)
      BY <3>2, <3>4
    <3> HIDE DEF Holds
    <3>6. QED BY <3>5 DEF n
  <2> HIDE DEF After, Holds
  <2>2. QED BY <2>1
<1>4. ASSUME NEW k \in Nat, k \in Good PROVE k + 1 \in Good
  <2>1. PICK m : Filled(m, k)
    BY <1>4
  <2>2. Filled(After(m), k + 1)
    BY <1>3, <2>1
  <2> HIDE DEF Filled, After
  <2>3. QED BY <2>2
<1> HIDE DEF Good
<1>5. Nat \subseteq Good
  BY <1>2, <1>4, CountInduction
<1>6. Len(text) + 1 \in Good
  BY <1>1, <1>5
<1>7. PICK m : Filled(m, Len(text) + 1)
  BY <1>6 DEF Good
<1>8. \A c \in Cells(text) : Holds(m, c)
  BY <1>1, <1>7
<1> DEFINE n == After(m)
<1>9. \A c \in Cells(text) : n[c] = Meant(n, text, c[1], c[2])
  <2> SUFFICES ASSUME NEW c \in Cells(text) PROVE n[c] = Meant(n, text, c[1], c[2])
    OBVIOUS
  <2>1. n[c] = Meant(m, text, c[1], c[2])
    OBVIOUS
  <2>2. \A d \in Cells(text) : m[d] = n[d] /\ m[d] \in Meanings
    BY <1>8
  <2> HIDE DEF n
  <2>3. Alike(m, n, text, Size(c))
    BY <2>2 DEF Alike
  <2>4. QED BY <2>1, <2>3, MeantAt
<1>10. n = [c \in Cells(text) |-> Meant(n, text, c[1], c[2])]
  <2>1. n = [c \in Cells(text) |-> n[c]]
    OBVIOUS
  <2> HIDE DEF n
  <2>2. QED BY <1>9, <2>1
<1> HIDE DEF n
<1>11. QED BY <1>10 DEF Fills

\* What the part of a text from i to j means.
MeaningOf(text, i, j) == Table(text)[<<i, j>>]

LEMMA TableIs ==
  ASSUME NEW text \in Seq(Token), NEW i \in 1 .. Len(text) + 1, NEW j \in 0 .. Len(text)
  PROVE  /\ MeaningOf(text, i, j) = Meant(Table(text), text, i, j)
         /\ MeaningOf(text, i, j) \in Meanings
<1> DEFINE m == Table(text)
           size == [c \in Cells(text) |-> Size(c)]
           Good == {c \in Cells(text) : m[c] \in Meanings}
<1>1. Fills(m, text)
  BY TableExists DEF Table
<1> HIDE DEF m
<1>2. \A c \in Cells(text) : m[c] = Meant(m, text, c[1], c[2])
  <2> DEFINE g == [c \in Cells(text) |-> Meant(m, text, c[1], c[2])]
  <2>1. m = g
    BY <1>1 DEF Fills
  <2>2. \A c \in Cells(text) : g[c] = Meant(m, text, c[1], c[2])
    OBVIOUS
  <2> HIDE DEF g
  <2>3. QED BY <2>1, <2>2
<1>3. size \in [Cells(text) -> Nat]
  BY CellIs
<1>4. \A c \in Cells(text) : size[c] = Size(c)
  OBVIOUS
<1> HIDE DEF size
<1>5. ASSUME NEW c \in Cells(text), \A d \in Cells(text) : size[d] < size[c] => d \in Good
      PROVE  c \in Good
  <2>1. Alike(m, m, text, Size(c))
    BY <1>4, <1>5 DEF Alike
  <2>2. Meant(m, text, c[1], c[2]) \in Meanings
    BY <2>1, MeantAt
  <2>3. QED BY <1>2, <2>2
<1> HIDE DEF Good
<1>6. Cells(text) \subseteq Good
  BY <1>3, <1>5, MeasureInduction
<1>7. <<i, j>> \in Cells(text)
  BY DEF Cells
<1>8. m[<<i, j>>] \in Meanings /\ m[<<i, j>>] = Meant(m, text, i, j)
  BY <1>2, <1>6, <1>7 DEF Good
<1>9. QED BY <1>8 DEF m, MeaningOf

\* What a part means, by how it ends up.
LEMMA MeaningEquations ==
  ASSUME NEW text \in Seq(Token), NEW i \in 1 .. Len(text) + 1, NEW j \in 0 .. Len(text)
  PROVE  /\ Outermost(text, i, j) # {} =>
              LET k == Max(Outermost(text, i, j))
              IN  MeaningOf(text, i, j) =
                    Joins(text[k].kind, MeaningOf(text, i, k - 1), MeaningOf(text, k + 1, j))
         /\ Outermost(text, i, j) = {} =>
              /\ i <= j /\ text[i].kind \in {"+", "-"} =>
                   MeaningOf(text, i, j) = Signs(text[i].kind, MeaningOf(text, i + 1, j))
              /\ i = j /\ text[i].kind = "number" =>
                   MeaningOf(text, i, j) = With([num |-> text[i].num, den |-> text[i].den], {})
              /\ Enclosed(text, i, j) => MeaningOf(text, i, j) = MeaningOf(text, i + 1, j - 1)
              /\ /\ ~(i <= j /\ text[i].kind \in {"+", "-"})
                 /\ ~(i = j /\ text[i].kind = "number") /\ ~Enclosed(text, i, j)
                 => MeaningOf(text, i, j) = Meaningless
<1> DEFINE m == Table(text)
<1>1. MeaningOf(text, i, j) = Meant(m, text, i, j)
  BY TableIs
<1>2. \A k, l : MeaningOf(text, k, l) = m[<<k, l>>]
  BY DEF MeaningOf
<1> HIDE DEF m
<1>3. Len(text) \in Nat /\ i \in Nat /\ j \in Nat
  OBVIOUS
<1>4. ASSUME Outermost(text, i, j) # {}
      PROVE  LET k == Max(Outermost(text, i, j))
             IN  MeaningOf(text, i, j) =
                   Joins(text[k].kind, MeaningOf(text, i, k - 1), MeaningOf(text, k + 1, j))
  BY <1>1, <1>2, <1>4 DEF Meant, Halves
<1>5. ASSUME Outermost(text, i, j) = {}, i <= j, text[i].kind \in {"+", "-"}
      PROVE  MeaningOf(text, i, j) = Signs(text[i].kind, MeaningOf(text, i + 1, j))
  BY <1>1, <1>2, <1>5 DEF Meant, Enclosed
<1>6. ASSUME Outermost(text, i, j) = {}, i = j, text[i].kind = "number"
      PROVE  MeaningOf(text, i, j) = With([num |-> text[i].num, den |-> text[i].den], {})
  BY <1>1, <1>2, <1>6 DEF Meant, Enclosed
<1>7. ASSUME Outermost(text, i, j) = {}, Enclosed(text, i, j)
      PROVE  MeaningOf(text, i, j) = MeaningOf(text, i + 1, j - 1)
  BY <1>1, <1>2, <1>7 DEF Meant, Enclosed
<1>8. ASSUME Outermost(text, i, j) = {}, ~(i <= j /\ text[i].kind \in {"+", "-"}),
             ~(i = j /\ text[i].kind = "number"), ~Enclosed(text, i, j)
      PROVE  MeaningOf(text, i, j) = Meaningless
  BY <1>1, <1>8 DEF Meant
<1>9. QED BY <1>4, <1>5, <1>6, <1>7, <1>8

-----------------------------------------------------------------------------
(* Parentheses and operators outside them *)

Where(text, kind, i, k) == {l \in i .. k : text[l].kind = kind}

LEMMA OpenIs ==
  ASSUME NEW text, NEW i \in Nat, NEW k \in Nat
  PROVE  /\ Open(text, i, k) =
              Cardinality(Where(text, "(", i, k)) - Cardinality(Where(text, ")", i, k))
         /\ \A kind : /\ IsFiniteSet(Where(text, kind, i, k))
                      /\ Cardinality(Where(text, kind, i, k)) \in Nat
         /\ Open(text, i, k) \in Int
<1>1. Open(text, i, k) = Cardinality(Where(text, "(", i, k)) - Cardinality(Where(text, ")", i, k))
  BY DEF Open, Where
<1>2. ASSUME NEW kind
      PROVE  /\ IsFiniteSet(Where(text, kind, i, k))
             /\ Cardinality(Where(text, kind, i, k)) \in Nat
  <2>1. Where(text, kind, i, k) \subseteq i .. k
    BY DEF Where
  <2>2. IsFiniteSet(i .. k)
    BY FS_Interval
  <2>3. QED BY <2>1, <2>2, FS_Subset, FS_CardinalityType
<1>3. QED BY <1>1, <1>2

LEMMA WhereSum ==
  ASSUME NEW text, NEW kind, NEW i \in Nat, NEW l \in Nat, NEW k \in Nat, i <= l + 1, l <= k
  PROVE  Cardinality(Where(text, kind, i, k)) =
           Cardinality(Where(text, kind, i, l)) + Cardinality(Where(text, kind, l + 1, k))
<1> DEFINE S == Where(text, kind, i, l)
           T == Where(text, kind, l + 1, k)
<1>1. Where(text, kind, i, k) = S \cup T /\ S \cap T = {}
  BY DEF Where
<1>2. IsFiniteSet(S) /\ IsFiniteSet(T) /\ Cardinality(S) \in Nat /\ Cardinality(T) \in Nat
  BY OpenIs
<1> HIDE DEF S, T
<1>3. Cardinality(S \cup T) = Cardinality(S) + Cardinality(T) - Cardinality(S \cap T)
  BY <1>2, FS_Union
<1>4. Cardinality(S \cap T) = 0
  BY <1>1, FS_EmptySet
<1>5. Cardinality(S \cup T) = Cardinality(S) + Cardinality(T)
  BY <1>2, <1>3, <1>4
<1>6. QED BY <1>1, <1>5 DEF S, T

\* Parts that follow each other.
LEMMA OpenSum ==
  ASSUME NEW text, NEW i \in Nat, NEW l \in Nat, NEW k \in Nat, i <= l + 1, l <= k
  PROVE  Open(text, i, k) = Open(text, i, l) + Open(text, l + 1, k)
<1> DEFINE N(kind, a, b) == Cardinality(Where(text, kind, a, b))
<1>1. /\ N("(", i, k) = N("(", i, l) + N("(", l + 1, k)
      /\ N(")", i, k) = N(")", i, l) + N(")", l + 1, k)
  BY WhereSum
<1>2. l + 1 \in Nat
  OBVIOUS
<1>3. /\ N("(", i, l) \in Nat /\ N("(", l + 1, k) \in Nat
      /\ N(")", i, l) \in Nat /\ N(")", l + 1, k) \in Nat
  BY <1>2, OpenIs
<1>4. /\ Open(text, i, k) = N("(", i, k) - N(")", i, k)
      /\ Open(text, i, l) = N("(", i, l) - N(")", i, l)
      /\ Open(text, l + 1, k) = N("(", l + 1, k) - N(")", l + 1, k)
  BY <1>2, OpenIs
<1> HIDE DEF N
<1>5. QED BY <1>1, <1>3, <1>4

LEMMA OpenLast ==
  ASSUME NEW text, NEW i \in Nat, NEW k \in Nat \ {0}, i <= k
  PROVE  Open(text, i, k) = Open(text, i, k - 1) + Open(text, k, k)
<1>1. ASSUME NEW l \in Nat, k = l + 1
      PROVE  Open(text, i, k) = Open(text, i, l) + Open(text, k, k)
  BY <1>1, OpenSum
<1>2. k - 1 \in Nat /\ k = (k - 1) + 1
  OBVIOUS
<1>3. QED BY <1>1, <1>2

LEMMA OpenOne ==
  ASSUME NEW text, NEW i \in Nat
  PROVE  Open(text, i, i) = IF text[i].kind = "(" THEN 1
                            ELSE IF text[i].kind = ")" THEN -1 ELSE 0
<1>1. ASSUME NEW kind
      PROVE  Cardinality(Where(text, kind, i, i)) = IF text[i].kind = kind THEN 1 ELSE 0
  <2>1. CASE text[i].kind = kind
    <3>1. Where(text, kind, i, i) = {i}
      BY <2>1 DEF Where
    <3>2. QED BY <2>1, <3>1, FS_Singleton
  <2>2. CASE text[i].kind # kind
    <3>1. Where(text, kind, i, i) = {}
      BY <2>2 DEF Where
    <3>2. QED BY <2>2, <3>1, FS_EmptySet
  <2>3. QED BY <2>1, <2>2
<1>2. QED BY <1>1, OpenIs

\* What holds of a part when it holds of all that it contains holds of every part.
LEMMA PartInduction ==
  ASSUME NEW text \in Seq(Token), NEW Good,
         \A i \in 1 .. Len(text) + 1, j \in 0 .. Len(text) :
           (i <= j => \A k \in i .. j + 1, l \in i - 1 .. j :
                        k # i \/ l # j => <<k, l>> \in Good) => <<i, j>> \in Good
  PROVE  \A i \in 1 .. Len(text) + 1, j \in 0 .. Len(text) : <<i, j>> \in Good
<1> DEFINE size == [c \in Cells(text) |-> Size(c)]
<1>1. size \in [Cells(text) -> Nat]
  BY CellIs
<1>2. \A c \in Cells(text) : size[c] = Size(c)
  OBVIOUS
<1> HIDE DEF size
<1>3. ASSUME NEW c \in Cells(text), \A d \in Cells(text) : size[d] < size[c] => d \in Good
      PROVE  c \in Good
  <2>1. PICK i \in 1 .. Len(text) + 1, j \in 0 .. Len(text) : c = <<i, j>>
    BY DEF Cells
  <2>2. ASSUME i <= j, NEW k \in i .. j + 1, NEW l \in i - 1 .. j, k # i \/ l # j
        PROVE  <<k, l>> \in Good
    <3>1. <<k, l>> \in Cells(text)
      <4>1. k \in 1 .. Len(text) + 1 /\ l \in 0 .. Len(text)
        BY <2>2
      <4>2. QED BY <4>1 DEF Cells
    <3>2. Size(<<k, l>>) < Size(c)
      BY <2>1, <2>2 DEF Size
    <3>3. QED BY <1>2, <1>3, <3>1, <3>2
  <2>3. QED BY <2>1, <2>2
<1>4. Cells(text) \subseteq Good
  BY <1>1, <1>3, MeasureInduction
<1>5. QED BY <1>4 DEF Cells

Well(text, i, j) == MeaningOf(text, i, j) # Meaningless

\* How a part that means something begins and ends.
Shaped(text, i, j) ==
  /\ i <= j /\ Open(text, i, j) = 0 /\ \A k \in i .. j : Open(text, i, k) >= 0
  /\ text[j].kind \in {"number", ")"} /\ text[i].kind \in {"number", "(", "+", "-"}

LEMMA ShapedOperands ==
  ASSUME NEW text, NEW i \in Nat \ {0}, NEW j \in Nat, NEW k \in i + 1 .. j,
         text[k].kind \in Operators, Shaped(text, i, k - 1), Shaped(text, k + 1, j)
  PROVE  Shaped(text, i, j)
<1>1. Open(text, k, k) = 0
  BY OpenOne DEF Operators
<1>2. k \in Nat /\ k - 1 \in Nat /\ k + 1 \in Nat /\ (k - 1) + 1 = k
  OBVIOUS
<1>3. Open(text, i, k) = 0
  <2>1. Open(text, i, k) = Open(text, i, k - 1) + Open(text, k, k)
    BY <1>2, OpenLast
  <2>2. QED BY <1>1, <1>2, <2>1 DEF Shaped
<1>4. ASSUME NEW l \in k + 1 .. j PROVE Open(text, i, l) = Open(text, k + 1, l)
  <2>1. l \in Nat
    BY <1>2
  <2>2. Open(text, i, l) = Open(text, i, k) + Open(text, k + 1, l)
    BY <1>2, <2>1, OpenSum
  <2>3. Open(text, k + 1, l) \in Int
    BY <1>2, <2>1, OpenIs
  <2>4. QED BY <1>3, <2>2, <2>3
<1>5. j \in k + 1 .. j
  BY <1>2 DEF Shaped
<1>6. ASSUME NEW l \in i .. j PROVE Open(text, i, l) >= 0
  <2>1. CASE l \in i .. k - 1
    BY <2>1 DEF Shaped
  <2>2. CASE l = k
    BY <1>3, <2>2
  <2>3. CASE l \in k + 1 .. j
    BY <1>4, <2>3 DEF Shaped
  <2>4. QED BY <2>1, <2>2, <2>3
<1>7. QED BY <1>4, <1>5, <1>6 DEF Shaped

LEMMA ShapedSigned ==
  ASSUME NEW text, NEW i \in Nat \ {0}, NEW j \in Nat, text[i].kind \in {"+", "-"},
         Shaped(text, i + 1, j)
  PROVE  Shaped(text, i, j)
<1>1. Open(text, i, i) = 0
  BY OpenOne
<1>2. ASSUME NEW l \in i + 1 .. j PROVE Open(text, i, l) = Open(text, i + 1, l)
  <2>1. l \in Nat /\ i + 1 \in Nat
    OBVIOUS
  <2>2. Open(text, i, l) = Open(text, i, i) + Open(text, i + 1, l)
    BY <2>1, OpenSum
  <2>3. Open(text, i + 1, l) \in Int
    BY <2>1, OpenIs
  <2>4. QED BY <1>1, <2>2, <2>3
<1>3. i + 1 <= j
  BY DEF Shaped
<1>4. ASSUME NEW l \in i .. j PROVE Open(text, i, l) >= 0
  <2>1. CASE l = i
    BY <1>1, <2>1
  <2>2. CASE l \in i + 1 .. j
    BY <1>2, <2>2 DEF Shaped
  <2>3. QED BY <2>1, <2>2
<1>5. j \in i + 1 .. j
  BY <1>3
<1>6. QED BY <1>2, <1>4, <1>5 DEF Shaped

LEMMA ShapedEnclosed ==
  ASSUME NEW text, NEW i \in Nat \ {0}, NEW j \in Nat, Enclosed(text, i, j),
         Shaped(text, i + 1, j - 1)
  PROVE  Shaped(text, i, j)
<1>1. i + 1 < j /\ text[i].kind = "(" /\ text[j].kind = ")" /\ j - 1 \in Nat /\ i + 1 \in Nat
  BY DEF Enclosed
<1>2. Open(text, i, i) = 1 /\ Open(text, j, j) = -1
  BY <1>1, OpenOne
<1>3. Open(text, i, j - 1) = 1
  <2>1. Open(text, i, j - 1) = Open(text, i, i) + Open(text, i + 1, j - 1)
    BY <1>1, OpenSum
  <2>2. QED BY <1>2, <2>1 DEF Shaped
<1>4. Open(text, i, j) = 0
  <2>1. Open(text, i, j) = Open(text, i, j - 1) + Open(text, j, j)
    BY <1>1, OpenLast
  <2>2. QED BY <1>2, <1>3, <2>1
<1>5. ASSUME NEW l \in i .. j PROVE Open(text, i, l) >= 0
  <2>1. CASE l = j
    BY <1>4, <2>1
  <2>2. CASE l \in i .. j - 1
    <3>1. Open(text, i, l) > 0
      BY <2>2 DEF Enclosed
    <3>2. Open(text, i, l) \in Int
      <4>1. l \in Nat
        BY <2>2
      <4>2. QED BY <4>1, OpenIs
    <3>3. QED BY <3>1, <3>2
  <2>3. QED BY <2>1, <2>2
<1>6. QED BY <1>1, <1>4, <1>5 DEF Shaped

LEMMA WellShaped ==
  ASSUME NEW text \in Seq(Token), NEW i \in 1 .. Len(text) + 1, NEW j \in 0 .. Len(text),
         Well(text, i, j)
  PROVE  Shaped(text, i, j)
<1> DEFINE Good == {c \in Cells(text) : Well(text, c[1], c[2]) => Shaped(text, c[1], c[2])}
<1>1. ASSUME NEW a \in 1 .. Len(text) + 1, NEW b \in 0 .. Len(text),
             a <= b => \A k \in a .. b + 1, l \in a - 1 .. b : k # a \/ l # b => <<k, l>> \in Good
      PROVE  <<a, b>> \in Good
  <2>1. a \in Nat \ {0} /\ b \in Nat /\ Len(text) \in Nat
    OBVIOUS
  <2>2. ASSUME Well(text, a, b) PROVE Shaped(text, a, b)
    <3>1. CASE Outermost(text, a, b) # {}
      <4> DEFINE k == Max(Outermost(text, a, b))
      <4>1. k \in a + 1 .. b /\ text[k].kind \in Operators
        BY <2>1, <3>1, LastOperator
      <4>2. MeaningOf(text, a, b) =
              Joins(text[k].kind, MeaningOf(text, a, k - 1), MeaningOf(text, k + 1, b))
        BY <3>1, MeaningEquations
      <4> HIDE DEF k
      <4>3. MeaningOf(text, a, k - 1) \in Meanings /\ MeaningOf(text, k + 1, b) \in Meanings
        <5>1. k - 1 \in 0 .. Len(text) /\ k + 1 \in 1 .. Len(text) + 1
          BY <2>1, <4>1
        <5>2. QED BY <5>1, TableIs
      <4>4. Well(text, a, k - 1) /\ Well(text, k + 1, b)
        BY <2>2, <4>1, <4>2, <4>3, JoinsIs DEF Well
      <4>5. <<a, k - 1>> \in Good /\ <<k + 1, b>> \in Good
        <5>1. /\ a <= b /\ a \in a .. b + 1 /\ k - 1 \in a - 1 .. b /\ k - 1 # b
              /\ k + 1 \in a .. b + 1 /\ b \in a - 1 .. b /\ k + 1 # a
          BY <2>1, <4>1
        <5>2. QED BY <1>1, <5>1
      <4>6. QED BY <2>1, <4>1, <4>4, <4>5, ShapedOperands
    <3>2. CASE Outermost(text, a, b) = {} /\ a <= b /\ text[a].kind \in {"+", "-"}
      <4>1. MeaningOf(text, a, b) = Signs(text[a].kind, MeaningOf(text, a + 1, b))
        BY <3>2, MeaningEquations
      <4>2. MeaningOf(text, a + 1, b) \in Meanings
        <5>1. a + 1 \in 1 .. Len(text) + 1
          BY <2>1, <3>2
        <5>2. QED BY <5>1, TableIs
      <4>3. Well(text, a + 1, b)
        BY <2>2, <4>1, <4>2, SignsIs DEF Well
      <4>4. <<a + 1, b>> \in Good
        <5>1. a + 1 \in a .. b + 1 /\ b \in a - 1 .. b /\ a + 1 # a
          BY <2>1, <3>2
        <5>2. QED BY <1>1, <3>2, <5>1
      <4>5. QED BY <2>1, <3>2, <4>3, <4>4, ShapedSigned
    <3>3. CASE a = b /\ text[a].kind = "number"
      <4>1. Open(text, a, b) = 0
        BY <3>3, OpenOne
      <4>2. \A k \in a .. b : k = b
        BY <2>1, <3>3
      <4>3. QED BY <2>1, <3>3, <4>1, <4>2 DEF Shaped
    <3>4. CASE Outermost(text, a, b) = {} /\ Enclosed(text, a, b)
      <4>1. MeaningOf(text, a, b) = MeaningOf(text, a + 1, b - 1)
        BY <3>4, MeaningEquations
      <4>2. a + 1 < b
        BY <3>4 DEF Enclosed
      <4>3. <<a + 1, b - 1>> \in Good
        <5>1. a <= b /\ a + 1 \in a .. b + 1 /\ b - 1 \in a - 1 .. b /\ a + 1 # a
          BY <2>1, <4>2
        <5>2. QED BY <1>1, <5>1
      <4>4. Shaped(text, a + 1, b - 1)
        BY <2>2, <4>1, <4>3 DEF Well
      <4>5. QED BY <2>1, <3>4, <4>4, ShapedEnclosed
    <3>5. CASE /\ Outermost(text, a, b) = {}
               /\ ~(a <= b /\ text[a].kind \in {"+", "-"})
               /\ ~(a = b /\ text[a].kind = "number") /\ ~Enclosed(text, a, b)
      BY <2>2, <3>5, MeaningEquations DEF Well
    <3>6. QED BY <3>1, <3>2, <3>3, <3>4, <3>5
  <2>3. <<a, b>> \in Cells(text)
    BY DEF Cells
  <2>4. QED BY <2>2, <2>3
<1>2. \A c : c \in Good => (Well(text, c[1], c[2]) => Shaped(text, c[1], c[2]))
  OBVIOUS
<1> HIDE DEF Good
<1>3. <<i, j>> \in Good
  BY <1>1, PartInduction
<1>4. QED BY <1>2, <1>3

LEMMA OutermostIs ==
  ASSUME NEW text, NEW i, NEW j
  PROVE  /\ Outermost(text, i, j) = {} <=>
              /\ Splits(text, i, j, {"+", "-"}) = {} /\ Splits(text, i, j, {"*", "/"}) = {}
         /\ Splits(text, i, j, {"+", "-"}) # {} =>
              Outermost(text, i, j) = Splits(text, i, j, {"+", "-"})
         /\ Splits(text, i, j, {"+", "-"}) = {} =>
              Outermost(text, i, j) = Splits(text, i, j, {"*", "/"})
BY DEF Outermost

LEMMA SplitsShort ==
  ASSUME NEW text, NEW i \in Nat, NEW j \in Nat, j <= i, NEW operators
  PROVE  Splits(text, i, j, operators) = {}
BY DEF Splits

\* What follows a closed part splits as it does alone.
LEMMA SplitsAfter ==
  ASSUME NEW text, NEW i \in Nat, NEW j \in Nat, NEW k \in Nat, i <= k, k < j,
         Open(text, i, k) = 0, NEW operators, NEW l \in k + 2 .. j
  PROVE  l \in Splits(text, k + 1, j, operators) <=> l \in Splits(text, i, j, operators)
<1>1. k + 1 \in Nat /\ l \in Nat /\ k <= l /\ i <= k + 1
  OBVIOUS
<1>2. Open(text, i, l) = Open(text, i, k) + Open(text, k + 1, l)
  BY <1>1, OpenSum
<1>3. Open(text, k + 1, l) \in Int
  BY <1>1, OpenIs
<1>4. Open(text, i, l) = Open(text, k + 1, l)
  BY <1>2, <1>3
<1>5. l \in (k + 1) + 1 .. j /\ l \in i + 1 .. j
  OBVIOUS
<1>6. QED BY <1>4, <1>5 DEF Splits

\* Operators outside parentheses in two parts with an operator between.
LEMMA SplitsJoined ==
  ASSUME NEW text, NEW i \in Nat \ {0}, NEW j \in Nat, NEW e \in Nat,
         Shaped(text, i, j), Shaped(text, j + 2, e), text[j + 1].kind \in Operators,
         NEW operators \in SUBSET Operators
  PROVE  Splits(text, i, e, operators) =
           (Splits(text, i, j, operators) \cup Splits(text, j + 2, e, operators))
             \cup IF text[j + 1].kind \in operators THEN {j + 1} ELSE {}
<1>1. /\ i <= j /\ j + 2 <= e /\ Open(text, i, j) = 0 /\ text[j].kind \in {"number", ")"}
  BY DEF Shaped
<1>2. Open(text, i, j + 1) = 0
  <2>1. j + 1 \in Nat \ {0} /\ i <= j + 1 /\ (j + 1) - 1 = j
    BY <1>1
  <2>2. Open(text, i, j + 1) = Open(text, i, j) + Open(text, j + 1, j + 1)
    BY <2>1, OpenLast
  <2>3. Open(text, j + 1, j + 1) = 0
    BY <2>1, OpenOne DEF Operators
  <2>4. QED BY <1>1, <2>2, <2>3
<1>3. ASSUME NEW k \in i + 1 .. j
      PROVE  k \in Splits(text, i, e, operators) <=> k \in Splits(text, i, j, operators)
  BY <1>1 DEF Splits
<1>4. j + 1 \in Splits(text, i, e, operators) <=> text[j + 1].kind \in operators
  <2>1. j + 1 \in i + 1 .. e /\ (j + 1) - 1 = j
    BY <1>1
  <2>2. QED BY <1>1, <1>2, <2>1 DEF Splits
<1>5. j + 2 \notin Splits(text, i, e, operators)
  <2>1. (j + 2) - 1 = j + 1
    OBVIOUS
  <2>2. QED BY <2>1, SplitsIn DEF Operators
<1>6. ASSUME NEW k \in j + 3 .. e
      PROVE  k \in Splits(text, i, e, operators) <=> k \in Splits(text, j + 2, e, operators)
  <2>1. ASSUME NEW m \in Nat, m = j + 1
        PROVE  k \in Splits(text, i, e, operators) <=> k \in Splits(text, m + 1, e, operators)
    <3>1. i <= m /\ m < e /\ Open(text, i, m) = 0 /\ k \in m + 2 .. e
      BY <1>1, <1>2, <2>1
    <3>2. QED BY <3>1, SplitsAfter
  <2>2. j + 1 \in Nat /\ (j + 1) + 1 = j + 2
    OBVIOUS
  <2>3. QED BY <2>1, <2>2
<1>7. /\ Splits(text, i, e, operators) \subseteq i + 1 .. e
      /\ Splits(text, i, j, operators) \subseteq i + 1 .. j
      /\ Splits(text, j + 2, e, operators) \subseteq j + 3 .. e
  <2>1. j + 2 \in Nat /\ (j + 2) + 1 = j + 3
    OBVIOUS
  <2>2. QED BY <2>1, SplitsIn
<1>8. i + 1 .. e = (i + 1 .. j) \cup {j + 1} \cup {j + 2} \cup (j + 3 .. e)
  BY <1>1
<1> DEFINE S == Splits(text, i, e, operators)
           T == Splits(text, i, j, operators)
           U == Splits(text, j + 2, e, operators)
<1> HIDE DEF S, T, U
<1>9. ASSUME NEW k \in i + 1 .. e
      PROVE  k \in S <=> k \in T \/ k \in U \/ (k = j + 1 /\ text[j + 1].kind \in operators)
  <2>1. T \subseteq i + 1 .. j /\ U \subseteq j + 3 .. e
    BY <1>7 DEF T, U
  <2>2. CASE k \in i + 1 .. j
    <3>1. k \notin U /\ k # j + 1
      BY <2>1, <2>2
    <3>2. QED BY <1>3, <2>2, <3>1 DEF S, T
  <2>3. CASE k = j + 1
    <3>1. k \notin U /\ k \notin T
      BY <2>1, <2>3
    <3>2. QED BY <1>4, <2>3, <3>1 DEF S
  <2>4. CASE k = j + 2
    <3>1. k \notin U /\ k \notin T /\ k # j + 1
      BY <2>1, <2>4
    <3>2. QED BY <1>5, <2>4, <3>1 DEF S
  <2>5. CASE k \in j + 3 .. e
    <3>1. k \notin T /\ k # j + 1
      BY <2>1, <2>5
    <3>2. QED BY <1>6, <2>5, <3>1 DEF S, U
  <2>6. QED BY <1>8, <2>2, <2>3, <2>4, <2>5
<1>10. S \subseteq i + 1 .. e /\ T \subseteq i + 1 .. e /\ U \subseteq i + 1 .. e /\ j + 1 \in i + 1 .. e
  BY <1>1, <1>7 DEF S, T, U
<1>11. S = (T \cup U) \cup IF text[j + 1].kind \in operators THEN {j + 1} ELSE {}
  BY <1>9, <1>10
<1>12. QED BY <1>11 DEF S, T, U

LEMMA SplitsSigned ==
  ASSUME NEW text, NEW i \in Nat \ {0}, NEW j \in Nat, i < j, text[i].kind \in {"+", "-"},
         NEW operators
  PROVE  Splits(text, i, j, operators) = Splits(text, i + 1, j, operators)
<1>1. Open(text, i, i) = 0
  BY OpenOne
<1>2. i + 1 \notin Splits(text, i, j, operators)
  <2>1. (i + 1) - 1 = i
    OBVIOUS
  <2>2. QED BY <2>1, SplitsIn
<1>3. \A k \in i + 2 .. j :
        k \in Splits(text, i + 1, j, operators) <=> k \in Splits(text, i, j, operators)
  BY <1>1, SplitsAfter
<1>4. /\ Splits(text, i, j, operators) \subseteq i + 1 .. j
      /\ Splits(text, i + 1, j, operators) \subseteq i + 2 .. j
  <2>1. i + 1 \in Nat /\ (i + 1) + 1 = i + 2
    OBVIOUS
  <2>2. QED BY <2>1, SplitsIn
<1>5. i + 1 .. j = {i + 1} \cup (i + 2 .. j)
  OBVIOUS
<1> DEFINE S == Splits(text, i, j, operators)
           T == Splits(text, i + 1, j, operators)
<1> HIDE DEF S, T
<1>6. /\ S \subseteq {i + 1} \cup (i + 2 .. j) /\ T \subseteq i + 2 .. j
      /\ i + 1 \notin S /\ \A k \in i + 2 .. j : k \in T <=> k \in S
  BY <1>2, <1>3, <1>4, <1>5 DEF S, T
<1>7. S = T
  BY <1>6
<1>8. QED BY <1>7 DEF S, T

LEMMA SplitsEnclosed ==
  ASSUME NEW text, NEW i \in Nat \ {0}, NEW j \in Nat, Enclosed(text, i, j),
         NEW operators \in SUBSET Operators
  PROVE  Splits(text, i, j, operators) = {}
<1> SUFFICES ASSUME NEW k \in Splits(text, i, j, operators) PROVE FALSE
  OBVIOUS
<1>1. k \in i + 1 .. j /\ text[k].kind \in Operators /\ Open(text, i, k) = 0
  BY SplitsIn
<1>2. text[j].kind = ")" /\ \A l \in i .. j - 1 : Open(text, i, l) > 0
  BY DEF Enclosed
<1>3. k # j
  BY <1>1, <1>2 DEF Operators
<1>4. k \in i .. j - 1
  BY <1>1, <1>3
<1>5. QED BY <1>1, <1>2, <1>4

-----------------------------------------------------------------------------
(* What the parser reads has the value it means *)

\* A value stands for a meaning; it may be any where the meaning divides by zero.
Stands(x, a) == a = Undefined \/ (a \in Defined /\ Represents(x, a.value))

\* x was read from i to j.
Vouches(text, i, j, x) ==
  /\ x \in Places /\ x.value \in Values /\ x.at = j + 1 /\ j \in i .. Len(text)
  /\ Stands(x.value, MeaningOf(text, i, j))

Term(text, i, j, x) == Vouches(text, i, j, x) /\ Splits(text, i, j, {"+", "-"}) = {}

Factor(text, i, j, x) == Vouches(text, i, j, x) /\ Outermost(text, i, j) = {}

EndsTerm(text, at) == Current(text, at) \notin {"*", "/"}

EndsSum(text, at) == Current(text, at) \notin Operators

LEMMA VouchesIs ==
  ASSUME NEW text \in Seq(Token), NEW i \in Nat \ {0}, NEW j, NEW x, Vouches(text, i, j, x)
  PROVE  /\ j \in Nat /\ i <= j /\ j <= Len(text) /\ Len(text) \in Nat
         /\ x \in Places /\ x.value \in Values /\ x.at = j + 1 /\ x # Error
         /\ i \in 1 .. Len(text) + 1 /\ j \in 0 .. Len(text)
         /\ Shaped(text, i, j) /\ MeaningOf(text, i, j) \in Meanings \ {Meaningless}
<1>1. Len(text) \in Nat
  OBVIOUS
<1>2. /\ j \in i .. Len(text) /\ x \in Places /\ x.value \in Values /\ x.at = j + 1 /\ x # Error
      /\ Stands(x.value, MeaningOf(text, i, j))
  BY PlaceFields DEF Vouches
<1>3. /\ j \in Nat /\ i <= j /\ j <= Len(text)
      /\ i \in 1 .. Len(text) + 1 /\ j \in 0 .. Len(text)
  BY <1>1, <1>2
<1>4. MeaningOf(text, i, j) \in Meanings \ {Meaningless}
  BY <1>2, DefinedIs, MeaninglessIs DEF Stands, Meanings
<1>5. Shaped(text, i, j)
  BY <1>3, <1>4, WellShaped DEF Well
<1>6. QED BY <1>1, <1>2, <1>3, <1>4, <1>5

LEMMA MaxOf ==
  ASSUME NEW S \in SUBSET Nat, NEW x \in S, \A y \in S : y <= x
  PROVE  Max(S) = x
<1>1. Max(S) \in S /\ \A y \in S : Max(S) >= y
  <2>1. \A y \in S : x >= y
    OBVIOUS
  <2>2. \E z \in S : \A y \in S : z >= y
    BY <2>1, Zenon
  <2>3. QED BY <2>2, Zenon DEF Max
<1> DEFINE k == Max(S)
<1>2. k \in S /\ \A y \in S : k >= y
  BY <1>1
<1> HIDE DEF k
<1>3. k = x
  BY <1>2
<1>4. QED BY <1>3 DEF k

\* Two readings around the operator that is applied last.
LEMMA VouchesJoined ==
  ASSUME NEW text \in Seq(Token), NEW i \in Nat \ {0}, NEW j, NEW e, NEW left, NEW right,
         Vouches(text, i, j, left), Vouches(text, j + 2, e, right),
         text[j + 1].kind \in Operators,
         j + 1 \in Outermost(text, i, e), \A k \in Outermost(text, i, e) : k <= j + 1,
         Joined(text, left, right) # Error
  PROVE  Vouches(text, i, e, Joined(text, left, right))
<1>1. /\ j \in Nat /\ i <= j /\ j <= Len(text) /\ Len(text) \in Nat
      /\ left \in Places /\ left.value \in Values /\ left.at = j + 1
      /\ MeaningOf(text, i, j) \in Meanings \ {Meaningless}
  BY VouchesIs
<1>2. /\ e \in Nat /\ j + 2 <= e /\ e <= Len(text)
      /\ right \in Places /\ right.value \in Values /\ right.at = e + 1 /\ right # Error
      /\ MeaningOf(text, j + 2, e) \in Meanings \ {Meaningless}
  <2>1. j + 2 \in Nat \ {0}
    BY <1>1
  <2>2. QED BY <2>1, VouchesIs
<1> DEFINE operator == text[j + 1].kind
           a == MeaningOf(text, i, j)
           b == MeaningOf(text, j + 2, e)
           c == MeaningOf(text, i, e)
           v == binary(operator, left.value, right.value)
<1>3. Current(text, left.at) = operator
  <2>1. j + 1 \in Nat \ {0} /\ j + 1 <= Len(text)
    BY <1>1, <1>2
  <2>2. QED BY <1>1, <2>1, TokenKinds
<1>4. c = Joins(operator, a, b) /\ c \in Meanings
  <2>1. i \in 1 .. Len(text) + 1 /\ e \in 0 .. Len(text)
    BY <1>1, <1>2
  <2>2. Outermost(text, i, e) \in SUBSET Nat /\ Outermost(text, i, e) # {}
    <3>1. \A operators : Splits(text, i, e, operators) \subseteq i + 1 .. e
      BY <1>2, SplitsIn
    <3>2. i + 1 .. e \subseteq Nat
      BY <1>1, <1>2
    <3>3. QED BY <3>1, <3>2 DEF Outermost
  <2>3. Max(Outermost(text, i, e)) = j + 1
    BY <2>2, MaxOf
  <2>4. MeaningOf(text, i, e) =
          Joins(text[j + 1].kind, MeaningOf(text, i, (j + 1) - 1), MeaningOf(text, (j + 1) + 1, e))
    BY <2>1, <2>2, <2>3, MeaningEquations
  <2>5. (j + 1) - 1 = j /\ (j + 1) + 1 = j + 2
    BY <1>1
  <2>6. QED BY <2>1, <2>4, <2>5, TableIs
<1>5. a \in Meanings \ {Meaningless} /\ b \in Meanings \ {Meaningless}
  BY <1>1, <1>2
<1>6. Stands(left.value, a) /\ Stands(right.value, b)
  BY DEF Vouches
<1>7. Joined(text, left, right) = Read(right.at, v)
  BY <1>2, <1>3 DEF Joined
<1>8. v \in Values \cup {Error}
  BY <1>1, <1>2, BinaryType DEF Operators
<1> HIDE DEF a, b, c
<1>9. operator \in Operators
  OBVIOUS
<1> HIDE DEF operator
<1>10. ASSUME v # Error PROVE Stands(v, c)
  <2>1. c # Meaningless
    BY <1>4, <1>5, <1>9, JoinsIs
  <2>2. CASE c \in Defined
    <3>1. /\ a \in Defined /\ b \in Defined
          /\ operator = "/" => b.value.num # 0
          /\ c.value = Apply(operator, a.value, b.value)
      BY <1>4, <1>5, <1>9, <2>2, JoinsIs
    <3>2. /\ a.value \in Quotient /\ b.value \in Quotient
          /\ Represents(left.value, a.value) /\ Represents(right.value, b.value)
      <4>1. a # Undefined /\ b # Undefined /\ a.value \in Quotient /\ b.value \in Quotient
        BY <3>1, DefinedIs
      <4>2. QED BY <1>6, <4>1 DEF Stands
    <3>3. operator \in {"+", "-", "*", "/"}
      BY <1>9 DEF Operators
    <3>4. v # Error => Represents(v, Apply(operator, a.value, b.value))
      BY <3>1, <3>2, <3>3, BinaryIs
    <3> HIDE DEF v
    <3>5. QED BY <1>10, <2>2, <3>1, <3>4 DEF Stands
  <2>3. QED BY <1>4, <2>1, <2>2 DEF Stands, Meanings
<1> HIDE DEF v
<1>11. v # Error
  BY <1>7 DEF Read
<1>12. /\ Read(right.at, v) \in Places /\ Read(right.at, v).value = v
       /\ Read(right.at, v).at = e + 1
  <2>1. right.at \in Nat \ {0}
    BY <1>2
  <2>2. QED BY <1>2, <1>8, <1>11, <2>1, ReadIs
<1>13. e \in i .. Len(text)
  BY <1>1, <1>2
<1>14. QED BY <1>7, <1>8, <1>10, <1>11, <1>12, <1>13 DEF Vouches, c

LEMMA TermStep ==
  ASSUME NEW text \in Seq(Token), NEW i \in Nat \ {0}, NEW j, NEW e, NEW left, NEW right,
         Term(text, i, j, left), Factor(text, j + 2, e, right),
         text[j + 1].kind \in {"*", "/"}, Joined(text, left, right) # Error
  PROVE  Term(text, i, e, Joined(text, left, right))
<1>1. /\ Vouches(text, i, j, left) /\ Splits(text, i, j, {"+", "-"}) = {}
      /\ Vouches(text, j + 2, e, right) /\ Outermost(text, j + 2, e) = {}
  BY DEF Term, Factor
<1>2. j \in Nat /\ Shaped(text, i, j)
  BY <1>1, VouchesIs
<1>3. e \in Nat /\ Shaped(text, j + 2, e)
  <2>1. j + 2 \in Nat \ {0}
    BY <1>2
  <2>2. QED BY <1>1, <2>1, VouchesIs
<1>4. /\ text[j + 1].kind \in Operators /\ text[j + 1].kind \notin {"+", "-"}
      /\ {"+", "-"} \in SUBSET Operators /\ {"*", "/"} \in SUBSET Operators
  BY DEF Operators
<1>5. Splits(text, j + 2, e, {"+", "-"}) = {} /\ Splits(text, j + 2, e, {"*", "/"}) = {}
  BY <1>1, OutermostIs
<1>6. Splits(text, i, e, {"+", "-"}) = {}
  BY <1>1, <1>2, <1>3, <1>4, <1>5, SplitsJoined
<1>7. Outermost(text, i, e) = Splits(text, i, j, {"*", "/"}) \cup {j + 1}
  <2>1. Splits(text, i, e, {"*", "/"}) =
          (Splits(text, i, j, {"*", "/"}) \cup Splits(text, j + 2, e, {"*", "/"}))
            \cup IF text[j + 1].kind \in {"*", "/"} THEN {j + 1} ELSE {}
    <3>1. ASSUME NEW operators \in SUBSET Operators
          PROVE  Splits(text, i, e, operators) =
                   (Splits(text, i, j, operators) \cup Splits(text, j + 2, e, operators))
                     \cup IF text[j + 1].kind \in operators THEN {j + 1} ELSE {}
      BY <1>2, <1>3, <1>4, SplitsJoined
    <3>2. QED BY <1>4, <3>1
  <2>2. Splits(text, i, e, {"*", "/"}) = Splits(text, i, j, {"*", "/"}) \cup {j + 1}
    BY <1>5, <2>1
  <2>3. QED BY <1>6, <2>2, OutermostIs
<1>8. \A k \in Outermost(text, i, e) : k <= j + 1
  <2>1. Splits(text, i, j, {"*", "/"}) \subseteq i + 1 .. j
    BY <1>2, SplitsIn
  <2>2. QED BY <1>2, <1>7, <2>1
<1>9. Vouches(text, i, e, Joined(text, left, right))
  BY <1>1, <1>4, <1>7, <1>8, VouchesJoined
<1>10. QED BY <1>6, <1>9 DEF Term

LEMMA SumStep ==
  ASSUME NEW text \in Seq(Token), NEW i \in Nat \ {0}, NEW j, NEW e, NEW left, NEW right,
         Vouches(text, i, j, left), Term(text, j + 2, e, right),
         text[j + 1].kind \in {"+", "-"}, Joined(text, left, right) # Error
  PROVE  Vouches(text, i, e, Joined(text, left, right))
<1>1. Vouches(text, j + 2, e, right) /\ Splits(text, j + 2, e, {"+", "-"}) = {}
  BY DEF Term
<1>2. j \in Nat /\ Shaped(text, i, j)
  BY VouchesIs
<1>3. e \in Nat /\ Shaped(text, j + 2, e)
  <2>1. j + 2 \in Nat \ {0}
    BY <1>2
  <2>2. QED BY <1>1, <2>1, VouchesIs
<1>4. text[j + 1].kind \in Operators /\ {"+", "-"} \in SUBSET Operators
  BY DEF Operators
<1>5. Splits(text, i, e, {"+", "-"}) = Splits(text, i, j, {"+", "-"}) \cup {j + 1}
  BY <1>1, <1>2, <1>3, <1>4, SplitsJoined
<1>6. Outermost(text, i, e) = Splits(text, i, j, {"+", "-"}) \cup {j + 1}
  BY <1>5, OutermostIs
<1>7. \A k \in Outermost(text, i, e) : k <= j + 1
  <2>1. Splits(text, i, j, {"+", "-"}) \subseteq i + 1 .. j
    BY <1>2, SplitsIn
  <2>2. QED BY <1>2, <1>6, <2>1
<1>8. QED BY <1>1, <1>4, <1>6, <1>7, VouchesJoined

\* What a result of a method vouches for.
Sound(text, method, place, r) ==
  r # Error =>
    /\ method \in {"unary", "primary"} => \E j : Factor(text, place.at, j, r)
    /\ method = "multiplicative" =>
         /\ place.value = None => \E j : Term(text, place.at, j, r) /\ EndsTerm(text, r.at)
         /\ \A i \in Nat \ {0}, j \in Nat :
              Term(text, i, j, place) => \E e : Term(text, i, e, r) /\ EndsTerm(text, r.at)
    /\ method = "additive" =>
         /\ place.value = None => \E j : Vouches(text, place.at, j, r) /\ EndsSum(text, r.at)
         /\ \A i \in Nat \ {0}, j \in Nat :
              Vouches(text, i, j, place) /\ EndsTerm(text, place.at)
                => \E e : Vouches(text, i, e, r) /\ EndsSum(text, r.at)

\* The calls of a smaller measure are sound.
SoundBelow(text, k) ==
  \A c \in Calls : Measure(text, c) < k => Sound(text, c[1], c[2], Parser(text)[c])

LEMMA SoundOn ==
  ASSUME NEW text \in Seq(Token), NEW at \in Nat \ {0}, NEW method \in Methods,
         SoundBelow(text, 4 * Rest(text, at) + Rank[method]),
         NEW place \in Places, NEW other \in Methods, NEW depth \in 0 .. MaxDepth,
         Below(text, at, method, place.at, other)
  PROVE  Sound(text, other, place, Parser(text)[<<other, place, depth>>])
<1> DEFINE c == <<other, place, depth>>
<1>1. c \in Calls /\ Measure(text, c) = 4 * Rest(text, place.at) + Rank[other]
  BY MeasureIs
<1>2. 4 * Rest(text, place.at) + Rank[other] < 4 * Rest(text, at) + Rank[method]
  BY Decreases, PlaceFields
<1>3. c[1] = other /\ c[2] = place
  OBVIOUS
<1> HIDE DEF c
<1>4. Sound(text, other, place, Parser(text)[c])
  BY <1>1, <1>2, <1>3 DEF SoundBelow
<1>5. QED BY <1>4 DEF c

\* The equation of a call.
LEMMA CallIs ==
  ASSUME NEW text \in Seq(Token), NEW method \in Methods, NEW place \in Places,
         NEW depth \in 0 .. MaxDepth
  PROVE  /\ Parser(text)[<<method, place, depth>>] = Called(Parser(text), text, method, place, depth)
         /\ Onward(place.at, Parser(text)[<<method, place, depth>>])
<1> DEFINE c == <<method, place, depth>>
<1>1. c \in Calls /\ c[1] = method /\ c[2] = place /\ c[3] = depth
  BY MeasureIs
<1> HIDE DEF c
<1>2. Right(Parser(text), text, c)
  BY <1>1, ParserIs
<1>3. QED BY <1>1, <1>2 DEF Right, c

\* A loop that ends well stops at once or goes round.
LEMMA ChainSteps ==
  ASSUME NEW p, NEW text, NEW left, NEW depth, NEW method, NEW operators, NEW operand,
         Chain(p, text, left, depth, method, operators, operand) # Error
  PROVE  LET right == p[<<operand, Read(left.at + 1, None), depth>>]
         IN  /\ left # Error
             /\ \/ /\ Current(text, left.at) \notin operators
                   /\ Chain(p, text, left, depth, method, operators, operand) = left
                \/ /\ Current(text, left.at) \in operators
                   /\ right # Error /\ Joined(text, left, right) # Error
                   /\ Chain(p, text, left, depth, method, operators, operand) =
                        p[<<method, Joined(text, left, right), depth>>]
<1> DEFINE right == p[<<operand, Read(left.at + 1, None), depth>>]
<1>1. left # Error
  BY DEF Chain
<1>2. CASE Current(text, left.at) \notin operators
  BY <1>1, <1>2 DEF Chain
<1>3. CASE Current(text, left.at) \in operators
  <2>1. Chain(p, text, left, depth, method, operators, operand) =
          Continue(p, method, Joined(text, left, right), depth)
    BY <1>1, <1>3 DEF Chain
  <2> HIDE DEF right
  <2>2. Joined(text, left, right) # Error
    BY <2>1 DEF Continue
  <2>3. right # Error
    BY <2>2 DEF Joined
  <2>4. QED BY <1>1, <1>3, <2>1, <2>2, <2>3 DEF Continue, right
<1>4. QED BY <1>2, <1>3

LEMMA JoinedAt ==
  ASSUME NEW text, NEW left \in Places, left.value \in Values,
         Current(text, left.at) \in Operators, NEW right, Onward(left.at + 1, right),
         Joined(text, left, right) # Error
  PROVE  /\ Joined(text, left, right) \in Places /\ Joined(text, left, right).value \in Values
         /\ Joined(text, left, right).at > left.at
<1>1. Onward(left.at + 1, Joined(text, left, right))
  BY JoinedType
<1>2. /\ Joined(text, left, right) \in Places /\ Joined(text, left, right).value \in Values
      /\ Joined(text, left, right).at >= left.at + 1
  BY <1>1 DEF Onward
<1>3. QED BY <1>2, PlaceFields

LEMMA NextPlace ==
  ASSUME NEW at \in Nat
  PROVE  /\ Read(at + 1, None) \in Places /\ Read(at + 1, None).at = at + 1
         /\ Read(at + 1, None).value = None
<1>1. at + 1 \in Nat \ {0}
  OBVIOUS
<1>2. QED BY <1>1, ReadIs, NoneIs

\* The loop of a term, after what it has read so far.
LEMMA TermLoop ==
  ASSUME NEW text \in Seq(Token), NEW at \in Nat \ {0}, NEW depth \in 0 .. MaxDepth,
         SoundBelow(text, 4 * Rest(text, at) + Rank["multiplicative"]),
         NEW left, NEW i \in Nat \ {0}, NEW j, Term(text, i, j, left), left.at >= at,
         NEW r, r = Chain(Parser(text), text, left, depth, "multiplicative", {"*", "/"}, "unary"),
         r # Error
  PROVE  \E e : Term(text, i, e, r) /\ EndsTerm(text, r.at)
<1> DEFINE p == Parser(text)
           next == Read(left.at + 1, None)
           right == p[<<"unary", next, depth>>]
           joined == Joined(text, left, right)
<1>1. /\ left \in Places /\ left.value \in Values /\ left.at = j + 1 /\ j \in Nat
      /\ j <= Len(text) /\ Len(text) \in Nat /\ left.at \in Nat \ {0}
  BY VouchesIs, PlaceFields DEF Term
<1>2. CASE Current(text, left.at) \notin {"*", "/"}
  <2>1. r = left
    BY <1>2 DEF Chain
  <2>2. QED BY <1>2, <2>1 DEF EndsTerm
<1>3. CASE Current(text, left.at) \in {"*", "/"}
  <2>1. right # Error /\ joined # Error /\ r = p[<<"multiplicative", joined, depth>>]
    BY <1>3, ChainSteps
  <2>2. left.at <= Len(text) /\ text[j + 1].kind \in {"*", "/"}
    <3>1. left.at <= Len(text)
      BY <1>1, <1>3, InText
    <3>2. QED BY <1>1, <1>3, <3>1, TokenKinds
  <2>3. next \in Places /\ next.at = j + 2
    <3>1. (j + 1) + 1 = j + 2
      BY <1>1
    <3>2. QED BY <1>1, <3>1, NextPlace
  <2>4. "unary" \in Methods /\ "multiplicative" \in Methods
    BY DEF Methods
  <2> HIDE DEF p, next
  <2>5. Sound(text, "unary", next, right)
    <3>1. Below(text, at, "multiplicative", next.at, "unary")
      BY <1>1, <2>2, <2>3 DEF Below
    <3>2. QED BY <2>3, <2>4, <3>1, SoundOn DEF p
  <2>6. Onward(left.at + 1, right)
    <3>1. Onward(next.at, right)
      BY <2>3, <2>4, CallIs DEF p
    <3>2. next.at = left.at + 1
      BY <1>1, <2>3
    <3>3. QED BY <3>1, <3>2
  <2> HIDE DEF right
  <2>7. PICK e : Factor(text, j + 2, e, right)
    BY <2>1, <2>3, <2>5 DEF Sound
  <2>8. Term(text, i, e, joined)
    BY <2>1, <2>2, <2>7, TermStep
  <2>9. joined \in Places /\ joined.at > left.at /\ joined.at \in Nat
    <3>1. joined \in Places /\ joined.at > left.at
      BY <1>1, <1>3, <2>1, <2>6, JoinedAt DEF Operators
    <3>2. QED BY <3>1, PlaceFields
  <2> HIDE DEF joined
  <2>10. Sound(text, "multiplicative", joined, r)
    <3>1. Below(text, at, "multiplicative", joined.at, "multiplicative")
      BY <1>1, <2>2, <2>9 DEF Below
    <3>2. QED BY <2>1, <2>4, <2>9, <3>1, SoundOn DEF p
  <2>11. e \in Nat
    BY <2>8, VouchesIs DEF Term
  <2>12. QED BY <2>8, <2>10, <2>11 DEF Sound
<1>4. QED BY <1>2, <1>3

\* The loop of a sum, after what it has read so far.
LEMMA SumLoop ==
  ASSUME NEW text \in Seq(Token), NEW at \in Nat \ {0}, NEW depth \in 0 .. MaxDepth,
         SoundBelow(text, 4 * Rest(text, at) + Rank["additive"]),
         NEW left, NEW i \in Nat \ {0}, NEW j, Vouches(text, i, j, left), left.at >= at,
         EndsTerm(text, left.at),
         NEW r, r = Chain(Parser(text), text, left, depth, "additive", {"+", "-"}, "multiplicative"),
         r # Error
  PROVE  \E e : Vouches(text, i, e, r) /\ EndsSum(text, r.at)
<1> DEFINE p == Parser(text)
           next == Read(left.at + 1, None)
           right == p[<<"multiplicative", next, depth>>]
           joined == Joined(text, left, right)
<1>1. /\ left \in Places /\ left.value \in Values /\ left.at = j + 1 /\ j \in Nat
      /\ j <= Len(text) /\ Len(text) \in Nat /\ left.at \in Nat \ {0}
  BY VouchesIs, PlaceFields
<1>2. CASE Current(text, left.at) \notin {"+", "-"}
  <2>1. r = left
    BY <1>2 DEF Chain
  <2>2. QED BY <1>2, <2>1 DEF EndsTerm, EndsSum, Operators
<1>3. CASE Current(text, left.at) \in {"+", "-"}
  <2>1. right # Error /\ joined # Error /\ r = p[<<"additive", joined, depth>>]
    BY <1>3, ChainSteps
  <2>2. left.at <= Len(text) /\ text[j + 1].kind \in {"+", "-"}
    <3>1. left.at <= Len(text)
      BY <1>1, <1>3, InText
    <3>2. QED BY <1>1, <1>3, <3>1, TokenKinds
  <2>3. next \in Places /\ next.at = j + 2 /\ next.value = None
    <3>1. (j + 1) + 1 = j + 2
      BY <1>1
    <3>2. QED BY <1>1, <3>1, NextPlace
  <2>4. "multiplicative" \in Methods /\ "additive" \in Methods
    BY DEF Methods
  <2> HIDE DEF p, next
  <2>5. Sound(text, "multiplicative", next, right)
    <3>1. Below(text, at, "additive", next.at, "multiplicative")
      BY <1>1, <2>2, <2>3 DEF Below
    <3>2. QED BY <2>3, <2>4, <3>1, SoundOn DEF p
  <2>6. Onward(left.at + 1, right)
    <3>1. Onward(next.at, right)
      BY <2>3, <2>4, CallIs DEF p
    <3>2. next.at = left.at + 1
      BY <1>1, <2>3
    <3>3. QED BY <3>1, <3>2
  <2> HIDE DEF right
  <2>7. PICK e : Term(text, j + 2, e, right) /\ EndsTerm(text, right.at)
    BY <2>1, <2>3, <2>5 DEF Sound
  <2>8. Vouches(text, i, e, joined)
    BY <2>1, <2>2, <2>7, SumStep
  <2>9. joined \in Places /\ joined.at > left.at /\ joined.at \in Nat
    <3>1. joined \in Places /\ joined.at > left.at
      BY <1>1, <1>3, <2>1, <2>6, JoinedAt DEF Operators
    <3>2. QED BY <3>1, PlaceFields
  <2>10. e \in Nat /\ joined.at = right.at
    <3>1. joined.at = e + 1 /\ e \in Nat
      BY <2>8, VouchesIs
    <3>2. j + 2 \in Nat \ {0}
      BY <1>1
    <3>3. right.at = e + 1
      BY <2>7, <3>2, VouchesIs DEF Term
    <3>4. QED BY <3>1, <3>3
  <2> HIDE DEF joined
  <2>11. Sound(text, "additive", joined, r)
    <3>1. Below(text, at, "additive", joined.at, "additive")
      BY <1>1, <2>2, <2>9 DEF Below
    <3>2. QED BY <2>1, <2>4, <2>9, <3>1, SoundOn DEF p
  <2>12. QED BY <2>7, <2>8, <2>10, <2>11 DEF Sound
<1>4. QED BY <1>2, <1>3

LEMMA FactorIsTerm ==
  ASSUME NEW text, NEW i, NEW j, NEW x, Factor(text, i, j, x)
  PROVE  Term(text, i, j, x)
BY OutermostIs DEF Factor, Term

LEMMA MultiplicativeSound ==
  ASSUME NEW text \in Seq(Token), NEW place \in Places, NEW depth \in 0 .. MaxDepth,
         SoundBelow(text, 4 * Rest(text, place.at) + Rank["multiplicative"])
  PROVE  Sound(text, "multiplicative", place, Parser(text)[<<"multiplicative", place, depth>>])
<1> DEFINE p == Parser(text)
           r == p[<<"multiplicative", place, depth>>]
           first == p[<<"unary", place, depth>>]
           left == IF place.value = None THEN first ELSE place
           at == place.at
<1>1. "unary" \in Methods /\ "multiplicative" \in Methods /\ Rank["unary"] < Rank["multiplicative"]
  BY DEF Methods, Rank
<1>2. at \in Nat \ {0}
  BY PlaceFields
<1>3. r = Chain(p, text, left, depth, "multiplicative", {"*", "/"}, "unary")
  BY <1>1, CallIs DEF Called, Multiplicative
<1>4. Sound(text, "unary", place, first) /\ Onward(at, first)
  <2>1. Below(text, at, "multiplicative", at, "unary")
    BY <1>1 DEF Below
  <2>2. QED BY <1>1, <1>2, <2>1, SoundOn, CallIs
<1> HIDE DEF r, first
<1>5. ASSUME r # Error, place.value = None
      PROVE  \E j : Term(text, at, j, r) /\ EndsTerm(text, r.at)
  <2>1. first # Error /\ left = first
    BY <1>3, <1>5 DEF Chain
  <2>2. PICK j : Factor(text, at, j, first)
    BY <1>4, <2>1 DEF Sound
  <2>3. Term(text, at, j, first)
    BY <2>2, FactorIsTerm
  <2>4. first.at >= at
    BY <1>4, <2>1 DEF Onward
  <2>5. r = Chain(p, text, first, depth, "multiplicative", {"*", "/"}, "unary")
    BY <1>3, <2>1
  <2> HIDE DEF at
  <2>6. SoundBelow(text, 4 * Rest(text, at) + Rank["multiplicative"])
    BY DEF at
  <2>7. QED BY <1>2, <1>5, <2>3, <2>4, <2>5, <2>6, TermLoop
<1>6. ASSUME r # Error, NEW i \in Nat \ {0}, NEW j \in Nat, Term(text, i, j, place)
      PROVE  \E e : Term(text, i, e, r) /\ EndsTerm(text, r.at)
  <2>1. place.value # None
    <3>1. Vouches(text, i, j, place)
      BY <1>6 DEF Term
    <3>2. QED BY <3>1, NoneIs DEF Vouches
  <2>2. r = Chain(p, text, place, depth, "multiplicative", {"*", "/"}, "unary")
    BY <1>3, <2>1
  <2>3. place.at >= at /\ SoundBelow(text, 4 * Rest(text, at) + Rank["multiplicative"])
    BY <1>2
  <2> HIDE DEF at
  <2>4. QED BY <1>2, <1>6, <2>2, <2>3, TermLoop
<1>7. QED BY <1>5, <1>6 DEF Sound, r

LEMMA AdditiveSound ==
  ASSUME NEW text \in Seq(Token), NEW place \in Places, NEW depth \in 0 .. MaxDepth,
         SoundBelow(text, 4 * Rest(text, place.at) + Rank["additive"])
  PROVE  Sound(text, "additive", place, Parser(text)[<<"additive", place, depth>>])
<1> DEFINE p == Parser(text)
           r == p[<<"additive", place, depth>>]
           first == p[<<"multiplicative", place, depth>>]
           left == IF place.value = None THEN first ELSE place
           at == place.at
<1>1. /\ "multiplicative" \in Methods /\ "additive" \in Methods
      /\ Rank["multiplicative"] < Rank["additive"]
  BY DEF Methods, Rank
<1>2. at \in Nat \ {0}
  BY PlaceFields
<1>3. r = Chain(p, text, left, depth, "additive", {"+", "-"}, "multiplicative")
  BY <1>1, CallIs DEF Called, Additive
<1>4. Sound(text, "multiplicative", place, first) /\ Onward(at, first)
  <2>1. Below(text, at, "additive", at, "multiplicative")
    BY <1>1 DEF Below
  <2>2. QED BY <1>1, <1>2, <2>1, SoundOn, CallIs
<1> HIDE DEF r, first
<1>5. ASSUME r # Error, place.value = None
      PROVE  \E j : Vouches(text, at, j, r) /\ EndsSum(text, r.at)
  <2>1. first # Error /\ left = first
    BY <1>3, <1>5 DEF Chain
  <2>2. PICK j : Term(text, at, j, first) /\ EndsTerm(text, first.at)
    BY <1>4, <1>5, <2>1 DEF Sound
  <2>3. Vouches(text, at, j, first)
    BY <2>2 DEF Term
  <2>4. first.at >= at
    BY <1>4, <2>1 DEF Onward
  <2>5. r = Chain(p, text, first, depth, "additive", {"+", "-"}, "multiplicative")
    BY <1>3, <2>1
  <2> HIDE DEF at
  <2>6. SoundBelow(text, 4 * Rest(text, at) + Rank["additive"])
    BY DEF at
  <2>7. QED BY <1>2, <1>5, <2>2, <2>3, <2>4, <2>5, <2>6, SumLoop
<1>6. ASSUME r # Error, NEW i \in Nat \ {0}, NEW j \in Nat, Vouches(text, i, j, place),
             EndsTerm(text, place.at)
      PROVE  \E e : Vouches(text, i, e, r) /\ EndsSum(text, r.at)
  <2>1. place.value # None
    BY <1>6, VouchesIs, NoneIs
  <2>2. r = Chain(p, text, place, depth, "additive", {"+", "-"}, "multiplicative")
    BY <1>3, <2>1
  <2>3. place.at >= at /\ SoundBelow(text, 4 * Rest(text, at) + Rank["additive"])
    BY <1>2
  <2> HIDE DEF at
  <2>4. QED BY <1>2, <1>6, <2>2, <2>3, SumLoop
<1>7. QED BY <1>5, <1>6 DEF Sound, r

\* A sign and what it applies to.
LEMMA SignStep ==
  ASSUME NEW text \in Seq(Token), NEW i \in Nat \ {0}, NEW j, NEW x, Factor(text, i + 1, j, x),
         text[i].kind \in {"+", "-"}, Read(x.at, unary(text[i].kind, x.value)) # Error
  PROVE  Factor(text, i, j, Read(x.at, unary(text[i].kind, x.value)))
<1> DEFINE sign == text[i].kind
           v == unary(sign, x.value)
           a == MeaningOf(text, i + 1, j)
           c == MeaningOf(text, i, j)
<1>1. /\ j \in Nat /\ i + 1 <= j /\ j <= Len(text) /\ Len(text) \in Nat
      /\ x \in Places /\ x.value \in Values /\ x.at = j + 1
      /\ a \in Meanings \ {Meaningless} /\ Stands(x.value, a)
      /\ Outermost(text, i + 1, j) = {}
  <2>1. i + 1 \in Nat \ {0} /\ Vouches(text, i + 1, j, x) /\ Outermost(text, i + 1, j) = {}
    BY DEF Factor
  <2>2. QED BY <2>1, VouchesIs DEF Vouches
<1>2. Outermost(text, i, j) = {}
  <2>1. i < j
    BY <1>1
  <2>2. /\ Splits(text, i, j, {"+", "-"}) = Splits(text, i + 1, j, {"+", "-"})
        /\ Splits(text, i, j, {"*", "/"}) = Splits(text, i + 1, j, {"*", "/"})
    BY <1>1, <2>1, SplitsSigned
  <2>3. QED BY <1>1, <2>2, OutermostIs
<1>3. c = Signs(sign, a)
  <2>1. i \in 1 .. Len(text) + 1 /\ j \in 0 .. Len(text) /\ i <= j
    BY <1>1
  <2>2. QED BY <1>2, <2>1, MeaningEquations
<1>4. v \in Values \cup {Error}
  BY <1>1, UnaryIs
<1> HIDE DEF a, c
<1>5. sign \in {"+", "-"}
  OBVIOUS
<1> HIDE DEF sign
<1>6. ASSUME v # Error PROVE Stands(v, c)
  <2>1. CASE a = Undefined
    BY <1>1, <1>3, <2>1, SignsIs DEF Stands
  <2>2. CASE a \in Defined
    <3>1. c \in Defined /\ c.value = Opposite(sign, a.value)
      BY <1>1, <1>3, <2>2, SignsIs
    <3>2. a.value \in Quotient /\ Represents(x.value, a.value)
      BY <1>1, <2>2, DefinedIs DEF Stands
    <3>3. Represents(v, Opposite(sign, a.value))
      BY <1>1, <1>5, <1>6, <3>2, UnaryIs
    <3>4. QED BY <3>1, <3>3 DEF Stands
  <2>3. QED BY <1>1, <2>1, <2>2 DEF Meanings
<1>7. Read(x.at, v) # Error
  BY DEF sign
<1> HIDE DEF v
<1>8. v # Error
  BY <1>7 DEF Read
<1>9. /\ Read(x.at, v) \in Places /\ Read(x.at, v).value = v /\ Read(x.at, v).at = j + 1
  <2>1. x.at \in Nat \ {0}
    BY <1>1
  <2>2. QED BY <1>1, <1>4, <1>8, <2>1, ReadIs
<1>10. j \in i .. Len(text)
  BY <1>1
<1>11. Factor(text, i, j, Read(x.at, v))
  BY <1>2, <1>4, <1>6, <1>8, <1>9, <1>10 DEF Factor, Vouches, c
<1>12. QED BY <1>11 DEF v, sign

LEMMA UnarySound ==
  ASSUME NEW text \in Seq(Token), NEW place \in Places, NEW depth \in 0 .. MaxDepth,
         SoundBelow(text, 4 * Rest(text, place.at) + Rank["unary"])
  PROVE  Sound(text, "unary", place, Parser(text)[<<"unary", place, depth>>])
<1> DEFINE p == Parser(text)
           at == place.at
           r == p[<<"unary", place, depth>>]
<1>1. "unary" \in Methods /\ "primary" \in Methods /\ Rank["primary"] < Rank["unary"]
  BY DEF Methods, Rank
<1>2. at \in Nat \ {0}
  BY PlaceFields
<1>3. r = Unary(p, text, at, depth)
  BY <1>1, CallIs DEF Called
<1> HIDE DEF r
<1> SUFFICES ASSUME r # Error PROVE \E j : Factor(text, at, j, r)
  BY DEF Sound, r
<1>4. CASE Current(text, at) \notin {"+", "-"}
  <2> DEFINE same == Read(at, None)
  <2>1. same \in Places /\ same.at = at
    BY <1>2, ReadIs, NoneIs
  <2>2. r = p[<<"primary", same, depth>>]
    BY <1>3, <1>4 DEF Unary
  <2> HIDE DEF same
  <2>3. Sound(text, "primary", same, r)
    <3>1. Below(text, at, "unary", same.at, "primary")
      BY <1>1, <2>1 DEF Below
    <3>2. QED BY <1>1, <1>2, <2>1, <2>2, <3>1, SoundOn
  <2>4. QED BY <2>1, <2>3 DEF Sound
<1>5. CASE Current(text, at) \in {"+", "-"}
  <2> DEFINE next == Read(at + 1, None)
             x == p[<<"unary", next, depth + 1>>]
  <2>1. next \in Places /\ next.at = at + 1
    BY <1>2, NextPlace
  <2>2. /\ ~(depth >= MaxDepth) /\ x # Error
        /\ r = Read(x.at, unary(Current(text, at), x.value))
    BY <1>3, <1>5 DEF Unary
  <2>3. at <= Len(text) /\ Current(text, at) = text[at].kind
    <3>1. at <= Len(text)
      BY <1>2, <1>5, InText
    <3>2. QED BY <1>2, <3>1, TokenKinds
  <2>4. depth + 1 \in 0 .. MaxDepth
    BY <2>2, RangesAre
  <2> HIDE DEF next
  <2>5. Sound(text, "unary", next, x)
    <3>1. Below(text, at, "unary", next.at, "unary")
      BY <1>2, <2>1, <2>3 DEF Below
    <3>2. QED BY <1>1, <1>2, <2>1, <2>4, <3>1, SoundOn
  <2> HIDE DEF x
  <2>6. PICK j : Factor(text, at + 1, j, x)
    BY <2>1, <2>2, <2>5 DEF Sound
  <2>7. Factor(text, at, j, r)
    BY <1>2, <1>5, <2>2, <2>3, <2>6, SignStep
  <2>8. QED BY <2>7
<1>6. QED BY <1>4, <1>5

LEMMA NumberStep ==
  ASSUME NEW text \in Seq(Token), NEW i \in Nat \ {0}, Current(text, i) = "number",
         Read(i + 1, literal(text[i])) # Error
  PROVE  Factor(text, i, i, Read(i + 1, literal(text[i])))
<1> DEFINE v == literal(text[i])
           a == [num |-> text[i].num, den |-> text[i].den]
<1>1. i <= Len(text) /\ text[i] \in Literals /\ text[i].kind = "number"
  <2>1. i <= Len(text)
    BY InText
  <2>2. QED BY <2>1, TokenKinds
<1>2. /\ a \in Quotient /\ v \in Values \cup {Error}
      /\ v # Error => Represents(v, a)
  BY <1>1, LiteralIs
<1> HIDE DEF v
<1>3. v # Error
  BY DEF Read, v
<1>4. Outermost(text, i, i) = {}
  BY SplitsShort, OutermostIs
<1>5. MeaningOf(text, i, i) = With(a, {})
  <2>1. i \in 1 .. Len(text) + 1 /\ i \in 0 .. Len(text)
    BY <1>1
  <2>2. QED BY <1>1, <1>4, <2>1, MeaningEquations
<1> HIDE DEF a
<1>6. Stands(v, MeaningOf(text, i, i))
  <2>1. With(a, {}) \in Defined /\ With(a, {}).value = a
    BY <1>2, WithIs
  <2>2. QED BY <1>2, <1>3, <1>5, <2>1 DEF Stands
<1>7. Read(i + 1, v) \in Places /\ Read(i + 1, v).at = i + 1 /\ Read(i + 1, v).value = v
  <2>1. i + 1 \in Nat \ {0}
    OBVIOUS
  <2>2. QED BY <1>2, <1>3, <2>1, ReadIs
<1>8. i \in i .. Len(text)
  BY <1>1
<1>9. Factor(text, i, i, Read(i + 1, v))
  BY <1>2, <1>3, <1>4, <1>6, <1>7, <1>8 DEF Factor, Vouches
<1>10. QED BY <1>9 DEF v

LEMMA EnclosedStep ==
  ASSUME NEW text \in Seq(Token), NEW i \in Nat \ {0}, Current(text, i) = "(",
         NEW j, NEW x, Vouches(text, i + 1, j, x), Current(text, x.at) = ")"
  PROVE  Factor(text, i, j + 1, Read(x.at + 1, x.value))
<1>1. /\ j \in Nat /\ i + 1 <= j /\ Len(text) \in Nat
      /\ x.value \in Values /\ x.at = j + 1
      /\ Shaped(text, i + 1, j) /\ Stands(x.value, MeaningOf(text, i + 1, j))
  <2>1. i + 1 \in Nat \ {0}
    OBVIOUS
  <2>2. QED BY <2>1, VouchesIs DEF Vouches
<1>2. /\ j + 1 <= Len(text) /\ j + 1 \in Nat \ {0} /\ text[j + 1].kind = ")"
      /\ text[i].kind = "("
  <2>1. j + 1 \in Nat \ {0} /\ i <= j + 1
    BY <1>1
  <2>2. j + 1 <= Len(text)
    BY <1>1, <2>1, InText
  <2>3. i <= Len(text)
    BY <1>1, <2>1, <2>2
  <2>4. QED BY <1>1, <2>1, <2>2, <2>3, TokenKinds
<1>3. Enclosed(text, i, j + 1)
  <2>1. ASSUME NEW k \in i .. j PROVE Open(text, i, k) > 0
    <3>1. Open(text, i, i) = 1
      BY <1>2, OpenOne
    <3>2. CASE k = i
      BY <3>1, <3>2
    <3>3. CASE k \in i + 1 .. j
      <4>1. k \in Nat /\ i <= i + 1 /\ i <= k
        BY <3>3
      <4>2. Open(text, i, k) = Open(text, i, i) + Open(text, i + 1, k)
        BY <4>1, OpenSum
      <4>3. Open(text, i + 1, k) \in Int /\ Open(text, i + 1, k) >= 0
        <5>1. i + 1 \in Nat
          OBVIOUS
        <5>2. QED BY <1>1, <3>3, <4>1, <5>1, OpenIs DEF Shaped
      <4>4. QED BY <3>1, <4>2, <4>3
    <3>4. QED BY <3>2, <3>3
  <2>2. (j + 1) - 1 = j /\ i + 1 < j + 1
    BY <1>1
  <2>3. QED BY <1>2, <2>1, <2>2 DEF Enclosed
<1>4. Outermost(text, i, j + 1) = {}
  <2>1. {"+", "-"} \in SUBSET Operators /\ {"*", "/"} \in SUBSET Operators
    BY DEF Operators
  <2>2. /\ Splits(text, i, j + 1, {"+", "-"}) = {}
        /\ Splits(text, i, j + 1, {"*", "/"}) = {}
    BY <1>2, <1>3, <2>1, SplitsEnclosed
  <2>3. QED BY <2>2, OutermostIs
<1>5. MeaningOf(text, i, j + 1) = MeaningOf(text, i + 1, j)
  <2>1. i \in 1 .. Len(text) + 1 /\ j + 1 \in 0 .. Len(text) /\ (j + 1) - 1 = j
    BY <1>1, <1>2
  <2>2. MeaningOf(text, i, j + 1) = MeaningOf(text, i + 1, (j + 1) - 1)
    BY <1>3, <1>4, <2>1, MeaningEquations
  <2>3. QED BY <2>1, <2>2
<1> DEFINE y == Read(x.at + 1, x.value)
<1>6. y \in Places /\ y.at = (j + 1) + 1 /\ y.value = x.value
  <2>1. x.at + 1 \in Nat \ {0} /\ x.at + 1 = (j + 1) + 1
    BY <1>1
  <2>2. x.value # Error
    BY <1>1, ValueFields
  <2>3. QED BY <1>1, <2>1, <2>2, ReadIs
<1> HIDE DEF y
<1>7. j + 1 \in i .. Len(text)
  BY <1>1, <1>2
<1>8. Factor(text, i, j + 1, y)
  BY <1>1, <1>4, <1>5, <1>6, <1>7 DEF Factor, Vouches
<1>9. QED BY <1>8 DEF y

LEMMA PrimarySound ==
  ASSUME NEW text \in Seq(Token), NEW place \in Places, NEW depth \in 0 .. MaxDepth,
         SoundBelow(text, 4 * Rest(text, place.at) + Rank["primary"])
  PROVE  Sound(text, "primary", place, Parser(text)[<<"primary", place, depth>>])
<1> DEFINE p == Parser(text)
           at == place.at
           r == p[<<"primary", place, depth>>]
<1>1. "additive" \in Methods /\ "primary" \in Methods
  BY DEF Methods
<1>2. at \in Nat \ {0}
  BY PlaceFields
<1>3. r = Primary(p, text, at, depth)
  BY <1>1, CallIs DEF Called
<1> HIDE DEF r
<1> SUFFICES ASSUME r # Error PROVE \E j : Factor(text, at, j, r)
  BY DEF Sound, r
<1>4. CASE Current(text, at) = "number"
  <2>1. r = Read(at + 1, literal(text[at]))
    BY <1>3, <1>4 DEF Primary
  <2>2. QED BY <1>2, <1>4, <2>1, NumberStep
<1>5. CASE Current(text, at) = "("
  <2> DEFINE next == Read(at + 1, None)
             x == p[<<"additive", next, depth + 1>>]
  <2>1. next \in Places /\ next.at = at + 1 /\ next.value = None
    BY <1>2, NextPlace
  <2>2. /\ ~(depth >= MaxDepth) /\ x # Error /\ Current(text, x.at) = ")"
        /\ r = Read(x.at + 1, x.value)
    <3>1. r = IF depth >= MaxDepth THEN Error
              ELSE IF x = Error \/ Current(text, x.at) # ")" THEN Error
                   ELSE Read(x.at + 1, x.value)
      BY <1>3, <1>5 DEF Primary
    <3>2. QED BY <3>1
  <2>3. at <= Len(text)
    BY <1>2, <1>5, InText
  <2>4. depth + 1 \in 0 .. MaxDepth
    BY <2>2, RangesAre
  <2> HIDE DEF next
  <2>5. Sound(text, "additive", next, x)
    <3>1. Below(text, at, "primary", next.at, "additive")
      BY <1>2, <2>1, <2>3 DEF Below
    <3>2. QED BY <1>1, <1>2, <2>1, <2>4, <3>1, SoundOn
  <2> HIDE DEF x
  <2>6. PICK j : Vouches(text, at + 1, j, x)
    BY <2>1, <2>2, <2>5 DEF Sound
  <2>7. Factor(text, at, j + 1, r)
    BY <1>2, <1>5, <2>2, <2>6, EnclosedStep
  <2>8. QED BY <2>7
<1>6. CASE Current(text, at) \notin {"number", "("}
  BY <1>3, <1>6 DEF Primary
<1>7. QED BY <1>4, <1>5, <1>6

LEMMA ParserSound ==
  ASSUME NEW text \in Seq(Token), NEW call \in Calls
  PROVE  Sound(text, call[1], call[2], Parser(text)[call])
<1> DEFINE m == [c \in Calls |-> Measure(text, c)]
           Good == {c \in Calls : Sound(text, c[1], c[2], Parser(text)[c])}
<1>1. m \in [Calls -> Nat]
  BY CallMeasure
<1>2. \A c \in Calls : m[c] = Measure(text, c)
  OBVIOUS
<1> HIDE DEF m
<1>3. ASSUME NEW c \in Calls, \A d \in Calls : m[d] < m[c] => d \in Good PROVE c \in Good
  <2>1. PICK method \in Methods, place \in Places, depth \in 0 .. MaxDepth :
          c = <<method, place, depth>>
    BY DEF Calls, Methods
  <2>2. SoundBelow(text, Measure(text, c))
    BY <1>2, <1>3 DEF SoundBelow
  <2>3. SoundBelow(text, 4 * Rest(text, place.at) + Rank[method])
    BY <2>1, <2>2, MeasureIs
  <2>4. Sound(text, method, place, Parser(text)[<<method, place, depth>>])
    <3>1. CASE method = "additive"
      BY <2>3, <3>1, AdditiveSound
    <3>2. CASE method = "multiplicative"
      BY <2>3, <3>2, MultiplicativeSound
    <3>3. CASE method = "unary"
      BY <2>3, <3>3, UnarySound
    <3>4. CASE method = "primary"
      BY <2>3, <3>4, PrimarySound
    <3>5. QED BY <3>1, <3>2, <3>3, <3>4 DEF Methods
  <2>5. c[1] = method /\ c[2] = place
    BY <2>1
  <2>6. QED BY <2>1, <2>4, <2>5
<1> HIDE DEF Good
<1>4. Calls \subseteq Good
  BY <1>1, <1>3, MeasureInduction
<1>5. QED BY <1>4 DEF Good

\* A text that is read to its end has a meaning, and the value is what it means.
LEMMA ReadAsMeant ==
  ASSUME NEW text \in Seq(Token), Parse(text) # Error, Current(text, Parse(text).at) = "eof"
  PROVE  /\ Parse(text).value \in Values
         /\ Stands(Parse(text).value, Meaning(text))
<1> DEFINE r == Parse(text)
           start == Read(1, None)
<1>1. r = Parser(text)[<<"additive", start, 0>>]
  BY ParseIs
<1>2. start \in Places /\ start.at = 1 /\ start.value = None
  <2>1. 1 \in Nat \ {0}
    OBVIOUS
  <2>2. QED BY <2>1, ReadIs, NoneIs
<1>3. <<"additive", start, 0>> \in Calls
  <2>1. "additive" \in Methods /\ 0 \in 0 .. MaxDepth
    BY RangesAre DEF Methods
  <2>2. QED BY <1>2, <2>1, MeasureIs
<1> DEFINE c == <<"additive", start, 0>>
<1>4. c[1] = "additive" /\ c[2] = start
  OBVIOUS
<1> HIDE DEF c, start
<1>5. Sound(text, "additive", start, Parser(text)[c])
  BY <1>3, <1>4, ParserSound DEF c
<1> HIDE DEF r
<1>6. PICK j : Vouches(text, 1, j, r)
  BY <1>1, <1>2, <1>5 DEF Sound, r, c
<1>7. j \in Nat /\ r.value \in Values /\ r.at = j + 1 /\ j <= Len(text) /\ Len(text) \in Nat
  BY <1>6, VouchesIs
<1>8. j = Len(text)
  <2>1. j + 1 \in Nat \ {0}
    BY <1>7
  <2>2. ~(j + 1 <= Len(text))
    <3>1. Current(text, j + 1) = "eof"
      BY <1>7 DEF r
    <3>2. "eof" \notin Symbols \cup {"number"}
      BY DEF Symbols
    <3>3. QED BY <2>1, <3>1, <3>2, TokenKinds
  <2>3. QED BY <1>7, <2>1, <2>2
<1>9. Stands(r.value, MeaningOf(text, 1, Len(text)))
  BY <1>6, <1>8 DEF Vouches
<1>10. QED BY <1>7, <1>9, MeaningIs DEF r, MeaningOf

-----------------------------------------------------------------------------
(* A part that means something modest is read *)

\* Where the parser goes deeper.
Nested(text, i, j) ==
  {k \in i .. j : \/ text[k].kind = "("
                  \/ /\ text[k].kind \in {"+", "-"}
                     /\ k = 1 \/ text[k - 1].kind \notin {"number", ")"}}

\* A sign at i has no operand on its left.
Fresh(text, i) == i = 1 \/ text[i - 1].kind \notin {"number", ")"}

\* The part from i to j has a value, fits in every kind and nests little.
Mild(text, i, j, depth) ==
  /\ MeaningOf(text, i, j) \in Defined
  /\ \A part \in MeaningOf(text, i, j).parts : Fits(part)
  /\ Fresh(text, i)
  /\ depth \in 0 .. MaxDepth /\ depth + Cardinality(Nested(text, i, j)) <= MaxDepth

Means(text, i, j, v) == v \in Values /\ Represents(v, MeaningOf(text, i, j).value)

\* What the methods read of such a part; a loop may go on after it.
ReadsFactor(text, i, j, depth) ==
  \E v : /\ Means(text, i, j, v)
         /\ Parser(text)[<<"unary", Read(i, None), depth>>] = Read(j + 1, v)

ReadsTerm(text, i, j, depth) ==
  \E v : /\ Means(text, i, j, v)
         /\ Parser(text)[<<"multiplicative", Read(i, None), depth>>]
              = Parser(text)[<<"multiplicative", Read(j + 1, v), depth>>]

ReadsSum(text, i, j, depth) ==
  \E v : /\ Means(text, i, j, v)
         /\ Parser(text)[<<"additive", Read(i, None), depth>>]
              = Parser(text)[<<"additive", Read(j + 1, v), depth>>]

Readable(text, i, j, depth) ==
  /\ Outermost(text, i, j) = {} => ReadsFactor(text, i, j, depth)
  /\ Splits(text, i, j, {"+", "-"}) = {} => ReadsTerm(text, i, j, depth)
  /\ EndsTerm(text, j + 1) => ReadsSum(text, i, j, depth)

LEMMA NestedIs ==
  ASSUME NEW text, NEW i \in Nat, NEW j \in Nat, NEW k \in Nat, NEW l \in Nat, i <= k, l <= j
  PROVE  /\ IsFiniteSet(Nested(text, i, j)) /\ Cardinality(Nested(text, i, j)) \in Nat
         /\ Cardinality(Nested(text, k, l)) \in Nat
         /\ Nested(text, k, l) \subseteq Nested(text, i, j)
         /\ Cardinality(Nested(text, k, l)) <= Cardinality(Nested(text, i, j))
<1>1. Nested(text, k, l) \subseteq Nested(text, i, j)
  <2>1. k .. l \subseteq i .. j
    OBVIOUS
  <2>2. QED BY <2>1, Zenon DEF Nested
<1>2. IsFiniteSet(Nested(text, i, j))
  <2>1. IsFiniteSet(i .. j)
    BY FS_Interval
  <2>2. Nested(text, i, j) \subseteq i .. j
    BY DEF Nested
  <2>3. QED BY <2>1, <2>2, FS_Subset
<1>3. QED BY <1>1, <1>2, FS_Subset, FS_CardinalityType

\* A part that begins with a sign or a parenthesis goes deeper by one.
LEMMA NestedFirst ==
  ASSUME NEW text, NEW i \in Nat \ {0}, NEW j \in Nat, i <= j, NEW l \in Nat, l <= j,
         \/ text[i].kind = "("
         \/ text[i].kind \in {"+", "-"} /\ Fresh(text, i)
  PROVE  Cardinality(Nested(text, i + 1, l)) + 1 <= Cardinality(Nested(text, i, j))
<1> DEFINE S == Nested(text, i, j)
           T == Nested(text, i + 1, l)
<1>1. i \in S
  <2>1. i \in i .. j
    OBVIOUS
  <2>2. QED BY <2>1 DEF Nested, Fresh
<1>2. i \notin T
  BY DEF Nested
<1>3. T \subseteq S /\ IsFiniteSet(S) /\ Cardinality(S) \in Nat /\ Cardinality(T) \in Nat
  <2>1. i + 1 \in Nat /\ i <= i + 1
    OBVIOUS
  <2>2. QED BY <2>1, NestedIs
<1> HIDE DEF S, T
<1>4. T \subseteq S \ {i} /\ IsFiniteSet(S \ {i}) /\ Cardinality(S \ {i}) = Cardinality(S) - 1
  BY <1>1, <1>2, <1>3, FS_RemoveElement
<1>5. Cardinality(T) <= Cardinality(S \ {i})
  BY <1>4, FS_Subset
<1>6. QED BY <1>3, <1>4, <1>5 DEF S, T

LEMMA MildOperands ==
  ASSUME NEW text \in Seq(Token), NEW i \in 1 .. Len(text) + 1, NEW j \in 0 .. Len(text),
         NEW depth, Mild(text, i, j, depth), Outermost(text, i, j) # {}
  PROVE  LET k == Max(Outermost(text, i, j))
             a == MeaningOf(text, i, k - 1)
             b == MeaningOf(text, k + 1, j)
             value == MeaningOf(text, i, j).value
         IN  /\ k \in i + 1 .. j /\ k \in Outermost(text, i, j)
             /\ \A l \in Outermost(text, i, j) : l <= k
             /\ text[k].kind \in Operators
             /\ k - 1 \in 0 .. Len(text) /\ k + 1 \in 1 .. Len(text) + 1
             /\ Mild(text, i, k - 1, depth) /\ Mild(text, k + 1, j, depth)
             /\ Shaped(text, i, k - 1) /\ Shaped(text, k + 1, j)
             /\ a.value \in Quotient /\ b.value \in Quotient
             /\ text[k].kind = "/" => b.value.num # 0
             /\ value = Apply(text[k].kind, a.value, b.value) /\ Fits(value)
<1> DEFINE k == Max(Outermost(text, i, j))
           a == MeaningOf(text, i, k - 1)
           b == MeaningOf(text, k + 1, j)
           c == MeaningOf(text, i, j)
           operator == text[k].kind
<1>1. i \in Nat \ {0} /\ j \in Nat /\ Len(text) \in Nat
  OBVIOUS
<1>2. k \in i + 1 .. j /\ k \in Outermost(text, i, j) /\ operator \in Operators
  BY <1>1, LastOperator
<1>3. \A l \in Outermost(text, i, j) : l <= k
  BY <1>1, LastOperator
<1>4. c = Joins(operator, a, b)
  BY MeaningEquations
<1> HIDE DEF k
<1>5. k - 1 \in 0 .. Len(text) /\ k + 1 \in 1 .. Len(text) + 1 /\ k \in Nat
  BY <1>1, <1>2
<1>6. a \in Meanings /\ b \in Meanings
  BY <1>5, TableIs
<1>7. c \in Defined /\ \A part \in c.parts : Fits(part)
  BY DEF Mild
<1> HIDE DEF a, b, c
<1>8. /\ a \in Defined /\ b \in Defined
      /\ operator = "/" => b.value.num # 0
      /\ c.value = Apply(operator, a.value, b.value)
      /\ c.parts = (a.parts \cup b.parts) \cup {Apply(operator, a.value, b.value)}
  BY <1>2, <1>4, <1>6, <1>7, JoinsIs
<1>9. a.value \in Quotient /\ b.value \in Quotient
  BY <1>8, DefinedIs
<1>10. Well(text, i, k - 1) /\ Well(text, k + 1, j)
  BY <1>8, DefinedIs DEF Well, a, b
<1>11. Shaped(text, i, k - 1) /\ Shaped(text, k + 1, j)
  BY <1>5, <1>10, WellShaped
<1>12. Fits(c.value)
  BY <1>7, <1>8
<1>13. Fresh(text, i) /\ Fresh(text, k + 1)
  <2>1. (k + 1) - 1 = k
    BY <1>5
  <2>2. operator \notin {"number", ")"}
    BY <1>2 DEF Operators
  <2>3. QED BY <2>1, <2>2 DEF Mild, Fresh
<1>14. ASSUME NEW f \in Nat, NEW l \in Nat, i <= f, l <= j
       PROVE  depth \in 0 .. MaxDepth /\ depth + Cardinality(Nested(text, f, l)) <= MaxDepth
  <2>1. /\ Cardinality(Nested(text, f, l)) <= Cardinality(Nested(text, i, j))
        /\ Cardinality(Nested(text, f, l)) \in Nat /\ Cardinality(Nested(text, i, j)) \in Nat
    BY <1>1, <1>14, NestedIs
  <2>2. depth \in 0 .. MaxDepth /\ depth + Cardinality(Nested(text, i, j)) <= MaxDepth
    BY DEF Mild
  <2>3. QED BY <2>1, <2>2, RangesAre
<1>15. Mild(text, i, k - 1, depth)
  <2>1. k - 1 \in Nat /\ k - 1 <= j
    BY <1>1, <1>2
  <2>2. depth \in 0 .. MaxDepth /\ depth + Cardinality(Nested(text, i, k - 1)) <= MaxDepth
    BY <1>1, <1>14, <2>1
  <2>3. QED BY <1>7, <1>8, <1>13, <2>2 DEF Mild, a
<1>16. Mild(text, k + 1, j, depth)
  <2>1. k + 1 \in Nat /\ i <= k + 1
    BY <1>1, <1>2
  <2>2. depth \in 0 .. MaxDepth /\ depth + Cardinality(Nested(text, k + 1, j)) <= MaxDepth
    BY <1>1, <1>14, <2>1
  <2>3. QED BY <1>7, <1>8, <1>13, <2>2 DEF Mild, b
<1>17. QED BY <1>2, <1>3, <1>5, <1>8, <1>9, <1>11, <1>12, <1>15, <1>16 DEF a, b, c, k

LEMMA MildSigned ==
  ASSUME NEW text \in Seq(Token), NEW i \in 1 .. Len(text) + 1, NEW j \in 0 .. Len(text),
         NEW depth, Mild(text, i, j, depth), Outermost(text, i, j) = {},
         i <= j, text[i].kind \in {"+", "-"}
  PROVE  LET a == MeaningOf(text, i + 1, j)
             value == MeaningOf(text, i, j).value
         IN  /\ i < j /\ i + 1 \in 1 .. Len(text) + 1 /\ depth < MaxDepth
             /\ Outermost(text, i + 1, j) = {} /\ Mild(text, i + 1, j, depth + 1)
             /\ a.value \in Quotient /\ value = Opposite(text[i].kind, a.value) /\ Fits(value)
<1> DEFINE a == MeaningOf(text, i + 1, j)
           c == MeaningOf(text, i, j)
           sign == text[i].kind
<1>1. i \in Nat \ {0} /\ j \in Nat /\ Len(text) \in Nat /\ i + 1 \in 1 .. Len(text) + 1
  OBVIOUS
<1>2. c = Signs(sign, a)
  BY MeaningEquations
<1>3. a \in Meanings
  BY <1>1, TableIs
<1>4. c \in Defined /\ \A part \in c.parts : Fits(part)
  BY DEF Mild
<1> HIDE DEF a, c
<1>5. /\ a \in Defined /\ c.value = Opposite(sign, a.value)
      /\ c.parts = a.parts \cup {Opposite(sign, a.value)}
  BY <1>2, <1>3, <1>4, SignsIs, DefinedIs DEF Meanings
<1>6. a.value \in Quotient
  BY <1>5, DefinedIs
<1>7. Shaped(text, i + 1, j)
  <2>1. Well(text, i + 1, j)
    BY <1>5, DefinedIs DEF Well, a
  <2>2. QED BY <1>1, <2>1, WellShaped
<1>8. i < j
  BY <1>1, <1>7 DEF Shaped
<1>9. Outermost(text, i + 1, j) = {}
  <2>1. /\ Splits(text, i, j, {"+", "-"}) = Splits(text, i + 1, j, {"+", "-"})
        /\ Splits(text, i, j, {"*", "/"}) = Splits(text, i + 1, j, {"*", "/"})
    BY <1>1, <1>8, SplitsSigned
  <2>2. QED BY <2>1, OutermostIs
<1>10. depth < MaxDepth /\ depth + 1 \in 0 .. MaxDepth
       /\ depth + 1 + Cardinality(Nested(text, i + 1, j)) <= MaxDepth
  <2>1. Cardinality(Nested(text, i + 1, j)) + 1 <= Cardinality(Nested(text, i, j))
    BY <1>1, NestedFirst DEF Mild
  <2>2. Cardinality(Nested(text, i + 1, j)) \in Nat /\ Cardinality(Nested(text, i, j)) \in Nat
    <3>1. i + 1 \in Nat /\ i <= i + 1 /\ j <= j
      BY <1>1
    <3>2. QED BY <1>1, <3>1, NestedIs
  <2>3. depth \in 0 .. MaxDepth /\ depth + Cardinality(Nested(text, i, j)) <= MaxDepth
    BY DEF Mild
  <2>4. QED BY <2>1, <2>2, <2>3, RangesAre
<1>11. Fresh(text, i + 1)
  <2>1. (i + 1) - 1 = i
    BY <1>1
  <2>2. QED BY <2>1 DEF Fresh
<1>12. Mild(text, i + 1, j, depth + 1)
  BY <1>4, <1>5, <1>10, <1>11 DEF Mild, a
<1>13. QED BY <1>1, <1>4, <1>5, <1>6, <1>8, <1>9, <1>10, <1>12 DEF a, c

LEMMA MildEnclosed ==
  ASSUME NEW text \in Seq(Token), NEW i \in 1 .. Len(text) + 1, NEW j \in 0 .. Len(text),
         NEW depth, Mild(text, i, j, depth), Outermost(text, i, j) = {}, Enclosed(text, i, j)
  PROVE  /\ MeaningOf(text, i, j) = MeaningOf(text, i + 1, j - 1)
         /\ i + 1 < j /\ i + 1 \in 1 .. Len(text) + 1 /\ j - 1 \in 0 .. Len(text)
         /\ depth < MaxDepth /\ Mild(text, i + 1, j - 1, depth + 1)
<1>1. i \in Nat \ {0} /\ j \in Nat /\ Len(text) \in Nat
  OBVIOUS
<1>2. i + 1 < j /\ text[i].kind = "("
  BY DEF Enclosed
<1>3. /\ i + 1 \in 1 .. Len(text) + 1 /\ j - 1 \in 0 .. Len(text)
      /\ j - 1 \in Nat /\ j - 1 <= j /\ i <= j
  BY <1>1, <1>2
<1>4. MeaningOf(text, i, j) = MeaningOf(text, i + 1, j - 1)
  BY MeaningEquations
<1>5. depth < MaxDepth /\ depth + 1 \in 0 .. MaxDepth
      /\ depth + 1 + Cardinality(Nested(text, i + 1, j - 1)) <= MaxDepth
  <2>1. Cardinality(Nested(text, i + 1, j - 1)) + 1 <= Cardinality(Nested(text, i, j))
    BY <1>1, <1>2, <1>3, NestedFirst
  <2>2. /\ Cardinality(Nested(text, i + 1, j - 1)) \in Nat
        /\ Cardinality(Nested(text, i, j)) \in Nat
    <3>1. i + 1 \in Nat /\ i <= i + 1
      BY <1>1
    <3>2. QED BY <1>1, <1>3, <3>1, NestedIs
  <2>3. depth \in 0 .. MaxDepth /\ depth + Cardinality(Nested(text, i, j)) <= MaxDepth
    BY DEF Mild
  <2>4. QED BY <2>1, <2>2, <2>3, RangesAre
<1>6. Fresh(text, i + 1)
  <2>1. (i + 1) - 1 = i
    BY <1>1
  <2>2. QED BY <1>2, <2>1 DEF Fresh
<1>7. Mild(text, i + 1, j - 1, depth + 1)
  BY <1>4, <1>5, <1>6 DEF Mild
<1>8. QED BY <1>2, <1>3, <1>4, <1>5, <1>7

\* A part with a value is not empty and begins inside the text.
LEMMA MildIn ==
  ASSUME NEW text \in Seq(Token), NEW i \in 1 .. Len(text) + 1, NEW j \in 0 .. Len(text),
         NEW depth, Mild(text, i, j, depth)
  PROVE  /\ i <= j /\ i \in Nat \ {0} /\ j \in Nat /\ i <= Len(text) /\ j <= Len(text)
         /\ MeaningOf(text, i, j).value \in Quotient /\ Fits(MeaningOf(text, i, j).value)
         /\ depth \in 0 .. MaxDepth
<1>1. i \in Nat \ {0} /\ j \in Nat /\ Len(text) \in Nat
  OBVIOUS
<1>2. MeaningOf(text, i, j) \in Defined /\ depth \in 0 .. MaxDepth
  BY DEF Mild
<1>3. /\ MeaningOf(text, i, j).value \in Quotient /\ Well(text, i, j)
      /\ MeaningOf(text, i, j).value \in MeaningOf(text, i, j).parts
  BY <1>2, DefinedIs DEF Well
<1>4. i <= j
  BY <1>3, WellShaped DEF Shaped
<1>5. QED BY <1>1, <1>2, <1>3, <1>4 DEF Mild

-----------------------------------------------------------------------------
(* The loops, as far as they go *)

LEMMA ChainStops ==
  ASSUME NEW p, NEW text, NEW left \in Places, NEW operators, Current(text, left.at) \notin operators,
         NEW depth, NEW method, NEW operand
  PROVE  Chain(p, text, left, depth, method, operators, operand) = left
BY PlaceFields DEF Chain

LEMMA ChainGoes ==
  ASSUME NEW p, NEW text, NEW left, NEW depth, NEW method, NEW operators, NEW operand
  PROVE  LET right == p[<<operand, Read(left.at + 1, None), depth>>]
             v == binary(Current(text, left.at), left.value, right.value)
         IN  left \in Places /\ Current(text, left.at) \in operators /\ right \in Places /\ v # Error
               => Chain(p, text, left, depth, method, operators, operand)
                    = p[<<method, Read(right.at, v), depth>>]
<1> DEFINE right == p[<<operand, Read(left.at + 1, None), depth>>]
           v == binary(Current(text, left.at), left.value, right.value)
<1> SUFFICES ASSUME left \in Places, Current(text, left.at) \in operators, right \in Places, v # Error
             PROVE  Chain(p, text, left, depth, method, operators, operand)
                      = p[<<method, Read(right.at, v), depth>>]
  OBVIOUS
<1>1. left # Error /\ right # Error
  BY PlaceFields
<1>2. Joined(text, left, right) = Read(right.at, v)
  BY <1>1 DEF Joined
<1>3. Chain(p, text, left, depth, method, operators, operand) =
        Continue(p, method, Joined(text, left, right), depth)
  BY <1>1 DEF Chain
<1> HIDE DEF right, v
<1>4. Read(right.at, v) # Error
  <2>1. Read(right.at, v) = [at |-> right.at, value |-> v]
    BY DEF Read
  <2>2. DOMAIN [at |-> right.at, value |-> v] = {"at", "value"} /\ DOMAIN Error = {"kind"}
    BY DEF Error
  <2>3. QED BY <2>1, <2>2
<1>5. QED BY <1>2, <1>3, <1>4 DEF Continue

\* The loops at a place where a value was read, or where nothing was yet.
LEMMA LoopsAre ==
  ASSUME NEW text \in Seq(Token), NEW x \in Places, NEW depth \in 0 .. MaxDepth
  PROVE  LET p == Parser(text)
             Products(left) == Chain(p, text, left, depth, "multiplicative", {"*", "/"}, "unary")
             Additions(left) ==
               Chain(p, text, left, depth, "additive", {"+", "-"}, "multiplicative")
         IN  /\ p[<<"multiplicative", x, depth>>]
                  = Products(IF x.value = None THEN p[<<"unary", x, depth>>] ELSE x)
             /\ p[<<"additive", x, depth>>]
                  = Additions(IF x.value = None THEN p[<<"multiplicative", x, depth>>] ELSE x)
<1>1. "additive" \in Methods /\ "multiplicative" \in Methods
  BY DEF Methods
<1>2. Called(Parser(text), text, "additive", x, depth) = Additive(Parser(text), text, x, depth)
  BY DEF Called
<1>3. Called(Parser(text), text, "multiplicative", x, depth)
        = Multiplicative(Parser(text), text, x, depth)
  BY DEF Called
<1>4. Parser(text)[<<"additive", x, depth>>] = Additive(Parser(text), text, x, depth)
  BY <1>1, <1>2, CallIs
<1>5. Parser(text)[<<"multiplicative", x, depth>>] = Multiplicative(Parser(text), text, x, depth)
  BY <1>1, <1>3, CallIs
<1>6. QED BY <1>4, <1>5, Zenon DEF Additive, Multiplicative

LEMMA ReadPlaces ==
  ASSUME NEW i \in Nat \ {0}, NEW j \in Nat, NEW v \in Values
  PROVE  /\ Read(i, None) \in Places /\ Read(i, None).value = None
         /\ Read(j + 1, v) \in Places /\ Read(j + 1, v).at = j + 1
         /\ Read(j + 1, v).value = v /\ Read(j + 1, v).value # None
<1>1. j + 1 \in Nat \ {0}
  OBVIOUS
<1>2. v # Error /\ v # None
  BY ValueFields
<1>3. QED BY <1>1, <1>2, ReadIs, NoneIs

\* What a method reads is what its loop begins with.
LEMMA TermBegins ==
  ASSUME NEW text \in Seq(Token), NEW i \in Nat \ {0}, NEW j \in Nat, NEW v \in Values,
         NEW depth \in 0 .. MaxDepth,
         Parser(text)[<<"unary", Read(i, None), depth>>] = Read(j + 1, v)
  PROVE  Parser(text)[<<"multiplicative", Read(i, None), depth>>]
           = Parser(text)[<<"multiplicative", Read(j + 1, v), depth>>]
<1> DEFINE x == Read(i, None)
           y == Read(j + 1, v)
<1>1. x \in Places /\ x.value = None /\ y \in Places /\ y.value # None
  BY ReadPlaces
<1>2. Parser(text)[<<"unary", x, depth>>] = y
  OBVIOUS
<1> HIDE DEF x, y
<1>3. Parser(text)[<<"multiplicative", x, depth>>] = Parser(text)[<<"multiplicative", y, depth>>]
  BY <1>1, <1>2, LoopsAre
<1>4. QED BY <1>3 DEF x, y

LEMMA SumBegins ==
  ASSUME NEW text \in Seq(Token), NEW i \in Nat \ {0}, NEW j \in Nat, NEW v \in Values,
         NEW depth \in 0 .. MaxDepth,
         Parser(text)[<<"multiplicative", Read(i, None), depth>>] = Read(j + 1, v)
  PROVE  Parser(text)[<<"additive", Read(i, None), depth>>]
           = Parser(text)[<<"additive", Read(j + 1, v), depth>>]
<1> DEFINE x == Read(i, None)
           y == Read(j + 1, v)
<1>1. x \in Places /\ x.value = None /\ y \in Places /\ y.value # None
  BY ReadPlaces
<1>2. Parser(text)[<<"multiplicative", x, depth>>] = y
  OBVIOUS
<1> HIDE DEF x, y
<1>3. Parser(text)[<<"additive", x, depth>>] = Parser(text)[<<"additive", y, depth>>]
  BY <1>1, <1>2, LoopsAre
<1>4. QED BY <1>3 DEF x, y

LEMMA TermStops ==
  ASSUME NEW text \in Seq(Token), NEW x \in Places, x.value # None,
         NEW depth \in 0 .. MaxDepth, EndsTerm(text, x.at)
  PROVE  Parser(text)[<<"multiplicative", x, depth>>] = x
<1>1. Parser(text)[<<"multiplicative", x, depth>>]
        = Chain(Parser(text), text, x, depth, "multiplicative", {"*", "/"}, "unary")
  BY LoopsAre
<1>2. Current(text, x.at) \notin {"*", "/"}
  BY DEF EndsTerm
<1>3. QED BY <1>1, <1>2, ChainStops

LEMMA SumStops ==
  ASSUME NEW text \in Seq(Token), NEW x \in Places, x.value # None,
         NEW depth \in 0 .. MaxDepth, Current(text, x.at) \notin {"+", "-"}
  PROVE  Parser(text)[<<"additive", x, depth>>] = x
<1>1. Parser(text)[<<"additive", x, depth>>]
        = Chain(Parser(text), text, x, depth, "additive", {"+", "-"}, "multiplicative")
  BY LoopsAre
<1>2. QED BY <1>1, ChainStops

-----------------------------------------------------------------------------
(* Each form of a part is read *)

LEMMA FactorReadsTerm ==
  ASSUME NEW text \in Seq(Token), NEW i \in Nat \ {0}, NEW j \in Nat,
         NEW depth \in 0 .. MaxDepth, ReadsFactor(text, i, j, depth)
  PROVE  ReadsTerm(text, i, j, depth)
<1>1. PICK v : /\ Means(text, i, j, v)
               /\ Parser(text)[<<"unary", Read(i, None), depth>>] = Read(j + 1, v)
  BY DEF ReadsFactor
<1>2. Parser(text)[<<"multiplicative", Read(i, None), depth>>]
        = Parser(text)[<<"multiplicative", Read(j + 1, v), depth>>]
  BY <1>1, TermBegins DEF Means
<1>3. QED BY <1>1, <1>2 DEF ReadsTerm

LEMMA TermReadsSum ==
  ASSUME NEW text \in Seq(Token), NEW i \in Nat \ {0}, NEW j \in Nat,
         NEW depth \in 0 .. MaxDepth, ReadsTerm(text, i, j, depth), EndsTerm(text, j + 1)
  PROVE  ReadsSum(text, i, j, depth)
<1>1. PICK v : /\ Means(text, i, j, v)
               /\ Parser(text)[<<"multiplicative", Read(i, None), depth>>]
                    = Parser(text)[<<"multiplicative", Read(j + 1, v), depth>>]
  BY DEF ReadsTerm
<1>2. Parser(text)[<<"multiplicative", Read(j + 1, v), depth>>] = Read(j + 1, v)
  BY <1>1, ReadPlaces, TermStops DEF Means
<1>3. Parser(text)[<<"multiplicative", Read(i, None), depth>>] = Read(j + 1, v)
  BY <1>1, <1>2
<1>4. Parser(text)[<<"additive", Read(i, None), depth>>]
        = Parser(text)[<<"additive", Read(j + 1, v), depth>>]
  BY <1>1, <1>3, SumBegins DEF Means
<1>5. QED BY <1>1, <1>4 DEF ReadsSum

\* The operation that is applied last is not refused.
LEMMA OperandsJoin ==
  ASSUME NEW text \in Seq(Token), NEW i \in 1 .. Len(text) + 1, NEW j \in 0 .. Len(text),
         NEW depth, Mild(text, i, j, depth), Outermost(text, i, j) # {},
         NEW k, k = Max(Outermost(text, i, j)),
         NEW a, Means(text, i, k - 1, a), NEW b, Means(text, k + 1, j, b)
  PROVE  /\ Means(text, i, j, binary(text[k].kind, a, b)) /\ binary(text[k].kind, a, b) # Error
         /\ k \in Nat /\ k <= Len(text) /\ Current(text, k) = text[k].kind
<1> DEFINE operator == text[k].kind
           value == MeaningOf(text, i, j).value
           m == MeaningOf(text, i, k - 1).value
           n == MeaningOf(text, k + 1, j).value
           v == binary(operator, a, b)
<1>1. /\ k \in i + 1 .. j /\ operator \in Operators
      /\ m \in Quotient /\ n \in Quotient
      /\ operator = "/" => n.num # 0
      /\ value = Apply(operator, m, n) /\ Fits(value)
  BY MildOperands
<1>2. a \in Values /\ Represents(a, m) /\ b \in Values /\ Represents(b, n)
  BY DEF Means
<1>3. k \in Nat \ {0} /\ k <= Len(text)
  BY <1>1
<1>4. Current(text, k) = operator
  BY <1>3, TokenKinds
<1> HIDE DEF operator, value, m, n
<1>5. operator \in {"+", "-", "*", "/"}
  BY <1>1 DEF Operators
<1>6. v \in Values \cup {Error}
  BY <1>2, <1>5, BinaryType
<1>7. v # Error /\ Represents(v, value)
  BY <1>1, <1>2, <1>5, BinaryIs
<1> HIDE DEF v
<1>8. QED BY <1>3, <1>4, <1>6, <1>7 DEF Means, v, operator, value

LEMMA TermReads ==
  ASSUME NEW text \in Seq(Token), NEW i \in 1 .. Len(text) + 1, NEW j \in 0 .. Len(text),
         NEW depth, Mild(text, i, j, depth), Outermost(text, i, j) # {},
         NEW k, k = Max(Outermost(text, i, j)), text[k].kind \in {"*", "/"},
         ReadsTerm(text, i, k - 1, depth), ReadsFactor(text, k + 1, j, depth)
  PROVE  ReadsTerm(text, i, j, depth)
<1> DEFINE p == Parser(text)
<1>1. PICK a : /\ Means(text, i, k - 1, a)
               /\ p[<<"multiplicative", Read(i, None), depth>>]
                    = p[<<"multiplicative", Read((k - 1) + 1, a), depth>>]
  BY DEF ReadsTerm
<1>2. PICK b : /\ Means(text, k + 1, j, b)
               /\ p[<<"unary", Read(k + 1, None), depth>>] = Read(j + 1, b)
  BY DEF ReadsFactor
<1> DEFINE v == binary(text[k].kind, a, b)
           left == Read(k, a)
           right == Read(j + 1, b)
<1>3. /\ Means(text, i, j, v) /\ v # Error
      /\ k \in Nat /\ k <= Len(text) /\ Current(text, k) = text[k].kind
  BY <1>1, <1>2, OperandsJoin
<1>4. k \in i + 1 .. j /\ depth \in 0 .. MaxDepth
  BY MildOperands, MildIn
<1>5. (k - 1) + 1 = k /\ k \in Nat \ {0} /\ j + 1 \in Nat \ {0}
  BY <1>4
<1>6. /\ left \in Places /\ left.at = k /\ left.value = a /\ a # None
      /\ right \in Places /\ right.at = j + 1 /\ right.value = b
  BY <1>1, <1>2, <1>5, ReadIs, ValueFields DEF Means
<1> HIDE DEF p, v, left, right
<1>7. p[<<"multiplicative", left, depth>>]
        = Chain(p, text, left, depth, "multiplicative", {"*", "/"}, "unary")
  BY <1>4, <1>6, LoopsAre DEF p
<1>8. binary(text[k].kind, left.value, right.value) = v
  BY <1>6 DEF v
<1>9. p[<<"unary", Read(left.at + 1, None), depth>>] = right
  BY <1>2, <1>6 DEF right
<1>10. Chain(p, text, left, depth, "multiplicative", {"*", "/"}, "unary")
         = p[<<"multiplicative", Read(right.at, v), depth>>]
  <2> DEFINE operators == {"*", "/"}
  <2>1. /\ Current(text, left.at) \in operators
        /\ binary(Current(text, left.at), left.value, right.value) = v
    BY <1>3, <1>6, <1>8
  <2> HIDE DEF operators
  <2>2. Chain(p, text, left, depth, "multiplicative", operators, "unary")
          = p[<<"multiplicative", Read(right.at, v), depth>>]
    <3>1. left \in Places /\ right \in Places /\ v # Error
      BY <1>3, <1>6
    <3>2. QED BY <1>9, <2>1, <3>1, ChainGoes
  <2>3. QED BY <2>2 DEF operators
<1>11. p[<<"multiplicative", Read(i, None), depth>>] = p[<<"multiplicative", Read(j + 1, v), depth>>]
  BY <1>1, <1>5, <1>6, <1>7, <1>10 DEF left
<1>12. QED BY <1>3, <1>11 DEF ReadsTerm, p

LEMMA SumReads ==
  ASSUME NEW text \in Seq(Token), NEW i \in 1 .. Len(text) + 1, NEW j \in 0 .. Len(text),
         NEW depth, Mild(text, i, j, depth), Outermost(text, i, j) # {},
         NEW k, k = Max(Outermost(text, i, j)), text[k].kind \in {"+", "-"},
         ReadsSum(text, i, k - 1, depth), ReadsTerm(text, k + 1, j, depth),
         EndsTerm(text, j + 1)
  PROVE  ReadsSum(text, i, j, depth)
<1> DEFINE p == Parser(text)
<1>1. PICK a : /\ Means(text, i, k - 1, a)
               /\ p[<<"additive", Read(i, None), depth>>]
                    = p[<<"additive", Read((k - 1) + 1, a), depth>>]
  BY DEF ReadsSum
<1>2. PICK b : /\ Means(text, k + 1, j, b)
               /\ p[<<"multiplicative", Read(k + 1, None), depth>>]
                    = p[<<"multiplicative", Read(j + 1, b), depth>>]
  BY DEF ReadsTerm
<1> DEFINE v == binary(text[k].kind, a, b)
           left == Read(k, a)
           right == Read(j + 1, b)
<1>3. /\ Means(text, i, j, v) /\ v # Error
      /\ k \in Nat /\ k <= Len(text) /\ Current(text, k) = text[k].kind
  BY <1>1, <1>2, OperandsJoin
<1>4. k \in i + 1 .. j /\ depth \in 0 .. MaxDepth
  BY MildOperands, MildIn
<1>5. (k - 1) + 1 = k /\ k \in Nat \ {0} /\ j + 1 \in Nat \ {0}
  BY <1>4
<1>6. /\ left \in Places /\ left.at = k /\ left.value = a /\ a # None
      /\ right \in Places /\ right.at = j + 1 /\ right.value = b
  BY <1>1, <1>2, <1>5, ReadIs, ValueFields DEF Means
<1>7. p[<<"multiplicative", right, depth>>] = right
  <2>1. right.value # None
    BY <1>2, <1>6, ValueFields DEF Means
  <2> HIDE DEF right
  <2>2. QED BY <1>4, <1>6, <2>1, TermStops
<1> HIDE DEF p, v, left, right
<1>8. p[<<"additive", left, depth>>]
        = Chain(p, text, left, depth, "additive", {"+", "-"}, "multiplicative")
  BY <1>4, <1>6, LoopsAre DEF p
<1>9. p[<<"multiplicative", Read(left.at + 1, None), depth>>] = right
  BY <1>2, <1>6, <1>7 DEF right
<1>10. Chain(p, text, left, depth, "additive", {"+", "-"}, "multiplicative")
         = p[<<"additive", Read(right.at, v), depth>>]
  <2> DEFINE operators == {"+", "-"}
  <2>1. Current(text, left.at) \in operators
    BY <1>3, <1>6
  <2>2. binary(Current(text, left.at), left.value, right.value) = v
    BY <1>3, <1>6 DEF v
  <2> HIDE DEF operators
  <2>3. Chain(p, text, left, depth, "additive", operators, "multiplicative")
          = p[<<"additive", Read(right.at, v), depth>>]
    <3>1. left \in Places /\ right \in Places /\ v # Error
      BY <1>3, <1>6
    <3>2. QED BY <1>9, <2>1, <2>2, <3>1, ChainGoes
  <2>4. QED BY <2>3 DEF operators
<1>11. p[<<"additive", Read(i, None), depth>>] = p[<<"additive", Read(j + 1, v), depth>>]
  BY <1>1, <1>5, <1>6, <1>8, <1>10 DEF left
<1>12. QED BY <1>3, <1>11 DEF ReadsSum, p

\* Where no sign stands the operand is read by primary.
LEMMA UnaryCalls ==
  ASSUME NEW text \in Seq(Token), NEW i \in Nat \ {0}, NEW depth \in 0 .. MaxDepth
  PROVE  LET p == Parser(text)
         IN  /\ p[<<"unary", Read(i, None), depth>>] = Unary(p, text, i, depth)
             /\ p[<<"primary", Read(i, None), depth>>] = Primary(p, text, i, depth)
             /\ Current(text, i) \notin {"+", "-"} =>
                  p[<<"unary", Read(i, None), depth>>] = Primary(p, text, i, depth)
<1> DEFINE x == Read(i, None)
<1>1. x \in Places /\ x.at = i
  BY ReadIs, NoneIs
<1> HIDE DEF x
<1>2. "unary" \in Methods /\ "primary" \in Methods
  BY DEF Methods
<1>3. Called(Parser(text), text, "unary", x, depth) = Unary(Parser(text), text, i, depth)
  BY <1>1 DEF Called
<1>4. Called(Parser(text), text, "primary", x, depth) = Primary(Parser(text), text, i, depth)
  BY <1>1 DEF Called
<1>5. /\ Parser(text)[<<"unary", x, depth>>] = Unary(Parser(text), text, i, depth)
      /\ Parser(text)[<<"primary", x, depth>>] = Primary(Parser(text), text, i, depth)
  BY <1>1, <1>2, <1>3, <1>4, CallIs
<1>6. Current(text, i) \notin {"+", "-"} =>
        Unary(Parser(text), text, i, depth) = Parser(text)[<<"primary", x, depth>>]
  BY DEF Unary, x
<1>7. QED BY <1>5, <1>6 DEF x

LEMMA NumberReads ==
  ASSUME NEW text \in Seq(Token), NEW i \in 1 .. Len(text) + 1, NEW depth,
         i \in 0 .. Len(text), Mild(text, i, i, depth), text[i].kind = "number"
  PROVE  ReadsFactor(text, i, i, depth)
<1> DEFINE a == [num |-> text[i].num, den |-> text[i].den]
           v == literal(text[i])
<1>1. /\ i \in Nat \ {0} /\ i <= Len(text) /\ depth \in 0 .. MaxDepth
      /\ Fits(MeaningOf(text, i, i).value)
  BY MildIn
<1>2. Current(text, i) = "number" /\ text[i] \in Literals
  BY <1>1, TokenKinds
<1>3. /\ a \in Quotient /\ v \in Values \cup {Error}
      /\ v # Error => Represents(v, a)
      /\ Fits(a) => v # Error
  BY <1>2, LiteralIs
<1>4. MeaningOf(text, i, i) = With(a, {})
  <2>1. Outermost(text, i, i) = {}
    BY <1>1, SplitsShort, OutermostIs
  <2>2. QED BY <1>1, <2>1, MeaningEquations
<1> HIDE DEF a, v
<1>5. MeaningOf(text, i, i).value = a
  BY <1>3, <1>4, WithIs
<1>6. Means(text, i, i, v)
  BY <1>1, <1>3, <1>5 DEF Means
<1>7. Parser(text)[<<"unary", Read(i, None), depth>>] = Read(i + 1, v)
  <2>1. Parser(text)[<<"unary", Read(i, None), depth>>] = Primary(Parser(text), text, i, depth)
    BY <1>1, <1>2, UnaryCalls
  <2>2. Primary(Parser(text), text, i, depth) = Read(i + 1, v)
    BY <1>2 DEF Primary, v
  <2>3. QED BY <2>1, <2>2
<1>8. QED BY <1>6, <1>7 DEF ReadsFactor

LEMMA SignedReads ==
  ASSUME NEW text \in Seq(Token), NEW i \in 1 .. Len(text) + 1, NEW j \in 0 .. Len(text),
         NEW depth, Mild(text, i, j, depth), Outermost(text, i, j) = {},
         i <= j, text[i].kind \in {"+", "-"}, ReadsFactor(text, i + 1, j, depth + 1)
  PROVE  ReadsFactor(text, i, j, depth)
<1> DEFINE sign == text[i].kind
           a == MeaningOf(text, i + 1, j).value
           value == MeaningOf(text, i, j).value
<1>1. /\ depth < MaxDepth /\ a \in Quotient
      /\ value = Opposite(sign, a) /\ Fits(value)
  BY MildSigned
<1>2. i \in Nat \ {0} /\ j \in Nat /\ i <= Len(text) /\ depth \in 0 .. MaxDepth
  BY MildIn
<1>3. Current(text, i) = sign
  BY <1>2, TokenKinds
<1>4. PICK w : /\ Means(text, i + 1, j, w)
               /\ Parser(text)[<<"unary", Read(i + 1, None), depth + 1>>] = Read(j + 1, w)
  BY DEF ReadsFactor
<1> DEFINE v == unary(sign, w)
<1>5. sign \in {"+", "-"}
  OBVIOUS
<1>6. Parser(text)[<<"unary", Read(i, None), depth>>] = Read(j + 1, v)
  <2> DEFINE x == Read(j + 1, w)
  <2>1. x.at = j + 1 /\ x.value = w /\ x # Error
    <3>1. w \in Values
      BY <1>4 DEF Means
    <3>2. x \in Places /\ x.at = j + 1 /\ x.value = w
      BY <1>2, <3>1, ReadPlaces
    <3>3. QED BY <3>2, PlaceFields
  <2> HIDE DEF x
  <2>2. Parser(text)[<<"unary", Read(i, None), depth>>] = Unary(Parser(text), text, i, depth)
    BY <1>2, UnaryCalls
  <2>3. ~(depth >= MaxDepth)
    BY <1>1, <1>2, RangesAre
  <2>4. Parser(text)[<<"unary", Read(i + 1, None), depth + 1>>] = x
    BY <1>4 DEF x
  <2>5. Unary(Parser(text), text, i, depth) = Read(x.at, unary(Current(text, i), x.value))
    BY <1>3, <1>5, <2>1, <2>3, <2>4 DEF Unary
  <2>6. QED BY <1>3, <2>1, <2>2, <2>5
<1> HIDE DEF sign, a, value
<1>7. w \in Values /\ Represents(w, a)
  BY <1>4 DEF Means, a
<1>8. v \in Values \cup {Error} /\ v # Error /\ Represents(v, value)
  BY <1>1, <1>5, <1>7, UnaryIs
<1> HIDE DEF v
<1>9. QED BY <1>6, <1>8 DEF ReadsFactor, Means, value

LEMMA EnclosedReads ==
  ASSUME NEW text \in Seq(Token), NEW i \in 1 .. Len(text) + 1, NEW j \in 0 .. Len(text),
         NEW depth, Mild(text, i, j, depth), Outermost(text, i, j) = {}, Enclosed(text, i, j),
         ReadsSum(text, i + 1, j - 1, depth + 1)
  PROVE  ReadsFactor(text, i, j, depth)
<1> DEFINE p == Parser(text)
<1>1. /\ MeaningOf(text, i, j) = MeaningOf(text, i + 1, j - 1)
      /\ i + 1 < j /\ depth < MaxDepth
  BY MildEnclosed
<1>2. /\ i \in Nat \ {0} /\ j \in Nat /\ i <= Len(text) /\ j <= Len(text)
      /\ depth \in 0 .. MaxDepth
  BY MildIn
<1>3. text[i].kind = "(" /\ text[j].kind = ")"
  BY DEF Enclosed
<1>4. Current(text, i) = "(" /\ Current(text, j) = ")"
  <2>1. j \in Nat \ {0}
    BY <1>1, <1>2
  <2>2. QED BY <1>2, <1>3, <2>1, TokenKinds
<1>5. PICK v : /\ Means(text, i + 1, j - 1, v)
               /\ p[<<"additive", Read(i + 1, None), depth + 1>>]
                    = p[<<"additive", Read((j - 1) + 1, v), depth + 1>>]
  BY DEF ReadsSum
<1>6. (j - 1) + 1 = j /\ j - 1 \in Nat /\ depth + 1 \in 0 .. MaxDepth /\ ~(depth >= MaxDepth)
  BY <1>1, <1>2, RangesAre
<1> DEFINE x == Read(j, v)
<1>7. x \in Places /\ x.at = j /\ x.value = v /\ x.value # None /\ x # Error
  <2>1. v \in Values
    BY <1>5 DEF Means
  <2>2. v # Error /\ v # None /\ j \in Nat \ {0}
    BY <1>1, <1>2, <2>1, ValueFields
  <2>3. x \in Places /\ x.at = j /\ x.value = v
    BY <2>1, <2>2, ReadIs
  <2> HIDE DEF x
  <2>4. QED BY <2>2, <2>3, PlaceFields
<1> HIDE DEF x
<1>8. p[<<"additive", Read(i + 1, None), depth + 1>>] = x
  <2>1. p[<<"additive", x, depth + 1>>] = x
    <3>1. Current(text, x.at) \notin {"+", "-"}
      BY <1>4, <1>7
    <3>2. QED BY <1>6, <1>7, <3>1, SumStops
  <2>2. QED BY <1>5, <1>6, <2>1 DEF x
<1>9. p[<<"unary", Read(i, None), depth>>] = Primary(p, text, i, depth)
  BY <1>2, <1>4, UnaryCalls
<1> HIDE DEF p
<1>10. Primary(p, text, i, depth) = Read(x.at + 1, x.value)
  BY <1>4, <1>6, <1>7, <1>8 DEF Primary
<1>11. p[<<"unary", Read(i, None), depth>>] = Read(j + 1, v)
  BY <1>7, <1>9, <1>10
<1>12. Means(text, i, j, v)
  BY <1>1, <1>5 DEF Means
<1>13. QED BY <1>11, <1>12 DEF ReadsFactor, p

-----------------------------------------------------------------------------
(* WholeKinds texts *)

LEMMA PartReads ==
  ASSUME NEW text \in Seq(Token), NEW i \in 1 .. Len(text) + 1, NEW j \in 0 .. Len(text),
         NEW depth, Mild(text, i, j, depth)
  PROVE  Readable(text, i, j, depth)
<1> DEFINE Good == {c \in Cells(text) : \A d \in 0 .. MaxDepth :
                      Mild(text, c[1], c[2], d) => Readable(text, c[1], c[2], d)}
<1>1. ASSUME NEW a \in 1 .. Len(text) + 1, NEW b \in 0 .. Len(text), <<a, b>> \in Good,
             NEW d, Mild(text, a, b, d)
      PROVE  Readable(text, a, b, d)
  <2>1. d \in 0 .. MaxDepth
    BY <1>1 DEF Mild
  <2>2. QED BY <1>1, <2>1
<1>2. ASSUME NEW a \in 1 .. Len(text) + 1, NEW b \in 0 .. Len(text),
             \A d \in 0 .. MaxDepth : Mild(text, a, b, d) => Readable(text, a, b, d)
      PROVE  <<a, b>> \in Good
  <2>1. <<a, b>> \in Cells(text)
    BY DEF Cells
  <2>2. QED BY <1>2, <2>1
<1> HIDE DEF Good
<1>3. ASSUME NEW a \in 1 .. Len(text) + 1, NEW b \in 0 .. Len(text),
             a <= b => \A k \in a .. b + 1, l \in a - 1 .. b : k # a \/ l # b => <<k, l>> \in Good
      PROVE  <<a, b>> \in Good
  <2> SUFFICES ASSUME NEW d \in 0 .. MaxDepth, Mild(text, a, b, d)
               PROVE  Readable(text, a, b, d)
    BY <1>2
  <2>1. /\ a <= b /\ a \in Nat \ {0} /\ b \in Nat /\ a <= Len(text) /\ b <= Len(text)
        /\ MeaningOf(text, a, b) \in Defined
    BY MildIn DEF Mild
  <2>2. ASSUME NEW k \in 1 .. Len(text) + 1, NEW l \in 0 .. Len(text),
               k \in a .. b + 1, l \in a - 1 .. b, k # a \/ l # b, NEW e, Mild(text, k, l, e)
        PROVE  Readable(text, k, l, e)
    <3>1. <<k, l>> \in Good
      BY <1>3, <2>1, <2>2
    <3>2. QED BY <1>1, <2>2, <3>1
  <2>3. ReadsFactor(text, a, b, d) => ReadsTerm(text, a, b, d)
    BY <2>1, FactorReadsTerm
  <2>4. ReadsTerm(text, a, b, d) /\ EndsTerm(text, b + 1) => ReadsSum(text, a, b, d)
    BY <2>1, TermReadsSum
  <2>5. ASSUME Outermost(text, a, b) # {} PROVE Readable(text, a, b, d)
    <3> DEFINE k == Max(Outermost(text, a, b))
    <3>1. /\ k \in a + 1 .. b /\ k \in Outermost(text, a, b)
          /\ \A l \in Outermost(text, a, b) : l <= k
          /\ k - 1 \in 0 .. Len(text) /\ k + 1 \in 1 .. Len(text) + 1
          /\ Mild(text, a, k - 1, d) /\ Mild(text, k + 1, b, d)
          /\ Shaped(text, a, k - 1) /\ Shaped(text, k + 1, b)
      BY <2>5, MildOperands
    <3>2. k = Max(Outermost(text, a, b))
      OBVIOUS
    <3> HIDE DEF k
    <3>3. k \in Nat \ {0}
      BY <3>1
    <3>4. Readable(text, a, k - 1, d) /\ Readable(text, k + 1, b, d)
      <4>1. /\ a \in a .. b + 1 /\ k - 1 \in a - 1 .. b /\ k - 1 # b
            /\ k + 1 \in a .. b + 1 /\ b \in a - 1 .. b /\ k + 1 # a
        BY <2>1, <3>1
      <4>2. Readable(text, a, k - 1, d)
        BY <2>2, <3>1, <4>1
      <4>3. Readable(text, k + 1, b, d)
        BY <2>2, <3>1, <4>1
      <4>4. QED BY <4>2, <4>3
    <3>5. Current(text, k) = text[k].kind
      BY <2>1, <3>1, <3>3, TokenKinds
    <3>6. ASSUME NEW operators \in SUBSET Operators, Outermost(text, a, b) = Splits(text, a, b, operators)
          PROVE  Splits(text, k + 1, b, operators) = {} /\ text[k].kind \in operators
      <4>1. text[k].kind \in operators /\ Open(text, a, k) = 0
        BY <2>1, <3>1, <3>6, SplitsIn
      <4>2. ASSUME NEW l \in Splits(text, k + 1, b, operators) PROVE FALSE
        <5>1. l \in (k + 1) + 1 .. b
          <6>1. k + 1 \in Nat
            BY <3>3
          <6>2. QED BY <2>1, <4>2, <6>1, SplitsIn
        <5>2. k < b /\ a <= k /\ l \in k + 2 .. b
          BY <2>1, <3>1, <3>3, <5>1
        <5>3. l \in Splits(text, a, b, operators)
          BY <2>1, <3>3, <4>1, <4>2, <5>2, SplitsAfter
        <5>4. l <= k
          BY <3>1, <3>6, <5>3
        <5>5. QED BY <3>3, <5>2, <5>4
      <4>3. QED BY <4>1, <4>2
    <3>7. CASE Splits(text, a, b, {"+", "-"}) # {}
      <4>1. Splits(text, k + 1, b, {"+", "-"}) = {} /\ text[k].kind \in {"+", "-"}
        <5>1. {"+", "-"} \in SUBSET Operators
          BY DEF Operators
        <5>2. QED BY <3>6, <3>7, <5>1, OutermostIs
      <4>2. ReadsSum(text, a, k - 1, d)
        <5>1. EndsTerm(text, (k - 1) + 1)
          <6>1. (k - 1) + 1 = k
            BY <3>3
          <6>2. QED BY <3>5, <4>1, <6>1 DEF EndsTerm
        <5>2. QED BY <3>4, <5>1 DEF Readable
      <4>3. ReadsTerm(text, k + 1, b, d)
        BY <3>4, <4>1 DEF Readable
      <4>4. EndsTerm(text, b + 1) => ReadsSum(text, a, b, d)
        BY <2>5, <3>2, <4>1, <4>2, <4>3, SumReads
      <4>5. QED BY <2>5, <3>7, <4>4 DEF Readable
    <3>8. CASE Splits(text, a, b, {"+", "-"}) = {}
      <4>1. Splits(text, k + 1, b, {"*", "/"}) = {} /\ text[k].kind \in {"*", "/"}
        <5>1. {"*", "/"} \in SUBSET Operators
          BY DEF Operators
        <5>2. QED BY <3>6, <3>8, <5>1, OutermostIs
      <4>2. Splits(text, a, k - 1, {"+", "-"}) = {} /\ Splits(text, k + 1, b, {"+", "-"}) = {}
        <5> DEFINE h == k - 1
                   operators == {"+", "-"}
        <5>1. h \in Nat /\ h + 1 = k /\ h + 2 = k + 1
          BY <3>3
        <5>2. operators \in SUBSET Operators /\ text[k].kind \in Operators
          BY <4>1 DEF Operators
        <5> HIDE DEF h, operators
        <5>3. Shaped(text, a, h) /\ Shaped(text, h + 2, b) /\ text[h + 1].kind \in Operators
          BY <3>1, <5>1, <5>2 DEF h
        <5>4. a \in Nat \ {0} /\ b \in Nat
          BY <2>1
        <5>5. Splits(text, a, b, operators) =
                (Splits(text, a, h, operators) \cup Splits(text, h + 2, b, operators))
                  \cup IF text[h + 1].kind \in operators THEN {h + 1} ELSE {}
          BY <5>1, <5>2, <5>3, <5>4, SplitsJoined
        <5>6. Splits(text, a, h, operators) = {} /\ Splits(text, k + 1, b, operators) = {}
          BY <3>8, <5>1, <5>5 DEF operators
        <5>7. QED BY <5>6 DEF h, operators
      <4>3. ReadsTerm(text, a, k - 1, d)
        BY <3>4, <4>2 DEF Readable
      <4>4. ReadsFactor(text, k + 1, b, d)
        BY <3>4, <4>1, <4>2, OutermostIs DEF Readable
      <4>5. ReadsTerm(text, a, b, d)
        BY <2>5, <3>2, <4>1, <4>3, <4>4, TermReads
      <4>6. QED BY <2>4, <2>5, <4>5 DEF Readable
    <3>9. QED BY <3>7, <3>8
  <2>6. ASSUME Outermost(text, a, b) = {}, ReadsFactor(text, a, b, d)
        PROVE  Readable(text, a, b, d)
    BY <2>3, <2>4, <2>6 DEF Readable
  <2>7. CASE Outermost(text, a, b) = {} /\ text[a].kind \in {"+", "-"}
    <3>1. /\ a < b /\ a + 1 \in 1 .. Len(text) + 1
          /\ Outermost(text, a + 1, b) = {} /\ Mild(text, a + 1, b, d + 1)
      BY <2>1, <2>7, MildSigned
    <3>2. a + 1 \in a .. b + 1 /\ b \in a - 1 .. b /\ a + 1 # a
      BY <2>1, <3>1
    <3>3. Readable(text, a + 1, b, d + 1)
      BY <2>2, <3>1, <3>2
    <3>4. ReadsFactor(text, a + 1, b, d + 1)
      BY <3>1, <3>3 DEF Readable
    <3>5. ReadsFactor(text, a, b, d)
      BY <2>1, <2>7, <3>4, SignedReads
    <3>6. QED BY <2>6, <2>7, <3>5
  <2>8. CASE Outermost(text, a, b) = {} /\ a = b /\ text[a].kind = "number"
    <3>1. ReadsFactor(text, a, b, d)
      BY <2>8, NumberReads
    <3>2. QED BY <2>6, <2>8, <3>1
  <2>9. CASE Outermost(text, a, b) = {} /\ Enclosed(text, a, b)
    <3>1. /\ a + 1 < b /\ a + 1 \in 1 .. Len(text) + 1 /\ b - 1 \in 0 .. Len(text)
          /\ Mild(text, a + 1, b - 1, d + 1)
      BY <2>9, MildEnclosed
    <3>2. a + 1 \in a .. b + 1 /\ b - 1 \in a - 1 .. b /\ a + 1 # a
      BY <2>1, <3>1
    <3>3. Readable(text, a + 1, b - 1, d + 1)
      BY <2>2, <3>1, <3>2
    <3>4. EndsTerm(text, (b - 1) + 1)
      <4>1. (b - 1) + 1 = b /\ b \in Nat \ {0}
        BY <2>1
      <4>2. Current(text, b) = ")"
        BY <2>1, <2>9, <4>1, TokenKinds DEF Enclosed
      <4>3. QED BY <4>1, <4>2 DEF EndsTerm
    <3>5. ReadsSum(text, a + 1, b - 1, d + 1)
      BY <3>3, <3>4 DEF Readable
    <3>6. ReadsFactor(text, a, b, d)
      BY <2>9, <3>5, EnclosedReads
    <3>7. QED BY <2>6, <2>9, <3>6
  <2>10. CASE /\ Outermost(text, a, b) = {} /\ ~(a <= b /\ text[a].kind \in {"+", "-"})
              /\ ~(a = b /\ text[a].kind = "number") /\ ~Enclosed(text, a, b)
    <3>1. MeaningOf(text, a, b) = Meaningless
      BY <2>10, MeaningEquations
    <3>2. QED BY <2>1, <3>1, DefinedIs
  <2>11. QED BY <2>1, <2>5, <2>7, <2>8, <2>9, <2>10
<1>4. <<i, j>> \in Good
  BY <1>3, PartInduction
<1>5. QED BY <1>1, <1>4

\* A modest text that has a value is read to its end.
LEMMA ReadWhenModest ==
  ASSUME NEW text \in Seq(Token), text # << >>, Meaning(text) \in Defined, Modest(text)
  PROVE  \E v : /\ v \in Values /\ Represents(v, Meaning(text).value)
                /\ Fits(Meaning(text).value) /\ Meaning(text).value \in Quotient
                /\ Parse(text) = Read(Len(text) + 1, v)
<1> DEFINE n == Len(text)
<1>1. n \in Nat \ {0} /\ 1 \in 1 .. n + 1 /\ n \in 0 .. n
  OBVIOUS
<1>2. Meaning(text) = MeaningOf(text, 1, n)
  BY MeaningIs DEF MeaningOf
<1>3. Mild(text, 1, n, 0)
  <2>1. \A part \in MeaningOf(text, 1, n).parts : Fits(part)
    BY <1>2 DEF Modest, Fits
  <2>2. Cardinality(Nested(text, 1, n)) <= MaxDepth /\ Cardinality(Nested(text, 1, n)) \in Nat
    <3>1. Cardinality(Nested(text, 1, n)) \in Nat
      <4>1. 1 \in Nat /\ n \in Nat /\ 1 <= 1 /\ n <= n
        BY <1>1
      <4> HIDE DEF n
      <4>2. QED BY <4>1, NestedIs
    <3>2. QED BY <3>1, Zenon DEF Modest, Nested
  <2>3. 0 \in 0 .. MaxDepth /\ 0 + Cardinality(Nested(text, 1, n)) <= MaxDepth
    BY <2>2, RangesAre
  <2>4. Fresh(text, 1)
    BY DEF Fresh
  <2>5. QED BY <1>2, <2>1, <2>3, <2>4 DEF Mild
<1>4. Current(text, n + 1) = "eof"
  <2>1. n + 1 \in Nat \ {0} /\ n + 1 > n
    BY <1>1
  <2>2. QED BY <2>1, TokenKinds
<1>5. ReadsSum(text, 1, n, 0)
  <2>1. Readable(text, 1, n, 0)
    BY <1>1, <1>3, PartReads
  <2>2. EndsTerm(text, n + 1)
    BY <1>4 DEF EndsTerm
  <2>3. QED BY <2>1, <2>2 DEF Readable
<1>6. PICK v : /\ Means(text, 1, n, v)
               /\ Parser(text)[<<"additive", Read(1, None), 0>>]
                    = Parser(text)[<<"additive", Read(n + 1, v), 0>>]
  BY <1>5 DEF ReadsSum
<1>7. v \in Values /\ Represents(v, Meaning(text).value)
  BY <1>2, <1>6 DEF Means
<1> DEFINE x == Read(n + 1, v)
<1>8. x \in Places /\ x.at = n + 1 /\ x.value # None
  <2>1. 1 \in Nat \ {0} /\ n \in Nat
    BY <1>1
  <2>2. QED BY <1>7, <2>1, ReadPlaces
<1>9. Parser(text)[<<"additive", x, 0>>] = x
  <2>1. 0 \in 0 .. MaxDepth
    BY RangesAre
  <2>2. Current(text, x.at) \notin {"+", "-"}
    BY <1>4, <1>8
  <2> HIDE DEF x
  <2>3. QED BY <1>8, <2>1, <2>2, SumStops
<1>10. Parse(text) = x
  BY <1>6, <1>9, ParseIs
<1>11. Fits(Meaning(text).value) /\ Meaning(text).value \in Quotient
  BY <1>1, <1>2, <1>3, MildIn
<1>12. QED BY <1>7, <1>10, <1>11

\* The parser gives a text the value it has in arithmetic or none, what is no expression
\* has none, and no operation on modest numbers is refused.
THEOREM ExpressionsMeanWhatTheySay ==
  ASSUME NEW text \in Seq(Token), text # << >>
  PROVE  MeansWhatItSays(text)
<1> DEFINE result == evaluate_expression(text)
           m == Meaning(text)
           r == Parse(text)
<1>1. result = Evaluated(text, r)
  BY DEF evaluate_expression
<1>2. ASSUME result # Error
      PROVE  /\ m # Meaningless
             /\ m \in Defined => Same(result, m.value)
  <2>1. /\ r # Error /\ Current(text, r.at) = "eof"
        /\ result = [num |-> Signed(r.value), den |-> r.value.den]
    BY <1>1, <1>2 DEF Evaluated
  <2>2. Stands(r.value, m)
    BY <2>1, ReadAsMeant
  <2> HIDE DEF result, m, r
  <2>3. result.num = Signed(r.value) /\ result.den = r.value.den
    BY <2>1
  <2>4. m # Meaningless
    BY <2>2, DefinedIs, MeaninglessIs DEF Stands
  <2>5. ASSUME m \in Defined PROVE Same(result, m.value)
    <3>1. Represents(r.value, m.value)
      BY <2>2, <2>5, DefinedIs DEF Stands
    <3>2. QED BY <2>3, <3>1 DEF Represents, Equals, Same
  <2>6. QED BY <2>4, <2>5
<1>3. ASSUME m \in Defined, Modest(text) PROVE result # Error
  <2>1. PICK v : /\ v \in Values /\ Represents(v, m.value)
                 /\ Fits(m.value) /\ m.value \in Quotient
                 /\ r = Read(Len(text) + 1, v)
    BY <1>3, ReadWhenModest
  <2>2. /\ v.num \in Nat /\ v.den \in Nat \ {0} /\ v.num <= Int32Max * v.den
        /\ v # Error
    BY <2>1, FitsNumerator, ValueFields DEF Represents
  <2>3. v.num <= Float32Max * v.den
    <3> DEFINE d == v.den
               e == Float32Max - Int32Max
    <3>1. d \in Nat /\ e \in Nat /\ Float32Max = Int32Max + e /\ Int32Max \in Nat
      BY <2>2, RangesAre
    <3>2. e * d \in Nat
      BY <3>1, ProductNat
    <3>3. Float32Max * d = Int32Max * d + e * d /\ Int32Max * d \in Int
      BY <3>1, ProductType
    <3>4. QED BY <2>2, <3>2, <3>3
  <2>4. r # Error /\ r.at = Len(text) + 1 /\ r.value = v
    <3>1. Len(text) + 1 \in Nat \ {0}
      OBVIOUS
    <3>2. r \in Places /\ r.at = Len(text) + 1 /\ r.value = v
      BY <2>1, <2>2, <3>1, ReadIs
    <3> HIDE DEF r
    <3>3. QED BY <3>2, PlaceFields
  <2>5. Current(text, r.at) = "eof"
    <3>1. Len(text) + 1 \in Nat \ {0} /\ Len(text) + 1 > Len(text)
      OBVIOUS
    <3>2. QED BY <2>4, <3>1, TokenKinds
  <2> HIDE DEF r
  <2>6. Evaluated(text, r) = [num |-> Signed(v), den |-> v.den]
    BY <2>2, <2>3, <2>4, <2>5 DEF Evaluated, Finite
  <2>7. DOMAIN [num |-> Signed(v), den |-> v.den] = {"num", "den"} /\ DOMAIN Error = {"kind"}
    BY DEF Error
  <2>8. QED BY <1>1, <2>6, <2>7 DEF r
<1>4. m \in Meanings
  <2>1. 1 \in 1 .. Len(text) + 1 /\ Len(text) \in 0 .. Len(text)
    OBVIOUS
  <2>2. QED BY <2>1, MeaningIs, TableIs DEF MeaningOf
<1> HIDE DEF result, m
<1>5. Agrees(text, result, m)
  <2>1. CASE m = Meaningless
    BY <1>2, <2>1 DEF Agrees
  <2>2. CASE m = Undefined
    BY <2>2, MeaninglessIs DEF Agrees
  <2>3. CASE m \in Defined
    BY <1>2, <1>3, <2>3, DefinedIs DEF Agrees
  <2>4. QED BY <1>4, <2>1, <2>2, <2>3 DEF Meanings
<1>6. QED BY <1>5 DEF MeansWhatItSays, result, m

\* The texts of the run are texts.
LEMMA TokensAre == Tokens \subseteq Token
<1>1. ASSUME NEW form \in {"integer", "point", "exponent"}, NEW num \in Nat, NEW den \in Nat \ {0},
             form = "integer" => den = 1
      PROVE  Literal(form, num, den) \in Token
  BY <1>1 DEF Literal, Literals, Token
<1>2. ASSUME NEW s \in Symbols PROVE Symbol(s) \in Token
  BY DEF Symbol, Token
<1>3. \A n \in Nat : Whole(n) \in Token
  BY <1>1 DEF Whole
<1>4. Half \in Token /\ Literal("exponent", 3, 1) \in Token
  BY <1>1 DEF Half
<1>5. \A s \in {"+", "-", "*", "/", "(", ")"} : Symbol(s) \in Token
  BY <1>2 DEF Symbols
<1>6. QED BY <1>3, <1>4, <1>5 DEF Tokens

\* Whatever requests there are, every text of the run is given the value it has in
\* arithmetic, or none (legacy_calculation.py:123-352).
THEOREM PricesAreReadAsWritten == RecordSpec => []EvaluatesAsWritten
<1>1. AllRead
  <2> SUFFICES ASSUME NEW n \in 1 .. MaxText, NEW text \in Misread(n) PROVE FALSE
    BY DEF AllRead
  <2>1. text \in [1 .. n -> Tokens] /\ ~MeansWhatItSays(text)
    BY DEF Misread
  <2>2. n \in Nat /\ 1 <= n
    BY TextAssumption
  <2>3. text \in Seq(Token)
    BY <2>1, <2>2, TokensAre
  <2>4. text # << >>
    BY <2>1, <2>2
  <2>5. QED BY <2>1, <2>3, <2>4, ExpressionsMeanWhatTheySay
<1>2. EvaluatesAsWritten
  BY <1>1 DEF EvaluatesAsWritten
<1>3. QED BY <1>2, PTL

=============================================================================
