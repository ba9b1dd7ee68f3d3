---------------------------- MODULE CookCharges ----------------------------
(***************************************************************************)
(* What the members of a cook are charged.  The program computes it twice: *)
(* calculate_cook (backend/app/domain/legacy_calculation.py) for the pages *)
(* about cooks, from product prices and the places of the votes in the     *)
(* list of vote values, and calculate_cook_charges                         *)
(* (backend/app/services/balances.py) for the balances, from the total the *)
(* cook row has cached and the values joined to the votes.                 *)
(*                                                                         *)
(* Expressions says what the price of a product is, from its text.         *)
(*                                                                         *)
(* Numbers are exact here: prices are whole, vote values are whole, and a  *)
(* discount or the sale of a cook counts parts of One.  The float32        *)
(* rounding of the intermediate results is left out.                       *)
(***************************************************************************)
EXTENDS Expressions, Functions

CONSTANTS
  One,          \* the discount 1.0, no discount
  Unreadable,   \* the value of an expression that cannot be evaluated
  NoTotal,      \* total_price None
  Failed        \* a calculation that ends in an error

ASSUME ChargesAssumption ==
  /\ One \in Nat \ {0}
  /\ NoTotal \notin Int
  /\ Unreadable \notin Int

\* The range of a charge.
Int32 == -Int32Max - 1 .. Int32Max

Magnitude(n) == IF n < 0 THEN -n ELSE n

truncating_integer_division(a, b) ==
  LET quotient == Magnitude(a) \div Magnitude(b)
  IN  IF (a < 0) # (b < 0) THEN -quotient ELSE quotient

\* Fault: rounding to the nearest five.
ceil_to_5_nearest(price) == truncating_integer_division(price + 2, 5) * 5

\* Of the whole part of a price.
ceil_to_5(price) == truncating_integer_division(price + 4, 5) * 5

\* The part of total that falls to a weight out of all weights, rounded.
Rounded(total, weight, all) == ceil_to_5(truncating_integer_division(total * weight, all))

\* The price and its rounding are both checked.
TooLarge(total, weight, all) ==
  \/ truncating_integer_division(total * weight, all) \notin Int32
  \/ Rounded(total, weight, all) \notin Int32

\* Products without a name or an expression are not included, an unreadable
\* expression spoils the total.
TotalPrice(products) ==
  LET included == {i \in DOMAIN products : products[i].complete}
  IN  IF \E i \in included : products[i].price = Unreadable
      THEN NoTotal
      ELSE SumFunctionOnSet([i \in included |-> products[i].price], included)

\* What a member counts, given the sum of the votes and the sale of the cook.
EffectiveWeight(vote, member, sale) ==
  vote * member.sale * (IF member.active THEN sale ELSE One)

-----------------------------------------------------------------------------

\* Members name their votes by index, one member per user.
calculate_cook(products, values, members, sale) ==
  LET total == TotalPrice(products)
      weight == [m \in members |-> EffectiveWeight(SumFunctionOnSet(values, m.indexes), m, sale)]
      all == SumFunction(weight)
      charge == [m \in members |-> Rounded(total, weight[m], all)]
  IN  IF \/ total = NoTotal
         \/ all = 0
         \/ \E m \in members : TooLarge(total, weight[m], all)
         \/ SumFunction(charge) \notin Int32
      THEN Failed
      ELSE [u \in {m.user : m \in members} |-> charge[CHOOSE m \in members : m.user = u]]

\* The rows of one cook; a cook without members has none.
calculate_cook_charges(total, value, members, sale) ==
  LET weight == [m \in members |-> EffectiveWeight(SumFunctionOnSet(value, m.votes), m, sale)]
      all == SumFunction(weight)
  IN  IF members = {}
      THEN << >>
      ELSE IF \/ total = NoTotal
              \/ all = 0
              \/ \E m \in members : TooLarge(total, weight[m], all)
      THEN Failed
      ELSE [u \in {m.user : m \in members} |->
              Rounded(total, weight[CHOOSE m \in members : m.user = u], all)]

=============================================================================
