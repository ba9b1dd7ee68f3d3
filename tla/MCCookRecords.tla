--------------------------- MODULE MCCookRecords ---------------------------
(* An instance of CookRecords for TLC: variants are numbers, a roster is written
   as who takes part (active), who only pays (passive), and their votes. *)
EXTENDS CookRecords

CONSTANTS
  anna, boris,
  MaxText   \* bound: the tokens of the texts that are tried

ASSUME TextAssumption == MaxText \in Nat

MCOffset == [v \in Variants |-> 2 - v]

Active(u, votes) == [user |-> u, active |-> TRUE, votes |-> votes]

Passive(u, votes) == [user |-> u, active |-> FALSE, votes |-> votes]

MCSalesOf == [u \in {anna, boris} |-> IF u = anna THEN {10} ELSE {10, 7}]

\* The first two come from imports only.
MCRosters ==
  {{},
   {Active(anna, {}), Passive(boris, {2})},
   {Active(anna, {1})},
   {Active(anna, {1}), Passive(boris, {2})},
   {Active(anna, {1, 2}), Active(boris, {1})}}

MCVoteTables == {[v \in Variants |-> v], [v \in Variants |-> IF v = 1 THEN 0 ELSE 3]}

-----------------------------------------------------------------------------
(* Prices are written as expressions *)

Whole(n) == Literal("integer", n, 1)

Half == Literal("point", 1, 2)

\* The values of the texts below are whole.
Price(value) == IF value = Error THEN Unreadable ELSE value.num \div value.den

Product(text) == [complete |-> TRUE, price |-> Price(evaluate_expression(text))]

\* 17 and 2 + 6 * 0.5; one with a division by zero; one too large for Int32Max when it
\* is rounded up; a refund.
MCReceipts ==
  {<<Product(<<Whole(17)>>),
     Product(<<Whole(2), Symbol("+"), Whole(6), Symbol("*"), Half>>),
     [complete |-> FALSE, price |-> Unreadable]>>,
   <<Product(<<Whole(8)>>), Product(<<Whole(8), Symbol("/"), Whole(0)>>)>>,
   <<Product(<<Whole(2), Symbol("*"), Whole(14)>>)>>,
   <<Product(<<Whole(2), Symbol("-"), Whole(20)>>)>>}

Tokens ==
  {Whole(0), Whole(2), Whole(20), Whole(40), Half, Literal("exponent", 3, 1)}
    \cup {Symbol(s) : s \in {"+", "-", "*", "/", "(", ")"}}

Misread(n) == {text \in [1 .. n -> Tokens] : ~MeansWhatItSays(text)}

AllRead == \A n \in 1 .. MaxText : Misread(n) = {}

\* Whenever a request begins to read prices, every text is given the value it has in
\* arithmetic, or none; what is no expression has none, and modest numbers are never
\* refused (legacy_calculation.py:123-352).
EvaluatesAsWritten == phase = "idle" => AllRead

=============================================================================
