----------------------------- MODULE Expressions -----------------------------
(***************************************************************************)
(* The price expressions of backend/app/domain/legacy_calculation.py: a    *)
(* recursive-descent parser that evaluates as it reads, in the kinds of    *)
(* numbers of the DataTable it stands in for, and what the texts mean.     *)
(*                                                                         *)
(* A text is a sequence of tokens; blanks, the comma written for a point   *)
(* and the limits of its length are left out.  Numbers are exact: rounding *)
(* to 29 digits, to double and to float32 is left out, the ranges of the   *)
(* kinds and what is not finite are not.                                   *)
(***************************************************************************)
EXTENDS Integers, Sequences, FiniteSetsExt

CONSTANTS
  Int32Max, Int64Max, DecimalMax, Float32Max,   \* the largest of each kind
  MaxDepth                                      \* MAX_NESTING_DEPTH

\* Each kind of number has the range of the one before it and more.
ASSUME RangesAssumption ==
  /\ {Int32Max, Int64Max, DecimalMax, Float32Max, MaxDepth} \subseteq Nat
  /\ Int32Max < Int64Max /\ Int64Max < DecimalMax /\ DecimalMax < Float32Max

\* A literal num / den, and how it is written.
Literal(form, num, den) == [kind |-> "number", form |-> form, num |-> num, den |-> den]

Symbol(s) == [kind |-> s]

Error == [kind |-> "error"]

-----------------------------------------------------------------------------
(* Numbers: a sign and a quotient of naturals.  1 / 0 is infinite, 0 / 0 is NaN; zeros
   of Decimal and double keep their sign. *)

Number(kind, sign, num, den) == [kind |-> kind, sign |-> sign, num |-> num, den |-> den]

Finite(x) == x.den # 0

IsZero(x) == Finite(x) /\ x.num = 0

Signed(x) == x.sign * x.num

\* _checked_integer and _checked_decimal; a double is never refused.
Checked(x) ==
  CASE x.kind \in {"int32", "int64"} ->
         LET max == IF x.kind = "int32" THEN Int32Max ELSE Int64Max
         IN  IF Signed(x) \in -max - 1 .. max
             THEN [x EXCEPT !.sign = IF x.num = 0 THEN 1 ELSE x.sign]
             ELSE Error
    [] x.kind = "decimal" -> IF x.num <= DecimalMax * x.den THEN x ELSE Error
    [] x.kind = "double" -> x

\* The kind of a literal depends on how it is written and on its size.
literal(token) ==
  LET Of(kind) == Number(kind, 1, token.num, token.den)
  IN  CASE token.form = "exponent" -> Of("double")
        [] token.form = "point" -> Checked(Of("decimal"))
        [] token.form = "integer" ->
             Of(IF token.num <= Int32Max THEN "int32"
                ELSE IF token.num <= Int64Max THEN "int64" ELSE "double")

\* A Decimal minus zero is plus zero.
unary(operator, x) ==
  IF operator = "+" THEN x
  ELSE Checked([x EXCEPT !.sign = IF x.kind = "decimal" /\ IsZero(x) THEN 1 ELSE -x.sign])

common_arithmetic_kind(k, l) ==
  IF "double" \in {k, l} THEN "double"
  ELSE IF "decimal" \in {k, l} THEN "decimal"
  ELSE IF "int64" \in {k, l} THEN "int64" ELSE "int32"

Times(kind, x, y) == Number(kind, x.sign * y.sign, x.num * y.num, x.den * y.den)

Plus(kind, x, y) ==
  LET sum == Signed(x) * y.den + Signed(y) * x.den
  IN  IF ~Finite(x) /\ ~Finite(y) /\ x.num = 1 /\ y.num = 1 /\ x.sign = y.sign
      THEN Number(kind, x.sign, 1, 0)
      ELSE Number(kind, IF sum < 0 \/ (sum = 0 /\ x.sign = -1 /\ y.sign = -1) THEN -1 ELSE 1,
                  IF sum < 0 THEN -sum ELSE sum, x.den * y.den)

\* Integers divide as doubles; only Decimal refuses to divide by zero.
divide(x, y) ==
  IF common_arithmetic_kind(x.kind, y.kind) = "decimal"
  THEN IF IsZero(y) THEN Error
       ELSE Checked(Number("decimal", x.sign * y.sign, x.num * y.den, x.den * y.num))
  ELSE IF IsZero(y)
       THEN Number("double", x.sign * y.sign, IF IsZero(x) THEN 0 ELSE 1, 0)
       ELSE Number("double", x.sign * y.sign, x.num * y.den, x.den * y.num)

binary(operator, x, y) ==
  LET kind == common_arithmetic_kind(x.kind, y.kind)
  IN  CASE operator = "/" -> divide(x, y)
        [] operator = "*" -> Checked(Times(kind, x, y))
        [] operator = "+" -> Checked(Plus(kind, x, y))
        [] operator = "-" -> Checked(Plus(kind, x, [y EXCEPT !.sign = -y.sign]))

-----------------------------------------------------------------------------
(* The parser *)

Kinds == {"int32", "int64", "decimal", "double"}

Values == [kind : Kinds, sign : {-1, 1}, num : Nat, den : Nat]

None == [kind |-> "none"]

\* How far a text is read, and the value read last.
Places == [at : Nat \ {0}, value : Values \cup {None}]

Read(at, value) == IF value = Error THEN Error ELSE [at |-> at, value |-> value]

Current(text, at) == IF at <= Len(text) THEN text[at].kind ELSE "eof"

\* A method of the parser is an operator.  The methods it calls are p, a function of their
\* names, of the place where they begin and of how deep they are nested.

Calls == {"additive", "multiplicative", "unary", "primary"} \X Places \X (0 .. MaxDepth)

Joined(text, left, right) ==
  IF right = Error THEN Error
  ELSE Read(right.at, binary(Current(text, left.at), left.value, right.value))

Continue(p, method, left, depth) == IF left = Error THEN Error ELSE p[<<method, left, depth>>]

\* The loop: left is followed by one of the operators and an operand, and so on.
Chain(p, text, left, depth, method, operators, operand) ==
  IF left = Error \/ Current(text, left.at) \notin operators
  THEN left
  ELSE Continue(p, method,
                Joined(text, left, p[<<operand, Read(left.at + 1, None), depth>>]), depth)

\* left is None at the start of the loop.
Additive(p, text, left, depth) ==
  Chain(p, text, IF left.value = None THEN p[<<"multiplicative", left, depth>>] ELSE left,
        depth, "additive", {"+", "-"}, "multiplicative")

Multiplicative(p, text, left, depth) ==
  Chain(p, text, IF left.value = None THEN p[<<"unary", left, depth>>] ELSE left,
        depth, "multiplicative", {"*", "/"}, "unary")

\* Fault: a sign applies to the whole sum that follows it.
Unary_sum(p, text, at, depth) ==
  IF Current(text, at) \notin {"+", "-"} THEN p[<<"primary", Read(at, None), depth>>]
  ELSE IF depth >= MaxDepth THEN Error
  ELSE LET x == p[<<"additive", Read(at + 1, None), depth + 1>>]
       IN  IF x = Error THEN Error ELSE Read(x.at, unary(Current(text, at), x.value))

Unary(p, text, at, depth) ==
  IF Current(text, at) \notin {"+", "-"} THEN p[<<"primary", Read(at, None), depth>>]
  ELSE IF depth >= MaxDepth THEN Error
  ELSE LET x == p[<<"unary", Read(at + 1, None), depth + 1>>]
       IN  IF x = Error THEN Error ELSE Read(x.at, unary(Current(text, at), x.value))

Primary(p, text, at, depth) ==
  CASE Current(text, at) = "number" -> Read(at + 1, literal(text[at]))
    [] Current(text, at) = "(" ->
         IF depth >= MaxDepth THEN Error
         ELSE LET x == p[<<"additive", Read(at + 1, None), depth + 1>>]
              IN  IF x = Error \/ Current(text, x.at) # ")" THEN Error
                  ELSE Read(x.at + 1, x.value)
    [] OTHER -> Error

Called(p, text, method, place, depth) ==
  CASE method = "additive" -> Additive(p, text, place, depth)
    [] method = "multiplicative" -> Multiplicative(p, text, place, depth)
    [] method = "unary" -> Unary(p, text, place.at, depth)
    [] method = "primary" -> Primary(p, text, place.at, depth)

Parse(text) ==
  LET p[call \in Calls] == Called(p, text, call[1], call[2], call[3])
  IN  p[<<"additive", Read(1, None), 0>>]

\* A quotient, or Error.  What is not finite fails in float32.
Evaluated(text, x) ==
  IF /\ x # Error
     /\ Current(text, x.at) = "eof"
     /\ Finite(x.value) /\ x.value.num <= Float32Max * x.value.den
  THEN [num |-> Signed(x.value), den |-> x.value.den]
  ELSE Error

evaluate_expression(text) ==
  IF text = << >> THEN [num |-> 0, den |-> 1] ELSE Evaluated(text, Parse(text))

-----------------------------------------------------------------------------
(* What a text means: split at the operator that is applied last.  Partial results are
   collected, as quotients with positive denominators. *)

\* Parentheses that are open at k, in the part of a text that begins at i.
Open(text, i, k) ==
  Cardinality({l \in i .. k : text[l].kind = "("}) - Cardinality({l \in i .. k : text[l].kind = ")"})

\* Binary operators outside parentheses, in the part from i to j.
Splits(text, i, j, operators) ==
  {k \in i + 1 .. j : /\ text[k].kind \in operators
                      /\ text[k - 1].kind \in {"number", ")"}
                      /\ Open(text, i, k) = 0}

Apply(operator, a, b) ==
  CASE operator = "+" -> [num |-> a.num * b.den + b.num * a.den, den |-> a.den * b.den]
    [] operator = "-" -> [num |-> a.num * b.den - b.num * a.den, den |-> a.den * b.den]
    [] operator = "*" -> [num |-> a.num * b.num, den |-> a.den * b.den]
    [] operator = "/" -> IF b.num < 0 THEN [num |-> -a.num * b.den, den |-> -a.den * b.num]
                         ELSE [num |-> a.num * b.den, den |-> a.den * b.num]

\* What is no expression, and what divides by zero.
Meaningless == [kind |-> "meaningless"]
Undefined == [kind |-> "undefined"]

With(value, parts) == [value |-> value, parts |-> parts \cup {value}]

Signs(sign, a) ==
  IF a \in {Meaningless, Undefined} THEN a
  ELSE With(IF sign = "-" THEN [a.value EXCEPT !.num = -@] ELSE a.value, a.parts)

Joins(operator, a, b) ==
  IF Meaningless \in {a, b} THEN Meaningless
  ELSE IF Undefined \in {a, b} \/ (operator = "/" /\ b.value.num = 0) THEN Undefined
  ELSE With(Apply(operator, a.value, b.value), a.parts \cup b.parts)

\* The operator that is applied last is the last one of those that bind least.
Outermost(text, i, j) ==
  IF Splits(text, i, j, {"+", "-"}) # {} THEN Splits(text, i, j, {"+", "-"})
  ELSE Splits(text, i, j, {"*", "/"})

Halves(text, m, i, j, k) == Joins(text[k].kind, m[<<i, k - 1>>], m[<<k + 1, j>>])

Enclosed(text, i, j) ==
  /\ i + 1 < j /\ text[i].kind = "(" /\ text[j].kind = ")"
  /\ \A k \in i .. j - 1 : Open(text, i, k) > 0

\* What the part from i to j means, given what the parts of it do.
Meant(m, text, i, j) ==
  IF Outermost(text, i, j) # {}
  THEN Halves(text, m, i, j, Max(Outermost(text, i, j)))
  ELSE CASE i <= j /\ text[i].kind \in {"+", "-"} -> Signs(text[i].kind, m[<<i + 1, j>>])
         [] i = j /\ text[i].kind = "number" ->
              With([num |-> text[i].num, den |-> text[i].den], {})
         [] Enclosed(text, i, j) -> m[<<i + 1, j - 1>>]
         [] OTHER -> Meaningless

\* The value and the partial results of a text that has them.
Meaning(text) ==
  LET m[part \in (1 .. Len(text) + 1) \X (0 .. Len(text))] == Meant(m, text, part[1], part[2])
  IN  m[<<1, Len(text)>>]

Same(a, b) == a.num * b.den = b.num * a.den

\* Every partial result fits the smallest kind, and there is little to nest.
Modest(text) ==
  /\ \A part \in Meaning(text).parts : part.num \in -Int32Max * part.den .. Int32Max * part.den
  /\ Cardinality({i \in 1 .. Len(text) :
        \/ text[i].kind = "("
        \/ /\ text[i].kind \in {"+", "-"}
           /\ i = 1 \/ text[i - 1].kind \notin {"number", ")"}}) <= MaxDepth

\* A text is given the value it has in arithmetic or none, what is no expression has
\* none, and nothing is refused as long as the numbers in it are modest.
Agrees(text, result, meaning) ==
  CASE meaning = Meaningless -> result = Error
    [] meaning = Undefined -> TRUE
    [] OTHER -> IF result = Error THEN ~Modest(text) ELSE Same(result, meaning.value)

MeansWhatItSays(text) == Agrees(text, evaluate_expression(text), Meaning(text))

=============================================================================
