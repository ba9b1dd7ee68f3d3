-------------------------- MODULE VariantPositions --------------------------
(***************************************************************************)
(* update_cook renumbers the vote variants of a cook                       *)
(* (backend/app/services/cooks.py:356-368): first every row is parked      *)
(* above all positions in use, then every row gets the position that was   *)
(* asked for.  Each row is an UPDATE of its own, and PostgreSQL checks the *)
(* unique constraint (cook_id, position) after every one of them.          *)
(***************************************************************************)
EXTENDS Naturals

CONSTANTS
  Variants,      \* the vote variants of the cook
  MaxPosition,   \* bound: positions a request names
  Offset         \* the place of a row among the rows that were read

Positions == 0 .. MaxPosition

\* Contract: positions are not negative and no two variants share one.
Numbering == {f \in [Variants -> Positions] : \A v, w \in Variants : f[v] = f[w] => v = w}

ASSUME VariantAssumption ==
  /\ MaxPosition \in Nat
  /\ Offset \in [Variants -> Nat]
  /\ \A v, w \in Variants : Offset[v] = Offset[w] => v = w

VARIABLES
  position,    \* cook_vote_variants.position
  requested,   \* the positions of the request
  temporary,   \* temporary_position
  parked,      \* rows whose first UPDATE is done
  placed,      \* rows whose second UPDATE is done
  phase,       \* "idle", "parking", "placing"; "failed" when a constraint is broken
  before       \* history: the positions when the request began

vars == <<position, requested, temporary, parked, placed, phase, before>>

Init ==
  /\ position \in Numbering
  /\ requested = position
  /\ before = position
  /\ temporary = 0
  /\ parked = {} /\ placed = {}
  /\ phase = "idle"

\* Fault: parking starts behind the largest stored position only.
Above_stored(t, old, new) ==
  /\ \A v \in Variants : t > old[v]
  /\ \E v \in Variants : t = old[v] + 1

\* 1 + max of the stored and the requested positions.
Above(t, old, new) ==
  /\ \A v \in Variants : t > old[v] /\ t > new[v]
  /\ \E v \in Variants : t = old[v] + 1 \/ t = new[v] + 1

Begin(new, t) ==
  /\ phase = "idle"
  /\ Above(t, position, new)
  /\ requested' = new
  /\ temporary' = t
  /\ before' = position
  /\ parked' = {} /\ placed' = {}
  /\ phase' = "parking"
  /\ UNCHANGED position

\* UPDATE of one row; the constraint refuses a position another row has.
Put(v, p) ==
  /\ position' = [position EXCEPT ![v] = p]
  /\ phase' = IF \E w \in Variants \ {v} : position[w] = p THEN "failed" ELSE phase

Park(v) ==
  /\ phase = "parking"
  /\ v \notin parked
  /\ Put(v, temporary + Offset[v])
  /\ parked' = parked \cup {v}
  /\ UNCHANGED <<requested, temporary, placed, before>>

\* The first flush is through.
Flushed ==
  /\ phase = "parking" /\ parked = Variants
  /\ phase' = "placing"
  /\ UNCHANGED <<position, requested, temporary, parked, placed, before>>

Place(v) ==
  /\ phase = "placing"
  /\ v \notin placed
  /\ Put(v, requested[v])
  /\ placed' = placed \cup {v}
  /\ UNCHANGED <<requested, temporary, parked, before>>

Finish ==
  /\ phase = "placing" /\ placed = Variants
  /\ phase' = "idle"
  /\ UNCHANGED <<position, requested, temporary, parked, placed, before>>

\* Fault: the first flush had been committed.
Rollback_partial ==
  /\ phase \in {"parking", "placing"}
  /\ phase' = "idle"
  /\ requested' = before
  /\ UNCHANGED <<position, temporary, parked, placed, before>>

\* Something else in the request is refused: the transaction is rolled back.
Rollback ==
  /\ phase \in {"parking", "placing"}
  /\ phase' = "idle"
  /\ position' = before
  /\ requested' = before
  /\ UNCHANGED <<temporary, parked, placed, before>>

Next ==
  \/ \E new \in Numbering : \E t \in 0 .. MaxPosition + 1 : Begin(new, t)
  \/ \E v \in Variants : Park(v) \/ Place(v)
  \/ Flushed \/ Finish \/ Rollback

Spec == Init /\ [][Next]_vars

-----------------------------------------------------------------------------
(* Properties *)

\* No UPDATE in the middle of the renumbering runs into the unique constraint,
\* in whatever order the rows are written (cooks.py:356-368, entities.py:332).
NeverCollides == phase # "failed"

\* Between requests the variants are numbered as the last accepted request said.
RequestedWhenIdle == phase = "idle" => position = requested

-----------------------------------------------------------------------------
(* The inductive invariant of VariantPositionsProofs *)

StateOK ==
  /\ position \in [Variants -> Nat]
  /\ requested \in Numbering
  /\ before \in Numbering
  /\ temporary \in Nat
  /\ parked \subseteq Variants /\ placed \subseteq Variants
  /\ phase \in {"idle", "parking", "placing"}

RowsWhereTheyBelong ==
  /\ phase = "idle" => position = requested
  /\ phase # "idle" => Above(temporary, before, requested)
  /\ phase = "parking" => placed = {}
  /\ phase = "parking" =>
       \A v \in Variants :
         position[v] = IF v \in parked THEN temporary + Offset[v] ELSE before[v]
  /\ phase = "placing" =>
       \A v \in Variants :
         position[v] = IF v \in placed THEN requested[v] ELSE temporary + Offset[v]

IInv == StateOK /\ RowsWhereTheyBelong

=============================================================================
