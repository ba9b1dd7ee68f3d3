------------------------------ MODULE MCImport ------------------------------
(* An instance of Import for TLC: two manifests that share no user. *)
EXTENDS Import, TLC

CONSTANTS old, other

MCRowsOf == [m \in Manifests |-> IF m = old THEN {0, 1} ELSE {2}]

SessionSymmetry == Permutations(Sessions)

=============================================================================
