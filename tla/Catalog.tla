------------------------------ MODULE Catalog ------------------------------
(***************************************************************************)
(* Users and dishes saved by requests that overlap                         *)
(* (backend/app/services/catalog.py), statement by statement in READ       *)
(* COMMITTED sessions.  What PostgreSQL lets wait is explicit: the         *)
(* advisory lock of create_user, the row lock of a rename, rows another    *)
(* session has deleted, keys another session has inserted.                 *)
(*                                                                         *)
(* There is one dish.  It has two lists of rows, portions and ingredients, *)
(* numbered from zero: the rows one save writes are one element, the save. *)
(* The page saves the whole dish with no version of what it was filled     *)
(* from.                                                                   *)
(* The contacts of a user are a third list of the same kind.               *)
(***************************************************************************)
EXTENDS Naturals, FiniteSets, FiniteSetsExt

CONSTANTS
  Sessions,
  MaxNumber,   \* bound: the largest legacy_id
  MaxSaves,    \* bound: saves of the dish
  Manifests,   \* imports there may be (module Import)
  Web,         \* origin of a user that create_user has added
  Nothing,     \* no row
  Idle         \* a session without a request

Numbers == 0 .. MaxNumber

Lists == {"variants", "ingredients"}

\* A request body: does it change the name, which lists have rows?  Save 0 is an import.
Save == [id : 0 .. MaxSaves, renames : BOOLEAN, variants : BOOLEAN, ingredients : BOOLEAN]

Rows == SUBSET Save

Dish == [name : Save, variants : Rows, ingredients : Rows]

\* seen: the rows a DELETE has found; gone: those this session has deleted;
\* numbers: the legacy ids it inserts; alone: nobody has committed since it began.
Work ==
  [kind : {"user", "create", "save", "import"},
   step : {"lock", "max", "rename", "find", "delete", "insert", "commit", "receipt",
           "run", "runs", "users", "dishes", "add users", "add dish"},
   save : Save \cup {Nothing}, list : Lists, seen : Rows, gone : [Lists -> Rows],
   numbers : SUBSET Numbers, manifest : Manifests \cup {Nothing}, alone : BOOLEAN]

ASSUME CatalogAssumption ==
  /\ MaxNumber \in Nat /\ MaxSaves \in Nat
  /\ Web \notin Manifests
  /\ Nothing \notin Save \cup Dish \cup Manifests \cup {Web}
  /\ Idle \notin Work

VARIABLES
  users,    \* table users, keyed by legacy_id: where the row came from
  dish,     \* the committed rows of cook_templates and of its two lists
  runs,     \* table import_runs: the manifests
  saves,    \* saves begun so far
  work      \* the request of each session

vars == <<users, dish, runs, saves, work>>

TypeOK ==
  /\ users \in [Numbers -> Manifests \cup {Web, Nothing}]
  /\ dish \in Dish \cup {Nothing}
  /\ runs \in SUBSET Manifests
  /\ saves \in 0 .. MaxSaves
  /\ work \in [Sessions -> Work \cup {Idle}]

Init ==
  /\ users = [n \in Numbers |-> Nothing]
  /\ dish = Nothing
  /\ runs = {}
  /\ saves = 0
  /\ work = [s \in Sessions |-> Idle]

-----------------------------------------------------------------------------
(* Sessions *)

Working(s, kind, step) == work[s] # Idle /\ work[s].kind = kind /\ work[s].step = step

Begin(s, kind, step, save, manifest) ==
  /\ work[s] = Idle
  /\ work' = [work EXCEPT ![s] =
       [kind |-> kind, step |-> step, save |-> save, list |-> "variants", seen |-> {},
        gone |-> [l \in Lists |-> {}], numbers |-> {}, manifest |-> manifest,
        alone |-> TRUE]]
  /\ UNCHANGED <<users, dish, runs>>

Go(s, w) == work' = [work EXCEPT ![s] = w] /\ UNCHANGED <<users, dish, runs, saves>>

Goto(s, step) == Go(s, [work[s] EXCEPT !.step = step])

\* Refused, failed, or chosen by PostgreSQL to end a deadlock: all is rolled back.
Fail(s) == work[s] # Idle /\ Go(s, Idle)

Others(s) == {x \in Sessions \ {s} : work[x] # Idle}

Committed(s) ==
  work' = [x \in Sessions |->
             CASE x = s -> Idle
               [] x \in Others(s) -> [work[x] EXCEPT !.alone = FALSE]
               [] OTHER -> work[x]]

-----------------------------------------------------------------------------
(* Inserting rows with a unique key *)

\* The legacy ids a session has inserted and not yet committed.
Claimed(w) ==
  IF \/ w.kind = "user" /\ w.step = "commit"
     \/ w.kind = "import" /\ w.step \in {"add dish", "commit"}
  THEN w.numbers ELSE {}

ClaimsDish(w) == w.kind \in {"create", "import"} /\ w.step = "commit"

\* An INSERT waits for those whose key it meets, then it is done or refused.
InsertUsers(s, step) ==
  /\ \A x \in Others(s) : Claimed(work[x]) \cap work[s].numbers = {}
  /\ IF \A n \in work[s].numbers : users[n] = Nothing THEN Goto(s, step) ELSE Go(s, Idle)

InsertDish(s) ==
  /\ \A x \in Others(s) : ~ClaimsDish(work[x])
  /\ IF dish = Nothing THEN Goto(s, "commit") ELSE Go(s, Idle)

Filled(save, list) == IF save[list] THEN {save} ELSE {}

\* Fault: only the portions of a new dish are added.
NewDish_bare(save) == [name |-> save, variants |-> Filled(save, "variants")]

NewDish(save) ==
  [name |-> save, variants |-> Filled(save, "variants"),
   ingredients |-> Filled(save, "ingredients")]

-----------------------------------------------------------------------------
(* create_user *)

BeginUser(s) == Begin(s, "user", "lock", Nothing, Nothing) /\ UNCHANGED saves

\* Fault: without the advisory lock.
LockUsers_open(s) == Working(s, "user", "lock") /\ Goto(s, "max")

\* pg_advisory_xact_lock, held to the end of the session.
LockUsers(s) ==
  /\ Working(s, "user", "lock")
  /\ \A x \in Others(s) : work[x].kind = "user" => work[x].step = "lock"
  /\ Goto(s, "max")

Taken == {n \in Numbers : users[n] # Nothing}

\* The bound stops requests that would number beyond it.
MaxUser(s) ==
  /\ Working(s, "user", "max")
  /\ LET number == IF Taken = {} THEN 0 ELSE Max(Taken) + 1
     IN  /\ number \in Numbers
         /\ Go(s, [work[s] EXCEPT !.step = "insert", !.numbers = {number}])

InsertUser(s) == Working(s, "user", "insert") /\ InsertUsers(s, "commit")

CommitUser(s) ==
  /\ Working(s, "user", "commit")
  /\ users' = [n \in Numbers |-> IF n \in work[s].numbers THEN Web ELSE users[n]]
  /\ Committed(s)
  /\ UNCHANGED <<dish, runs, saves>>

-----------------------------------------------------------------------------
(* create_template and update_template *)

NewSave(save) == saves < MaxSaves /\ saves' = saves + 1 /\ save.id = saves'

BeginCreate(s, save) ==
  NewSave(save) /\ save.renames /\ Begin(s, "create", "insert", save, Nothing)

InsertCreated(s) == Working(s, "create", "insert") /\ InsertDish(s)

CommitCreated(s) ==
  /\ Working(s, "create", "commit")
  /\ dish' = NewDish(work[s].save)
  /\ Committed(s)
  /\ UNCHANGED <<users, runs, saves>>

\* session.get finds the dish; dishes are never deleted.
BeginSave(s, save) ==
  /\ dish # Nothing
  /\ NewSave(save)
  /\ Begin(s, "save", IF save.renames THEN "rename" ELSE "find", save, Nothing)

\* The rows a session adds refer to the dish and lock it against a rename.
Adding(w) == w.kind = "save" /\ w.step = "commit" /\ \E l \in Lists : w.save[l]

Renaming(w) == w.kind = "save" /\ w.save.renames /\ w.step # "rename"

\* A changed name is written before the first DELETE; an unchanged row is not written.
Rename(s) ==
  /\ Working(s, "save", "rename")
  /\ \A x \in Others(s) : ~Renaming(work[x]) /\ ~Adding(work[x])
  /\ Goto(s, "find")

\* A DELETE finds the rows that are committed when it begins ...
FindRows(s) ==
  /\ Working(s, "save", "find")
  /\ Go(s, [work[s] EXCEPT !.step = "delete", !.seen = dish[work[s].list]])

\* ... waits for who is deleting them, and takes those that are left.
DeleteRows(s) ==
  /\ Working(s, "save", "delete")
  /\ LET w == work[s]
     IN  /\ \A x \in Others(s) : work[x].gone[w.list] \cap w.seen = {}
         /\ Go(s, [w EXCEPT !.gone[w.list] = w.seen \cap dish[w.list],
                            !.list = "ingredients",
                            !.step = IF w.list = "variants" THEN "find" ELSE "insert"])

\* Fault: positions are not unique within a dish.
InsertRows_shared(s) == Working(s, "save", "insert") /\ Goto(s, "commit")

\* Both lists are numbered from zero: a row that is left refuses the save.
InsertRows(s) ==
  /\ Working(s, "save", "insert")
  /\ LET w == work[s]
         filled == {l \in Lists : w.save[l]}
     IN  /\ filled # {} => \A x \in Others(s) : ~Renaming(work[x])
         /\ \A x \in Others(s), l \in filled : ~(Adding(work[x]) /\ work[x].save[l])
         /\ IF \A l \in filled : dish[l] \subseteq w.gone[l]
            THEN Goto(s, "commit") ELSE Go(s, Idle)

CommitSave(s) ==
  /\ Working(s, "save", "commit")
  /\ LET w == work[s]
         After(l) == (dish[l] \ w.gone[l]) \cup Filled(w.save, l)
     IN  dish' = [name |-> IF w.save.renames THEN w.save ELSE dish.name,
                  variants |-> After("variants"), ingredients |-> After("ingredients")]
  /\ Committed(s)
  /\ UNCHANGED <<users, runs, saves>>

Adds(s) == BeginUser(s) \/ LockUsers(s) \/ MaxUser(s) \/ InsertUser(s) \/ CommitUser(s)

Creates(s) ==
  \/ \E save \in Save : BeginCreate(s, save)
  \/ InsertCreated(s) \/ CommitCreated(s)

Saves(s) ==
  \/ \E save \in Save : BeginSave(s, save)
  \/ Rename(s) \/ FindRows(s) \/ DeleteRows(s) \/ InsertRows(s) \/ CommitSave(s)

Next == \E s \in Sessions : Adds(s) \/ Creates(s) \/ Saves(s) \/ Fail(s)

Spec == Init /\ [][Next]_vars

-----------------------------------------------------------------------------
(* Properties *)

\* The number create_user has worked out is never given to another web user
\* meanwhile; only an import, which takes no advisory lock, can have taken it
\* (catalog.py:142-147).
NumbersAreOwn ==
  \A s \in Sessions :
    work[s] # Idle /\ work[s].kind = "user" =>
      \A n \in work[s].numbers : users[n] # Web

\* Saves that overlap never leave two saves in one list, and portions and
\* ingredients were saved together.  Only a save with an empty list, whose rows
\* meet no others, can be one half of a mixture (catalog.py:200-209, the unique
\* positions of both tables).
ListsOfOneSave ==
  dish # Nothing =>
    /\ \A l \in Lists : Cardinality(dish[l]) <= 1
    /\ \A v \in dish.variants, i \in dish.ingredients :
         v = i \/ ~v.ingredients \/ ~i.variants

=============================================================================
