------------------------------- MODULE Import -------------------------------
(***************************************************************************)
(* The import of the JSON data of the old program into an empty database   *)
(* (backend/app/migration/persistence.py), beside the requests of Catalog. *)
(* Of the twelve tables it fills, users and dishes stand for all.          *)
(***************************************************************************)
EXTENDS Catalog

CONSTANT RowsOf   \* the legacy ids of the users in a manifest

ASSUME ImportAssumption == RowsOf \in [Manifests -> (SUBSET Numbers) \ {{}}]

Imported == [id |-> 0, renames |-> TRUE, variants |-> TRUE, ingredients |-> TRUE]

BeginImport(s, m) == Begin(s, "import", "run", Imported, m) /\ UNCHANGED saves

\* The same manifest is not imported again; the session ends without a write.
CheckRun(s) ==
  /\ Working(s, "import", "run")
  /\ IF work[s].manifest \in runs THEN Go(s, Idle) ELSE Goto(s, "runs")

CheckRuns(s) ==
  /\ Working(s, "import", "runs")
  /\ IF runs # {} THEN Go(s, Idle) ELSE Goto(s, "users")

\* Fault: the users are not counted.
CountUsers_uncounted(s) == Working(s, "import", "users") /\ Goto(s, "dishes")

CountUsers(s) ==
  /\ Working(s, "import", "users")
  /\ IF Taken # {} THEN Go(s, Idle) ELSE Goto(s, "dishes")

CountDishes(s) ==
  /\ Working(s, "import", "dishes")
  /\ IF dish # Nothing THEN Go(s, Idle) ELSE Goto(s, "receipt")

\* The receipt is the first row; manifest_checksum is unique.
InsertReceipt(s) ==
  /\ Working(s, "import", "receipt")
  /\ LET m == work[s].manifest
     IN  /\ \A x \in Others(s) :
              work[x].manifest = m => work[x].step \notin {"add users", "add dish", "commit"}
         /\ IF m \in runs THEN Go(s, Idle)
            ELSE Go(s, [work[s] EXCEPT !.step = "add users", !.numbers = RowsOf[m]])

\* Fault: the layer is committed, not flushed.
AddUsers_committed(s) ==
  /\ Working(s, "import", "add users")
  /\ \A n \in work[s].numbers : users[n] = Nothing
  /\ users' = [n \in Numbers |-> IF n \in work[s].numbers THEN work[s].manifest ELSE users[n]]
  /\ work' = [work EXCEPT ![s].step = "add dish"]
  /\ UNCHANGED <<dish, runs, saves>>

AddUsers(s) == Working(s, "import", "add users") /\ InsertUsers(s, "add dish")

AddDish(s) == Working(s, "import", "add dish") /\ InsertDish(s)

Publish(s) ==
  /\ Working(s, "import", "commit")
  /\ LET m == work[s].manifest
     IN  /\ runs' = runs \cup {m}
         /\ users' = [n \in Numbers |-> IF n \in work[s].numbers THEN m ELSE users[n]]
         /\ dish' = NewDish(work[s].save)
  /\ Committed(s)
  /\ UNCHANGED saves

Imports(s) ==
  \/ \E m \in Manifests : BeginImport(s, m)
  \/ CheckRun(s) \/ CheckRuns(s) \/ CountUsers(s) \/ CountDishes(s)
  \/ InsertReceipt(s) \/ AddUsers(s) \/ AddDish(s) \/ Publish(s)

ImportNext == Next \/ \E s \in Sessions : Imports(s)

ImportSpec == Init /\ [][ImportNext]_vars

-----------------------------------------------------------------------------
(* Properties *)

\* An import is published with all its users or leaves none, wherever it fails
\* and whatever it meets (persistence.py:77, 106-120).
ImportIsWhole ==
  \A m \in Manifests :
    /\ m \in runs => \A n \in RowsOf[m] : users[n] = m
    /\ m \notin runs => \A n \in Numbers : users[n] # m

\* What is published goes into an empty database, if nobody else has committed
\* since the import began: what is counted table by table is still so at the end
\* (persistence.py:84-100).
ImportsIntoEmpty ==
  [][\A s \in Sessions :
       runs' # runs /\ work[s] # Idle /\ work[s].alone /\ work'[s] = Idle
         => runs = {} /\ dish = Nothing /\ Taken = {}]_vars

=============================================================================
