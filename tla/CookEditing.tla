---------------------------- MODULE CookEditing ----------------------------
(***************************************************************************)
(* Cooks created, read and replaced by concurrent requests                 *)
(* (backend/app/services/cooks.py), each in a READ COMMITTED transaction   *)
(* of its own.  A step is what one statement of a request sees or does:    *)
(* between two of them the other requests run.  The row lock of            *)
(* SELECT ... FOR UPDATE and the unique index on cook_date are explicit.   *)
(*                                                                         *)
(* A client of the API reads a cook, edits what it read, and saves it with *)
(* the row version that came with it (contracts/cooks.py:104, 244).  The   *)
(* page of the frontend does not always: see CookForm.                     *)
(***************************************************************************)
EXTENDS Naturals

CONSTANTS
  Clients,      \* of the API; each has one request at a time
  Cooks,        \* identifiers new cooks may get
  Users,
  Sales,        \* values of the permanent discount of a user
  Dates,
  Products,     \* contents of a cook's product list
  MaxVersion,   \* bound: no update is started on a later row version
  NoCook,       \* no row
  Nobody,       \* a row lock no transaction holds
  Nothing       \* no value yet

\* A member row.  since, the row version that inserted it, stands for its id:
\* a request names a user once, so user and since tell the ids of a cook apart.
Member == [user : Users, since : 1 .. MaxVersion + 1, sale : Sales]

Cook ==
  [date : Dates, version : 1 .. MaxVersion + 1, members : SUBSET Member,
   products : Products]

\* What a client was told about a cook, as far as it has been read.
View ==
  [cook : Cooks, version : 1 .. MaxVersion + 1,
   members : {Nothing} \cup SUBSET Member, products : {Nothing} \cup Products]

\* A request body: members that stay, users that are new, the rest.
Draft ==
  [keep : SUBSET Member, add : SUBSET Users, products : Products, date : Dates]

ASSUME CookAssumption ==
  /\ MaxVersion \in Nat \ {0}
  /\ NoCook \notin Cook
  /\ Nobody \notin Clients
  /\ Nothing \notin View /\ Nothing \notin Draft /\ Nothing \notin Cooks
  /\ Nothing \notin Dates /\ Nothing \notin [Users -> Sales]
  /\ Nothing \notin Products /\ \A members \in SUBSET Member : Nothing # members

VARIABLES
  cooks,      \* the committed rows of cooks, cook_members and product prices
  sale,       \* users.permanent_sale, committed
  lock,       \* the client whose transaction has the row of a cook locked
  claim,      \* the date an uncommitted INSERT of a client has in the index
  pc,         \* what the request of a client does next
  view,       \* what the client has read
  draft,      \* what the client asks for
  target,     \* the cook of an update, or the id of a new one
  sales       \* the discounts the request read with the users

vars == <<cooks, sale, lock, claim, pc, view, draft, target, sales>>

Steps == {"idle", "members", "products", "viewing",
          "lock", "date", "users", "commit",
          "newDate", "newUsers", "flush", "newCommit"}

TypeOK ==
  /\ cooks \in [Cooks -> Cook \cup {NoCook}]
  /\ sale \in [Users -> Sales]
  /\ lock \in [Cooks -> Clients \cup {Nobody}]
  /\ claim \in [Clients -> Dates \cup {Nothing}]
  /\ pc \in [Clients -> Steps]
  /\ view \in [Clients -> View \cup {Nothing}]
  /\ draft \in [Clients -> Draft \cup {Nothing}]
  /\ target \in [Clients -> Cooks \cup {Nothing}]
  /\ sales \in [Clients -> [Users -> Sales] \cup {Nothing}]

Init ==
  /\ cooks = [k \in Cooks |-> NoCook]
  /\ sale \in [Users -> Sales]
  /\ lock = [k \in Cooks |-> Nobody]
  /\ claim = [c \in Clients |-> Nothing]
  /\ pc = [c \in Clients |-> "idle"]
  /\ view = [c \in Clients |-> Nothing]
  /\ draft = [c \in Clients |-> Nothing]
  /\ target = [c \in Clients |-> Nothing]
  /\ sales = [c \in Clients |-> Nothing]

Goto(c, step) == pc' = [pc EXCEPT ![c] = step]

\* The request ends without having written: rollback, locks released, 409.
Abandon(c) ==
  /\ Goto(c, "idle")
  /\ lock' = [k \in Cooks |-> IF lock[k] = c THEN Nobody ELSE lock[k]]
  /\ view' = [view EXCEPT ![c] = Nothing]
  /\ draft' = [draft EXCEPT ![c] = Nothing]
  /\ target' = [target EXCEPT ![c] = Nothing]
  /\ sales' = [sales EXCEPT ![c] = Nothing]

-----------------------------------------------------------------------------
(* Reading a cook: get_cook and _load, one SELECT after the other *)

ReadCook(c, k) ==
  /\ pc[c] = "idle"
  /\ cooks[k] # NoCook
  /\ view' = [view EXCEPT ![c] = [cook |-> k, version |-> cooks[k].version,
                                  members |-> Nothing, products |-> Nothing]]
  /\ Goto(c, "members")
  /\ UNCHANGED <<cooks, sale, lock, claim, draft, target, sales>>

ReadMembers(c) ==
  /\ pc[c] = "members"
  /\ view' = [view EXCEPT ![c].members = cooks[view[c].cook].members]
  /\ Goto(c, "products")
  /\ UNCHANGED <<cooks, sale, lock, claim, draft, target, sales>>

\* After an update of its own the session still holds the product rows it wrote:
\* it returns those instead of newer ones with the same ids.
ReadProducts(c) ==
  /\ pc[c] = "products"
  /\ \E seen \in {cooks[view[c].cook].products}
                   \cup (IF draft[c] = Nothing THEN {} ELSE {draft[c].products}) :
       view' = [view EXCEPT ![c].products = seen]
  /\ draft' = [draft EXCEPT ![c] = Nothing]
  /\ Goto(c, "viewing")
  /\ UNCHANGED <<cooks, sale, lock, claim, target, sales>>

\* The client forgets what it has read.
Close(c) ==
  /\ pc[c] = "viewing"
  /\ view' = [view EXCEPT ![c] = Nothing]
  /\ Goto(c, "idle")
  /\ UNCHANGED <<cooks, sale, lock, claim, draft, target, sales>>

-----------------------------------------------------------------------------
(* update_cook *)

UsersOf(members) == {m.user : m \in members}

SubmitUpdate(c) ==
  /\ pc[c] = "viewing"
  /\ view[c].version <= MaxVersion
  /\ \E keep \in SUBSET view[c].members, add \in SUBSET Users,
        products \in Products, date \in Dates :
       /\ UsersOf(keep) \cap add = {}
       /\ keep # {} \/ add # {}
       /\ draft' = [draft EXCEPT ![c] = [keep |-> keep, add |-> add,
                                         products |-> products, date |-> date]]
  /\ target' = [target EXCEPT ![c] = view[c].cook]
  /\ Goto(c, "lock")
  /\ UNCHANGED <<cooks, sale, lock, claim, view, sales>>

\* The row is locked when nobody else has it, and read as it is then.
CurrentVersion(c) == cooks[target[c]].version = view[c].version

\* Fault: the row is read without FOR UPDATE.
LockCook_unlocked(c) ==
  /\ pc[c] = "lock"
  /\ IF CurrentVersion(c)
     THEN Goto(c, "date") /\ UNCHANGED <<lock, view, draft, target, sales>>
     ELSE Abandon(c)
  /\ UNCHANGED <<cooks, sale, claim>>

LockCook(c) ==
  /\ pc[c] = "lock"
  /\ lock[target[c]] = Nobody
  /\ IF CurrentVersion(c)
     THEN /\ lock' = [lock EXCEPT ![target[c]] = c]
          /\ Goto(c, "date")
          /\ UNCHANGED <<view, draft, target, sales>>
     ELSE Abandon(c)
  /\ UNCHANGED <<cooks, sale, claim>>

\* Cooks other than the one of client c with this date, committed.
OnDate(c, d) == {k \in Cooks \ {target[c]} : cooks[k] # NoCook /\ cooks[k].date = d}

\* A request may only keep member rows the cook has.
Known(c) ==
  \A m \in draft[c].keep :
    \E x \in cooks[target[c]].members : x.user = m.user /\ x.since = m.since

\* Fault: the transaction stays open when the date is taken.
CheckUpdate_open(c) ==
  /\ pc[c] = "date"
  /\ IF OnDate(c, draft[c].date) = {} /\ Known(c)
     THEN Goto(c, "users") /\ UNCHANGED <<view, draft, target, sales>>
     ELSE /\ Goto(c, "idle")
          /\ view' = [view EXCEPT ![c] = Nothing]
          /\ draft' = [draft EXCEPT ![c] = Nothing]
          /\ target' = [target EXCEPT ![c] = Nothing]
          /\ sales' = [sales EXCEPT ![c] = Nothing]
  /\ UNCHANGED <<cooks, sale, lock, claim>>

CheckUpdate(c) ==
  /\ pc[c] = "date"
  /\ IF OnDate(c, draft[c].date) = {} /\ Known(c)
     THEN Goto(c, "users") /\ UNCHANGED <<lock, view, draft, target, sales>>
     ELSE Abandon(c)
  /\ UNCHANGED <<cooks, sale, claim>>

ReadUsers(c, from, to) ==
  /\ pc[c] = from
  /\ sales' = [sales EXCEPT ![c] = sale]
  /\ Goto(c, to)
  /\ UNCHANGED <<cooks, sale, lock, claim, view, draft, target>>

\* Fault: the discount is taken from the user again.
Kept_resnapshot(c) ==
  {[m EXCEPT !.sale = sales[c][m.user]] :
     m \in {y \in cooks[target[c]].members :
             \E x \in draft[c].keep : x.user = y.user /\ x.since = y.since}}

\* The rows that are kept keep their snapshot, new ones take the user's discount.
Kept(c) ==
  {m \in cooks[target[c]].members :
     \E x \in draft[c].keep : x.user = m.user /\ x.since = m.since}

Added(c, version) ==
  {[user |-> u, since |-> version, sale |-> sales[c][u]] : u \in draft[c].add}

\* No other transaction has put this date into the index and may still commit.
Unclaimed(c, d) == \A x \in Clients \ {c} : claim[x] # d

\* Fault: row_version is not incremented.
CommitUpdate_unversioned(c) ==
  LET k == target[c]
      version == view[c].version
  IN  /\ pc[c] = "commit"
      /\ Unclaimed(c, draft[c].date)
      /\ IF OnDate(c, draft[c].date) = {}
         THEN /\ cooks' = [cooks EXCEPT
                   ![k] = [date |-> draft[c].date, version |-> version,
                           members |-> Kept(c) \cup Added(c, version),
                           products |-> draft[c].products]]
              /\ lock' = [lock EXCEPT ![k] = Nobody]
              /\ view' = [view EXCEPT ![c] = [cook |-> k, version |-> version,
                                              members |-> Nothing, products |-> Nothing]]
              /\ target' = [target EXCEPT ![c] = Nothing]
              /\ sales' = [sales EXCEPT ![c] = Nothing]
              /\ Goto(c, "members")
              /\ UNCHANGED draft
         ELSE Abandon(c) /\ UNCHANGED cooks
      /\ UNCHANGED <<sale, claim>>

\* The flush waits for a concurrent INSERT with the same date.
CommitUpdate(c) ==
  LET k == target[c]
      version == view[c].version + 1
  IN  /\ pc[c] = "commit"
      /\ Unclaimed(c, draft[c].date)
      /\ IF OnDate(c, draft[c].date) = {}
         THEN /\ cooks' = [cooks EXCEPT
                   ![k] = [date |-> draft[c].date, version |-> version,
                           members |-> Kept(c) \cup Added(c, version),
                           products |-> draft[c].products]]
              /\ lock' = [lock EXCEPT ![k] = Nobody]
              /\ view' = [view EXCEPT ![c] = [cook |-> k, version |-> version,
                                              members |-> Nothing, products |-> Nothing]]
              /\ target' = [target EXCEPT ![c] = Nothing]
              /\ sales' = [sales EXCEPT ![c] = Nothing]
              /\ Goto(c, "members")
              /\ UNCHANGED draft
         ELSE Abandon(c) /\ UNCHANGED cooks
      /\ UNCHANGED <<sale, claim>>

-----------------------------------------------------------------------------
(* create_cook *)

SubmitCreate(c) ==
  /\ pc[c] = "idle"
  /\ \E k \in Cooks, add \in (SUBSET Users) \ {{}}, products \in Products, date \in Dates :
       /\ cooks[k] = NoCook
       /\ \A x \in Clients : target[x] # k
       /\ draft' = [draft EXCEPT ![c] = [keep |-> {}, add |-> add,
                                         products |-> products, date |-> date]]
       /\ target' = [target EXCEPT ![c] = k]
  /\ Goto(c, "newDate")
  /\ UNCHANGED <<cooks, sale, lock, claim, view, sales>>

CheckCreate(c) ==
  /\ pc[c] = "newDate"
  /\ IF OnDate(c, draft[c].date) = {}
     THEN Goto(c, "newUsers") /\ UNCHANGED <<lock, view, draft, target, sales>>
     ELSE Abandon(c)
  /\ UNCHANGED <<cooks, sale, claim>>

FlushCreate(c) ==
  /\ pc[c] = "flush"
  /\ Unclaimed(c, draft[c].date)
  /\ IF OnDate(c, draft[c].date) = {}
     THEN /\ claim' = [claim EXCEPT ![c] = draft[c].date]
          /\ Goto(c, "newCommit")
          /\ UNCHANGED <<lock, view, draft, target, sales>>
     ELSE Abandon(c) /\ UNCHANGED claim
  /\ UNCHANGED <<cooks, sale>>

\* Fault: row versions start at 0.
CommitCreate_zero(c) ==
  /\ pc[c] = "newCommit"
  /\ cooks' = [cooks EXCEPT
       ![target[c]] = [date |-> draft[c].date, version |-> 0,
                       members |-> Added(c, 1), products |-> draft[c].products]]
  /\ claim' = [claim EXCEPT ![c] = Nothing]
  /\ view' = [view EXCEPT ![c] = [cook |-> target[c], version |-> 0,
                                  members |-> Nothing, products |-> Nothing]]
  /\ target' = [target EXCEPT ![c] = Nothing]
  /\ sales' = [sales EXCEPT ![c] = Nothing]
  /\ Goto(c, "members")
  /\ UNCHANGED <<sale, lock, draft>>

CommitCreate(c) ==
  /\ pc[c] = "newCommit"
  /\ cooks' = [cooks EXCEPT
       ![target[c]] = [date |-> draft[c].date, version |-> 1,
                       members |-> Added(c, 1), products |-> draft[c].products]]
  /\ claim' = [claim EXCEPT ![c] = Nothing]
  /\ view' = [view EXCEPT ![c] = [cook |-> target[c], version |-> 1,
                                  members |-> Nothing, products |-> Nothing]]
  /\ target' = [target EXCEPT ![c] = Nothing]
  /\ sales' = [sales EXCEPT ![c] = Nothing]
  /\ Goto(c, "members")
  /\ UNCHANGED <<sale, lock, draft>>

-----------------------------------------------------------------------------
\* An editor gives a user another discount (catalog.py, update_user).
ChangeSale(u, s) ==
  /\ sale[u] # s
  /\ sale' = [sale EXCEPT ![u] = s]
  /\ UNCHANGED <<cooks, lock, claim, pc, view, draft, target, sales>>

Reading(c) == ReadMembers(c) \/ ReadProducts(c)

Updating(c) ==
  LockCook(c) \/ CheckUpdate(c) \/ ReadUsers(c, "users", "commit") \/ CommitUpdate(c)

Creating(c) ==
  CheckCreate(c) \/ ReadUsers(c, "newUsers", "flush") \/ FlushCreate(c) \/ CommitCreate(c)

Next ==
  \/ \E c \in Clients :
       \/ \E k \in Cooks : ReadCook(c, k)
       \/ Reading(c) \/ Updating(c) \/ Creating(c)
       \/ SubmitUpdate(c) \/ SubmitCreate(c) \/ Close(c)
  \/ \E u \in Users, s \in Sales : ChangeSale(u, s)

Spec == Init /\ [][Next]_vars

\* Every step of a request that was sent is taken.  PostgreSQL serves those who
\* wait for a row, or for the transaction that holds an index entry, in the order
\* they came: a step that waits is taken when it is possible again and again.
Fairness ==
  \A c \in Clients :
    /\ WF_vars(Reading(c))
    /\ WF_vars(Creating(c))
    /\ SF_vars(Updating(c))

FairSpec == Spec /\ Fairness

-----------------------------------------------------------------------------
(* Properties *)

Complete(c) ==
  view[c] # Nothing /\ view[c].members # Nothing /\ view[c].products # Nothing

\* What a client has read in several statements is what was committed, if the
\* version it read is still the current one: a read torn by another commit, also
\* the read that answers an update, always carries an old version
\* (cooks.py:157-161, 421, 433, 563-605).
CurrentViewIsTrue ==
  \A c \in Clients :
    /\ Complete(c)
    /\ cooks[view[c].cook].version = view[c].version
    => /\ view[c].members = cooks[view[c].cook].members
       /\ view[c].products = cooks[view[c].cook].products

\* An update replaces exactly the state its author saw: between the row lock and
\* the commit nobody else changed the cook, so no edit is overwritten unseen
\* (cooks.py:270-277, 421-423).
NoLostUpdate ==
  [][\A c \in Clients :
       pc[c] = "commit" /\ cooks' # cooks /\ pc'[c] # pc[c] =>
         /\ view[c].members = cooks[target[c]].members
         /\ view[c].products = cooks[target[c]].products]_vars

\* The cook whose present state a client has read, in whatever statements.
Knows(c) ==
  IF Complete(c) /\ cooks[view[c].cook] = [date |-> cooks[view[c].cook].date,
                                           version |-> view[c].version,
                                           members |-> view[c].members,
                                           products |-> view[c].products]
  THEN view[c].cook ELSE Nothing

Store == INSTANCE CookStore WITH knows <- [c \in Clients |-> Knows(c)]

\* Requests of several statements, with what others commit in between, are the single
\* steps of CookStore: dates stay unique although they are looked up before the write
\* (cooks.py:163, 278, 422-432), a member that stays keeps the discount of its first
\* day (cooks.py:322-330), versions go up one by one, and a cook is replaced by a client
\* that knows its present state (cooks.py:270-277, 421).
ImplementsStore == Store!Spec

\* Every request is answered: waiting for locks never ends in a standstill, and a
\* refused request leaves no lock behind (cooks.py:270-285, 422-432).
EveryRequestAnswered ==
  \A c \in Clients : pc[c] \notin {"idle", "viewing"} ~> pc[c] \in {"idle", "viewing"}

=============================================================================
