------------------------------- MODULE CookStore -------------------------------
(***************************************************************************)
(* What the cooks of backend/app/services/cooks.py promise the clients of  *)
(* the API: creating a cook and replacing one are single steps, there is   *)
(* one cook per date, a member keeps the discount it joined with, and only *)
(* who knows the present state of a cook may replace it.  How requests of  *)
(* several statements keep this promise is CookEditing.                    *)
(***************************************************************************)
EXTENDS Naturals

CONSTANTS
  Clients, Cooks, Users, Sales, Dates, Products,
  NoCook,    \* no row
  Nothing    \* no cook

VARIABLES
  cooks,     \* the cooks there are
  knows      \* the cook a client knows the present state of

vars == <<cooks, knows>>

Init ==
  /\ cooks = [k \in Cooks |-> NoCook]
  /\ knows = [c \in Clients |-> Nothing]

Learn(c, k) ==
  /\ cooks[k] # NoCook
  /\ knows' = [knows EXCEPT ![c] = k]
  /\ UNCHANGED cooks

Forget(c) ==
  /\ knows' = [knows EXCEPT ![c] = Nothing]
  /\ UNCHANGED cooks

Free(k, d) == \A x \in Cooks \ {k} : cooks[x] # NoCook => cooks[x].date # d

\* Members join with a discount the user has about then.
Joining(members, since) ==
  /\ \A m \in members : m.user \in Users /\ m.since = since /\ m.sale \in Sales
  /\ \A m, n \in members : m.user = n.user => m = n

Create(k) ==
  /\ cooks[k] = NoCook
  /\ \E d \in Dates, add \in (SUBSET [user : Users, since : {1}, sale : Sales]) \ {{}},
        products \in Products :
       /\ Free(k, d) /\ Joining(add, 1)
       /\ cooks' = [cooks EXCEPT
            ![k] = [date |-> d, version |-> 1, members |-> add, products |-> products]]
  /\ UNCHANGED knows

\* Some members stay as they are, others join; whoever knew the cook does no more.
Replace(c, k) ==
  LET old == cooks[k]
      version == old.version + 1
  IN  /\ knows[c] = k
      /\ \E d \in Dates, keep \in SUBSET old.members,
            add \in SUBSET [user : Users, since : {version}, sale : Sales],
            products \in Products :
           /\ Free(k, d) /\ Joining(add, version)
           /\ \A m \in keep, n \in add : m.user # n.user
           /\ keep \cup add # {}
           /\ cooks' = [cooks EXCEPT
                ![k] = [date |-> d, version |-> version, members |-> keep \cup add,
                        products |-> products]]
      /\ knows' = [x \in Clients |-> IF knows[x] = k THEN Nothing ELSE knows[x]]

Next ==
  \/ \E k \in Cooks : Create(k)
  \/ \E c \in Clients : Forget(c) \/ \E k \in Cooks : Learn(c, k) \/ Replace(c, k)

Spec == Init /\ [][Next]_vars

=============================================================================
