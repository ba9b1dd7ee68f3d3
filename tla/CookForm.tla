------------------------------ MODULE CookForm ------------------------------
(***************************************************************************)
(* The page that edits a cook (frontend/src/pages/NewCookPage.tsx) in      *)
(* several browser windows, with a server that replaces the cook when the  *)
(* request names its current version (what happens inside a request is in  *)
(* CookEditing).                                                           *)
(*                                                                         *)
(* A window has a form and, behind it, the cache of the query for the      *)
(* cook.  The form is filled once; the cache is loaded anew when the page  *)
(* is opened with old data or the connection returns (queryClient.ts).     *)
(***************************************************************************)
EXTENDS Naturals

CONSTANTS
  Windows,
  Contents,     \* dates, votes and expressions that leave the rows of the cook
  MaxVersion,   \* bound: nothing is saved over a later version
  Nothing

Row == [version : 1 .. MaxVersion + 1, content : Contents]

VARIABLES
  row,      \* the cook on the server
  open,     \* the page is open in the window
  cache,    \* cookQuery.data
  form,     \* what the form shows
  base      \* history: the version the form was filled from

vars == <<row, open, cache, form, base>>

TypeOK ==
  /\ row \in Row
  /\ open \in [Windows -> BOOLEAN]
  /\ cache \in [Windows -> Row \cup {Nothing}]
  /\ form \in [Windows -> Contents \cup {Nothing}]
  /\ base \in [Windows -> 0 .. MaxVersion + 1]

Init ==
  /\ row \in [version : {1}, content : Contents]
  /\ open = [w \in Windows |-> FALSE]
  /\ cache = [w \in Windows |-> Nothing]
  /\ form = [w \in Windows |-> Nothing]
  /\ base = [w \in Windows |-> 0]

\* The form takes what the query has, the first time it has something.
Fill(w, data) ==
  IF form[w] = Nothing /\ data # Nothing
  THEN /\ form' = [form EXCEPT ![w] = data.content]
       /\ base' = [base EXCEPT ![w] = data.version]
  ELSE UNCHANGED <<form, base>>

Empty(w) ==
  /\ form' = [form EXCEPT ![w] = Nothing]
  /\ base' = [base EXCEPT ![w] = 0]

\* What the cache kept from an earlier visit is shown at once.
Open(w) ==
  /\ ~open[w]
  /\ open' = [open EXCEPT ![w] = TRUE]
  /\ Fill(w, cache[w])
  /\ UNCHANGED <<row, cache>>

Fetch(w) ==
  /\ open[w]
  /\ cache' = [cache EXCEPT ![w] = row]
  /\ Fill(w, row)
  /\ UNCHANGED <<row, open>>

Edit(w, content) ==
  /\ form[w] # Nothing
  /\ form' = [form EXCEPT ![w] = content]
  /\ UNCHANGED <<row, open, cache, base>>

\* The request has the form's content and the version of the cache.
SameVersion(w) == cache[w].version = row.version

Save(w) ==
  /\ form[w] # Nothing
  /\ form[w] # cache[w].content
  /\ row.version <= MaxVersion
  /\ \/ /\ SameVersion(w)
        /\ row' = [version |-> row.version + 1, content |-> form[w]]
        /\ \/ open' = [open EXCEPT ![w] = FALSE] /\ Empty(w)
           \/ UNCHANGED <<open, form, base>>   \* the answer is lost
     \/ ~SameVersion(w) /\ UNCHANGED <<row, open, form, base>>
  /\ UNCHANGED cache

Leave(w) ==
  /\ open[w]
  /\ open' = [open EXCEPT ![w] = FALSE]
  /\ Empty(w)
  /\ UNCHANGED <<row, cache>>

\* The browser loads the page anew.
Reload(w) ==
  /\ open[w]
  /\ cache' = [cache EXCEPT ![w] = Nothing]
  /\ Empty(w)
  /\ UNCHANGED <<row, open>>

\* A query nobody shows is dropped after a while.
Forget(w) ==
  /\ ~open[w]
  /\ cache' = [cache EXCEPT ![w] = Nothing]
  /\ UNCHANGED <<row, open, form, base>>

Next ==
  \E w \in Windows :
    \/ Open(w) \/ Fetch(w) \/ Save(w) \/ Leave(w) \/ Reload(w) \/ Forget(w)
    \/ \E content \in Contents : Edit(w, content)

Spec == Init /\ [][Next]_vars

-----------------------------------------------------------------------------
(* Properties *)

\* "The cook was changed in another window.  Reload the page and try again": what is
\* saved was made from the version it replaces (NewCookPage.tsx:257).
ChangesElsewhereAreSeen ==
  [][\A w \in Windows :
       row' # row /\ cache[w] # Nothing /\ Save(w) => base[w] = row.version]_vars

=============================================================================
