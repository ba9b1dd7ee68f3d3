-------------------------- MODULE CookEditingProofs --------------------------
(***************************************************************************)
(* Proofs about CookEditing, for any number of clients, cooks, users and   *)
(* dates: the types, that a current view is true, that no update is lost,  *)
(* and that requests of several statements implement CookStore.            *)
(***************************************************************************)
EXTENDS CookEditing, TLAPS

-----------------------------------------------------------------------------
(* The inductive invariant: what a client has in hand at each step *)

Updates == {"lock", "date", "users", "commit"}

Creates == {"newDate", "newUsers", "flush", "newCommit"}

HasView(c) ==
  /\ pc[c] \in {"idle"} \cup Creates <=> view[c] = Nothing
  /\ pc[c] = "members" => view[c].members = Nothing /\ view[c].products = Nothing
  /\ pc[c] = "products" => view[c].members # Nothing /\ view[c].products = Nothing
  /\ pc[c] \in {"viewing"} \cup Updates => view[c].members # Nothing /\ view[c].products # Nothing

HasRequest(c) ==
  /\ pc[c] \in Updates \cup Creates <=> target[c] # Nothing
  /\ pc[c] \in {"idle", "viewing"} => draft[c] = Nothing
  /\ pc[c] \in Updates \cup Creates => draft[c] # Nothing
  /\ pc[c] \in {"commit", "flush", "newCommit"} => sales[c] # Nothing
  /\ pc[c] = "newCommit" <=> claim[c] # Nothing

\* An update asks for the cook that was read, to keep members that were read.
UpdateOK(c) ==
  pc[c] \in Updates =>
    /\ target[c] = view[c].cook
    /\ view[c].version <= MaxVersion
    /\ draft[c].keep \subseteq view[c].members
    /\ UsersOf(draft[c].keep) \cap draft[c].add = {}
    /\ draft[c].keep # {} \/ draft[c].add # {}

\* The identifier of a new cook is nobody else's.
CreateOK(c) ==
  pc[c] \in Creates =>
    /\ draft[c].add # {}
    /\ cooks[target[c]] = NoCook
    /\ \A x \in Clients \ {c} : target[x] # target[c]

\* What was read is what there is, as long as the version is the same.
ViewOK(c) ==
  view[c] # Nothing =>
    /\ cooks[view[c].cook] # NoCook
    /\ view[c].version <= cooks[view[c].cook].version
    /\ cooks[view[c].cook].version = view[c].version =>
         /\ view[c].members \in {Nothing, cooks[view[c].cook].members}
         /\ view[c].products \in {Nothing, cooks[view[c].cook].products}
         /\ pc[c] \in {"members", "products"} /\ draft[c] # Nothing =>
              draft[c].products = cooks[view[c].cook].products

\* Between the row lock and the commit the version stays.
LockOK(c) ==
  pc[c] \in {"date", "users", "commit"} =>
    /\ lock[target[c]] = c
    /\ cooks[target[c]].version = view[c].version

\* A date in the index is nobody else's, committed or not.
ClaimOK(c) ==
  claim[c] # Nothing =>
    /\ claim[c] = draft[c].date
    /\ OnDate(c, claim[c]) = {}
    /\ Unclaimed(c, claim[c])

ClientOK(c) ==
  /\ HasView(c) /\ HasRequest(c) /\ UpdateOK(c) /\ CreateOK(c)
  /\ ViewOK(c) /\ LockOK(c) /\ ClaimOK(c)

\* One cook per date, one row per user.
CooksOK ==
  /\ \A k, l \in Cooks :
       k # l /\ cooks[k] # NoCook /\ cooks[l] # NoCook => cooks[k].date # cooks[l].date
  /\ \A k \in Cooks : cooks[k] # NoCook =>
       \A m, n \in cooks[k].members : m.user = n.user => m = n

IInv == TypeOK /\ CooksOK /\ \A c \in Clients : ClientOK(c)

-----------------------------------------------------------------------------
(* Clients do not disturb each other *)

\* The types, client by client.
LEMMA Typed ==
  ASSUME TypeOK
  PROVE  /\ \A k \in Cooks : cooks[k] \in Cook \cup {NoCook}
         /\ \A c \in Clients :
              /\ pc[c] \in Steps
              /\ view[c] \in View \cup {Nothing}
              /\ draft[c] \in Draft \cup {Nothing}
              /\ target[c] \in Cooks \cup {Nothing}
              /\ sales[c] \in [Users -> Sales] \cup {Nothing}
              /\ claim[c] \in Dates \cup {Nothing}
BY DEF TypeOK

\* A step of client c that touches nothing the others hold.
Frame(c) ==
  \A x \in Clients \ {c} :
    /\ pc'[x] = pc[x] /\ view'[x] = view[x] /\ draft'[x] = draft[x]
    /\ target'[x] = target[x] /\ sales'[x] = sales[x] /\ claim'[x] = claim[x]

Quiet(c) ==
  /\ Frame(c)
  /\ cooks' = cooks
  /\ \A k \in Cooks : lock[k] \in Clients \ {c} => lock'[k] = lock[k]
  /\ target'[c] \in {target[c], Nothing} \/ \A x \in Clients \ {c} : target[x] # target'[c]
     \/ cooks[target'[c]] # NoCook
  /\ claim'[c] \in {claim[c], Nothing} \/ Unclaimed(c, claim'[c])

\* What a client has in hand is its own business.
LEMMA OwnKept ==
  ASSUME NEW c \in Clients, NEW x \in Clients \ {c}, Frame(c)
  PROVE  /\ HasView(x) => HasView(x)'
         /\ HasRequest(x) => HasRequest(x)'
         /\ UpdateOK(x) => UpdateOK(x)'
BY DEF Frame, HasView, HasRequest, UpdateOK, UsersOf

LEMMA QuietKeepsOthers ==
  ASSUME IInv, NEW c \in Clients, Quiet(c), NEW x \in Clients \ {c}
  PROVE  ClientOK(x)'
<1>1. ClientOK(x) /\ ClientOK(c)
  BY DEF IInv
<1>2. /\ target[x] \in Cooks \cup {Nothing} /\ claim[x] \in Dates \cup {Nothing}
      /\ pc[x] \in Steps
  BY Typed DEF IInv
<1>3. HasView(x)' /\ HasRequest(x)' /\ UpdateOK(x)'
  BY <1>1, OwnKept DEF Quiet, ClientOK
<1>4. CreateOK(x)'
  BY <1>1, <1>2 DEF ClientOK, CreateOK, HasRequest, Quiet, Frame, Creates
<1>5. ViewOK(x)'
  BY <1>1 DEF ClientOK, ViewOK, Quiet, Frame
<1>6. LockOK(x)'
  BY <1>1, <1>2 DEF ClientOK, LockOK, HasRequest, Quiet, Frame, Updates
<1>7. ClaimOK(x)'
  BY <1>1, <1>2 DEF ClientOK, ClaimOK, OnDate, Unclaimed, Quiet, Frame
<1>8. QED BY <1>3, <1>4, <1>5, <1>6, <1>7 DEF ClientOK

LEMMA QuietKeeps ==
  ASSUME IInv, NEW c \in Clients, Quiet(c), TypeOK', ClientOK(c)'
  PROVE  IInv'
<1>1. \A x \in Clients : ClientOK(x)'
  BY QuietKeepsOthers
<1>2. CooksOK'
  BY DEF IInv, CooksOK, Quiet
<1>3. QED BY <1>1, <1>2 DEF IInv

-----------------------------------------------------------------------------
(* Requests that read or give up: one lemma per action.  Such a step is a *)
(* quiet one, which is also what CookStore makes of it.                   *)

LEMMA AbandonKeeps ==
  ASSUME IInv, NEW c \in Clients, Abandon(c), claim[c] = Nothing,
         UNCHANGED <<cooks, sale, claim>>
  PROVE  IInv' /\ Quiet(c)
<1>1. TypeOK'
  BY DEF IInv, TypeOK, Abandon, Goto, Steps
<1>2. Quiet(c)
  BY DEF IInv, TypeOK, Abandon, Goto, Quiet, Frame
<1>3. ClientOK(c)'
  <2>1. /\ pc'[c] = "idle" /\ view'[c] = Nothing /\ draft'[c] = Nothing
        /\ target'[c] = Nothing /\ sales'[c] = Nothing /\ claim'[c] = Nothing
    BY DEF IInv, TypeOK, Abandon, Goto
  <2>2. QED
    BY <2>1 DEF ClientOK, HasView, HasRequest, UpdateOK, CreateOK, ViewOK, LockOK, ClaimOK,
                Updates, Creates
<1>4. QED BY <1>1, <1>2, <1>3, QuietKeeps

LEMMA ReadCookKeeps ==
  ASSUME IInv, NEW c \in Clients, NEW k \in Cooks, ReadCook(c, k)
  PROVE  IInv' /\ Quiet(c)
<1> DEFINE read == [cook |-> k, version |-> cooks[k].version,
                    members |-> Nothing, products |-> Nothing]
<1>1. /\ cooks[k] \in Cook /\ read \in View
  BY Typed DEF IInv, ReadCook, Cook, View
<1>2. TypeOK'
  BY <1>1 DEF IInv, TypeOK, ReadCook, Goto, Steps
<1>3. Quiet(c)
  BY DEF IInv, TypeOK, ReadCook, Goto, Quiet, Frame
<1>4. ClientOK(c)'
  <2>1. /\ pc[c] = "idle" /\ cooks[k] # NoCook /\ ClientOK(c)
        /\ pc'[c] = "members" /\ view'[c] = read /\ draft'[c] = draft[c]
        /\ target'[c] = target[c] /\ sales'[c] = sales[c] /\ claim'[c] = claim[c]
        /\ cooks' = cooks
    BY DEF IInv, TypeOK, ReadCook, Goto
  <2>2. read # Nothing
    BY <1>1, CookAssumption
  <2>3. QED
    BY <1>1, <2>1, <2>2
    DEF ClientOK, HasView, HasRequest, UpdateOK, CreateOK, ViewOK, LockOK, ClaimOK,
        Updates, Creates, Cook
<1>5. QED BY <1>2, <1>3, <1>4, QuietKeeps

LEMMA ReadMembersKeeps ==
  ASSUME IInv, NEW c \in Clients, ReadMembers(c)
  PROVE  IInv' /\ Quiet(c)
<1> DEFINE k == view[c].cook
           read == [view[c] EXCEPT !.members = cooks[k].members]
<1>1. ClientOK(c) /\ pc[c] = "members" /\ view[c] \in View /\ k \in Cooks
  BY Typed DEF IInv, ReadMembers, ClientOK, HasView, View, Creates
<1>2. cooks[k] \in Cook
  BY <1>1, Typed, CookAssumption DEF IInv, ClientOK, ViewOK
<1>3. read \in View /\ read # Nothing
  BY <1>1, <1>2, CookAssumption DEF View, Cook
<1>4. view' = [view EXCEPT ![c] = read]
  BY DEF ReadMembers
<1>5. TypeOK'
  BY <1>3, <1>4 DEF IInv, TypeOK, ReadMembers, Goto, Steps
<1>6. Quiet(c)
  BY <1>4 DEF IInv, TypeOK, ReadMembers, Goto, Quiet, Frame
<1>7. ClientOK(c)'
  <2>1. /\ pc'[c] = "products" /\ view'[c] = read /\ draft'[c] = draft[c]
        /\ target'[c] = target[c] /\ sales'[c] = sales[c] /\ claim'[c] = claim[c]
        /\ cooks' = cooks
    BY <1>4 DEF IInv, TypeOK, ReadMembers, Goto
  <2>2. /\ read.cook = k /\ read.version = view[c].version
        /\ read.members = cooks[k].members /\ read.products = view[c].products
    BY <1>1 DEF View
  <2>3. cooks[k].members # Nothing
    BY <1>2, CookAssumption DEF Cook, View
  <2>4. QED
    BY <1>1, <1>3, <2>1, <2>2, <2>3
    DEF ClientOK, HasView, HasRequest, UpdateOK, CreateOK, ViewOK, LockOK, ClaimOK,
        Updates, Creates
<1>8. QED BY <1>5, <1>6, <1>7, QuietKeeps

LEMMA ReadProductsKeeps ==
  ASSUME IInv, NEW c \in Clients, ReadProducts(c)
  PROVE  IInv' /\ Quiet(c)
<1> DEFINE k == view[c].cook
<1>1. ClientOK(c) /\ pc[c] = "products" /\ view[c] \in View /\ k \in Cooks
  BY Typed DEF IInv, ReadProducts, ClientOK, HasView, View, Creates
<1>2. cooks[k] \in Cook
  BY <1>1, Typed, CookAssumption DEF IInv, ClientOK, ViewOK
<1>3. PICK seen \in {cooks[k].products}
                      \cup (IF draft[c] = Nothing THEN {} ELSE {draft[c].products}) :
        view' = [view EXCEPT ![c].products = seen]
  BY DEF ReadProducts
<1> DEFINE read == [view[c] EXCEPT !.products = seen]
<1>4. seen \in Products /\ seen # Nothing
  BY <1>2, <1>3, Typed, CookAssumption DEF IInv, Cook, Draft
<1>5. read \in View /\ read # Nothing
  BY <1>1, <1>4, CookAssumption DEF View
<1>6. view' = [view EXCEPT ![c] = read]
  BY <1>3
<1>7. TypeOK'
  BY <1>5, <1>6 DEF IInv, TypeOK, ReadProducts, Goto, Steps
<1>8. Quiet(c)
  BY <1>6 DEF IInv, TypeOK, ReadProducts, Goto, Quiet, Frame
<1>9. ClientOK(c)'
  <2>1. /\ pc'[c] = "viewing" /\ view'[c] = read /\ draft'[c] = Nothing
        /\ target'[c] = target[c] /\ sales'[c] = sales[c] /\ claim'[c] = claim[c]
        /\ cooks' = cooks
    BY <1>6 DEF IInv, TypeOK, ReadProducts, Goto
  <2>2. /\ read.cook = k /\ read.version = view[c].version
        /\ read.members = view[c].members /\ read.products = seen
    BY <1>1 DEF View
  <2>3. HasView(c)' /\ HasRequest(c)' /\ UpdateOK(c)' /\ CreateOK(c)' /\ LockOK(c)'
        /\ ClaimOK(c)'
    BY <1>1, <1>4, <1>5, <2>1, <2>2
    DEF ClientOK, HasView, HasRequest, UpdateOK, CreateOK, LockOK, ClaimOK,
        Updates, Creates
  <2>4. cooks[k].version = view[c].version => seen = cooks[k].products
    BY <1>1, <1>3, <1>4, CookAssumption DEF ClientOK, ViewOK, HasView
  <2>5. cooks[k].version = view[c].version =>
          view[c].members \in {Nothing, cooks[k].members}
    BY <1>1, CookAssumption DEF ClientOK, ViewOK
  <2>6. ViewOK(c)'
    <3> HIDE DEF k, read
    <3>1. cooks[k] # NoCook /\ view[c].version <= cooks[k].version
      BY <1>1, CookAssumption DEF ClientOK, ViewOK, k
    <3>2. QED BY <2>1, <2>2, <2>4, <2>5, <3>1 DEF ViewOK
  <2>7. QED BY <2>3, <2>6 DEF ClientOK
<1>10. QED BY <1>7, <1>8, <1>9, QuietKeeps

LEMMA CloseKeeps ==
  ASSUME IInv, NEW c \in Clients, Close(c)
  PROVE  IInv' /\ Quiet(c)
<1>1. TypeOK'
  BY DEF IInv, TypeOK, Close, Goto, Steps
<1>2. Quiet(c)
  BY DEF IInv, TypeOK, Close, Goto, Quiet, Frame
<1>3. ClientOK(c)'
  <2>1. /\ ClientOK(c) /\ pc[c] = "viewing" /\ pc'[c] = "idle" /\ view'[c] = Nothing
        /\ draft'[c] = draft[c] /\ target'[c] = target[c] /\ claim'[c] = claim[c]
    BY DEF IInv, TypeOK, Close, Goto
  <2>2. QED
    BY <2>1 DEF ClientOK, HasView, HasRequest, UpdateOK, CreateOK, ViewOK, LockOK, ClaimOK,
                Updates, Creates
<1>4. QED BY <1>1, <1>2, <1>3, QuietKeeps

LEMMA SubmitUpdateKeeps ==
  ASSUME IInv, NEW c \in Clients, SubmitUpdate(c)
  PROVE  IInv' /\ Quiet(c)
<1>1. /\ ClientOK(c) /\ pc[c] = "viewing" /\ view[c] \in View /\ view[c].cook \in Cooks
      /\ view[c].members \in SUBSET Member /\ view[c].version <= MaxVersion
      /\ view[c] # Nothing
  BY Typed DEF IInv, SubmitUpdate, ClientOK, HasView, View, Creates
<1>2. PICK keep \in SUBSET view[c].members, add \in SUBSET Users,
           products \in Products, date \in Dates :
        /\ UsersOf(keep) \cap add = {}
        /\ keep # {} \/ add # {}
        /\ draft' = [draft EXCEPT ![c] = [keep |-> keep, add |-> add,
                                          products |-> products, date |-> date]]
  BY DEF SubmitUpdate
<1> DEFINE body == [keep |-> keep, add |-> add, products |-> products, date |-> date]
<1>3. body \in Draft /\ body # Nothing
  BY <1>1, <1>2, CookAssumption DEF Draft
<1>4. TypeOK'
  BY <1>1, <1>2, <1>3 DEF IInv, TypeOK, SubmitUpdate, Goto, Steps
<1>5. Quiet(c)
  <2>1. cooks[view[c].cook] # NoCook
    BY <1>1 DEF ClientOK, ViewOK
  <2>2. QED BY <1>2, <2>1 DEF IInv, TypeOK, SubmitUpdate, Goto, Quiet, Frame
<1>6. ClientOK(c)'
  <2>1. /\ pc'[c] = "lock" /\ view'[c] = view[c] /\ draft'[c] = body
        /\ target'[c] = view[c].cook /\ sales'[c] = sales[c] /\ claim'[c] = claim[c]
        /\ cooks' = cooks
    BY <1>2 DEF IInv, TypeOK, SubmitUpdate, Goto
  <2>2. view[c].cook # Nothing
    BY <1>1, CookAssumption
  <2>3. QED
    BY <1>1, <1>2, <1>3, <2>1, <2>2
    DEF ClientOK, HasView, HasRequest, UpdateOK, CreateOK, ViewOK, LockOK, ClaimOK,
        Updates, Creates, UsersOf
<1>7. QED BY <1>4, <1>5, <1>6, QuietKeeps

LEMMA ReadUsersKeeps ==
  ASSUME IInv, NEW c \in Clients,
         ReadUsers(c, "users", "commit") \/ ReadUsers(c, "newUsers", "flush")
  PROVE  IInv' /\ Quiet(c)
<1>1. sale \in [Users -> Sales] /\ sale # Nothing
  BY CookAssumption DEF IInv, TypeOK
<1>2. TypeOK'
  BY <1>1 DEF IInv, TypeOK, ReadUsers, Goto, Steps
<1>3. Quiet(c)
  BY DEF IInv, TypeOK, ReadUsers, Goto, Quiet, Frame
<1>4. ClientOK(c)'
  <2>1. /\ ClientOK(c) /\ view' = view /\ draft' = draft /\ target' = target
        /\ claim' = claim /\ cooks' = cooks /\ lock' = lock /\ sales'[c] = sale
        /\ \/ pc[c] = "users" /\ pc'[c] = "commit"
           \/ pc[c] = "newUsers" /\ pc'[c] = "flush"
    BY DEF IInv, TypeOK, ReadUsers, Goto
  <2>2. QED
    BY <1>1, <2>1
    DEF ClientOK, HasView, HasRequest, UpdateOK, CreateOK, ViewOK, LockOK, ClaimOK,
        Updates, Creates, UsersOf
<1>5. QED BY <1>2, <1>3, <1>4, QuietKeeps

LEMMA ChangeSaleKeeps ==
  ASSUME IInv, NEW u \in Users, NEW s \in Sales, ChangeSale(u, s)
  PROVE  IInv'
<1>1. TypeOK'
  BY DEF IInv, TypeOK, ChangeSale
<1>2. CooksOK' /\ \A c \in Clients : ClientOK(c)'
  BY DEF IInv, ChangeSale, CooksOK, ClientOK, HasView, HasRequest, UpdateOK, CreateOK, ViewOK,
         LockOK, ClaimOK, UsersOf, OnDate, Unclaimed
<1>3. QED BY <1>1, <1>2 DEF IInv

-----------------------------------------------------------------------------
(* Updates *)

\* An update has read a cook, and asks for it.
LEMMA Updater ==
  ASSUME IInv, NEW c \in Clients, pc[c] \in Updates
  PROVE  /\ ClientOK(c)
         /\ view[c] \in View /\ draft[c] \in Draft /\ target[c] \in Cooks
         /\ claim[c] = Nothing /\ target[c] = view[c].cook /\ cooks[target[c]] \in Cook
         /\ view[c].members \in SUBSET Member /\ view[c].products \in Products
<1>1. ClientOK(c)
  BY DEF IInv
<1>2. view[c] \in View /\ draft[c] \in Draft /\ target[c] \in Cooks /\ claim[c] = Nothing
  BY <1>1, Typed DEF IInv, ClientOK, HasView, HasRequest, Updates, Creates
<1>3. target[c] = view[c].cook /\ cooks[target[c]] \in Cook
  BY <1>1, <1>2, Typed, CookAssumption DEF IInv, ClientOK, ViewOK, UpdateOK
<1>4. view[c].members \in SUBSET Member /\ view[c].products \in Products
  BY <1>1, <1>2 DEF View, ClientOK, HasView
<1>5. QED BY <1>1, <1>2, <1>3, <1>4

LEMMA LockCookKeeps ==
  ASSUME IInv, NEW c \in Clients, LockCook(c)
  PROVE  IInv' /\ Quiet(c)
<1>1. /\ pc[c] = "lock" /\ ClientOK(c) /\ target[c] \in Cooks /\ claim[c] = Nothing
      /\ view[c] \in View /\ target[c] = view[c].cook
  BY Updater DEF LockCook, Updates
<1>2. CASE ~ CurrentVersion(c)
  BY <1>1, <1>2, AbandonKeeps DEF LockCook
<1>3. CASE CurrentVersion(c)
  <2>1. /\ lock[target[c]] = Nobody /\ lock' = [lock EXCEPT ![target[c]] = c]
        /\ UNCHANGED <<cooks, sale, claim, view, draft, target, sales>>
        /\ pc' = [pc EXCEPT ![c] = "date"]
    BY <1>3 DEF LockCook, Goto
  <2>2. TypeOK'
    BY <2>1 DEF IInv, TypeOK, Steps
  <2>3. Quiet(c)
    BY <2>1, CookAssumption DEF IInv, TypeOK, Quiet, Frame
  <2>4. ClientOK(c)'
    <3>1. pc'[c] = "date" /\ lock'[target[c]] = c
      BY <1>1, <2>1 DEF IInv, TypeOK
    <3>2. QED
      BY <1>1, <1>3, <2>1, <3>1
      DEF ClientOK, HasView, HasRequest, UpdateOK, CreateOK, ViewOK, LockOK, ClaimOK,
          Updates, Creates, UsersOf, CurrentVersion
  <2>5. QED BY <2>2, <2>3, <2>4, QuietKeeps
<1>4. QED BY <1>2, <1>3

LEMMA CheckUpdateKeeps ==
  ASSUME IInv, NEW c \in Clients, CheckUpdate(c)
  PROVE  IInv' /\ Quiet(c)
<1>1. pc[c] = "date" /\ ClientOK(c) /\ claim[c] = Nothing
  BY Updater DEF CheckUpdate, Updates
<1>2. CASE ~ (OnDate(c, draft[c].date) = {} /\ Known(c))
  BY <1>1, <1>2, AbandonKeeps DEF CheckUpdate
<1>3. CASE OnDate(c, draft[c].date) = {} /\ Known(c)
  <2>1. /\ UNCHANGED <<cooks, sale, lock, claim, view, draft, target, sales>>
        /\ pc' = [pc EXCEPT ![c] = "users"]
    BY <1>3 DEF CheckUpdate, Goto
  <2>2. TypeOK'
    BY <2>1 DEF IInv, TypeOK, Steps
  <2>3. Quiet(c)
    BY <2>1 DEF IInv, TypeOK, Quiet, Frame
  <2>4. ClientOK(c)'
    <3>1. pc'[c] = "users"
      BY <2>1 DEF IInv, TypeOK
    <3>2. QED
      BY <1>1, <2>1, <3>1
      DEF ClientOK, HasView, HasRequest, UpdateOK, CreateOK, ViewOK, LockOK, ClaimOK,
          Updates, Creates, UsersOf
  <2>5. QED BY <2>2, <2>3, <2>4, QuietKeeps
<1>4. QED BY <1>2, <1>3

\* The cook an update replaces is the cook its author saw.
LEMMA SeenIsReplaced ==
  ASSUME IInv, NEW c \in Clients, pc[c] \in {"date", "users", "commit"}
  PROVE  /\ cooks[target[c]].version = view[c].version
         /\ view[c].members = cooks[target[c]].members
         /\ view[c].products = cooks[target[c]].products
<1>1. /\ ClientOK(c) /\ view[c] \in View /\ target[c] = view[c].cook
      /\ view[c].members \in SUBSET Member /\ view[c].products \in Products
  BY Updater DEF Updates
<1>2. view[c].members # Nothing /\ view[c].products # Nothing
  BY <1>1, CookAssumption
<1>3. QED
  BY <1>1, <1>2, CookAssumption DEF ClientOK, LockOK, ViewOK

\* Those who join: one row per user, with a discount of that user.
LEMMA AddedRows ==
  ASSUME NEW c \in Clients, NEW version, sales[c] \in [Users -> Sales],
         draft[c].add \subseteq Users
  PROVE  /\ Added(c, version) \subseteq [user : Users, since : {version}, sale : Sales]
         /\ \A m, n \in Added(c, version) : m.user = n.user => m = n
         /\ \A n \in Added(c, version) : n.user \in draft[c].add
         /\ draft[c].add # {} => Added(c, version) # {}
<1> DEFINE row(u) == [user |-> u, since |-> version, sale |-> sales[c][u]]
<1>1. \A n : n \in Added(c, version) <=> \E u \in draft[c].add : n = row(u)
  BY DEF Added
<1>2. \A u \in draft[c].add : row(u) \in [user : Users, since : {version}, sale : Sales]
  OBVIOUS
<1>3. \A u : row(u).user = u
  OBVIOUS
<1> HIDE DEF row
<1>4. QED BY <1>1, <1>2, <1>3

\* The member rows after an update: well typed, some of them as they were, one per user.
LEMMA Replacement ==
  ASSUME IInv, NEW c \in Clients, pc[c] = "commit"
  PROVE  LET version == view[c].version + 1
             old == cooks[target[c]].members
         IN  /\ version \in 1 .. MaxVersion + 1
             /\ draft[c].keep \subseteq Kept(c) /\ Kept(c) \subseteq old
             /\ Added(c, version) \subseteq [user : Users, since : {version}, sale : Sales]
             /\ \A m, n \in Added(c, version) : m.user = n.user => m = n
             /\ \A m \in Kept(c), n \in Added(c, version) : m.user # n.user
             /\ Kept(c) \cup Added(c, version) # {}
<1> DEFINE version == view[c].version + 1
           old == cooks[target[c]].members
<1>1. /\ ClientOK(c) /\ view[c] \in View /\ draft[c] \in Draft
      /\ cooks[target[c]] \in Cook
  BY Updater DEF Updates
<1>2. sales[c] \in [Users -> Sales]
  BY <1>1, Typed DEF IInv, ClientOK, HasRequest
<1>3. /\ draft[c].keep \subseteq old /\ draft[c].add \subseteq Users
      /\ view[c].version <= MaxVersion
      /\ UsersOf(draft[c].keep) \cap draft[c].add = {}
      /\ draft[c].keep # {} \/ draft[c].add # {}
  BY <1>1, SeenIsReplaced DEF ClientOK, UpdateOK, Draft, Updates
<1>4. version \in 1 .. MaxVersion + 1
  BY <1>1, <1>3, CookAssumption DEF View
<1>5. draft[c].keep \subseteq Kept(c) /\ Kept(c) \subseteq old
  BY <1>3 DEF Kept
<1> HIDE DEF version
<1>6. /\ Added(c, version) \subseteq [user : Users, since : {version}, sale : Sales]
      /\ \A m, n \in Added(c, version) : m.user = n.user => m = n
      /\ \A n \in Added(c, version) : n.user \in draft[c].add
      /\ draft[c].add # {} => Added(c, version) # {}
  BY <1>2, <1>3, AddedRows
<1>7. \A m \in Kept(c) : m.user \in UsersOf(draft[c].keep)
  BY DEF Kept, UsersOf
<1>8. \A m \in Kept(c), n \in Added(c, version) : m.user # n.user
  BY <1>3, <1>6, <1>7
<1>9. Kept(c) \cup Added(c, version) # {}
  BY <1>3, <1>5, <1>6
<1>10. QED BY <1>4, <1>5, <1>6, <1>8, <1>9 DEF version

\* The row an update commits.
Replaced(c) ==
  LET version == view[c].version + 1
  IN  [date |-> draft[c].date, version |-> version,
       members |-> Kept(c) \cup Added(c, version), products |-> draft[c].products]

LEMMA ReplacedRow ==
  ASSUME IInv, NEW c \in Clients, pc[c] = "commit"
  PROVE  Replaced(c) \in Cook
<1> DEFINE version == view[c].version + 1
           members == Kept(c) \cup Added(c, version)
<1>1. draft[c] \in Draft /\ cooks[target[c]] \in Cook
  BY Updater DEF Updates
<1>2. /\ version \in 1 .. MaxVersion + 1
      /\ Kept(c) \subseteq cooks[target[c]].members
      /\ Added(c, version) \subseteq [user : Users, since : {version}, sale : Sales]
  BY Replacement
<1> HIDE DEF version
<1>3. members \in SUBSET Member
  BY <1>1, <1>2 DEF Cook, Member
<1> HIDE DEF members
<1>4. [date |-> draft[c].date, version |-> version, members |-> members,
       products |-> draft[c].products] \in Cook
  BY <1>1, <1>2, <1>3 DEF Cook, Draft
<1>5. QED BY <1>4 DEF Replaced, members, version

\* What a commit that is not refused does.
LEMMA CommitUpdateWrites ==
  ASSUME IInv, NEW c \in Clients, CommitUpdate(c), OnDate(c, draft[c].date) = {}
  PROVE  LET read == [cook |-> target[c], version |-> view[c].version + 1,
                      members |-> Nothing, products |-> Nothing]
         IN  /\ pc[c] = "commit" /\ Unclaimed(c, draft[c].date)
             /\ cooks' = [cooks EXCEPT ![target[c]] = Replaced(c)]
             /\ lock' = [lock EXCEPT ![target[c]] = Nobody]
             /\ view' = [view EXCEPT ![c] = read]
             /\ target' = [target EXCEPT ![c] = Nothing]
             /\ sales' = [sales EXCEPT ![c] = Nothing]
             /\ pc' = [pc EXCEPT ![c] = "members"]
             /\ UNCHANGED <<draft, sale, claim>>
BY DEF CommitUpdate, Replaced, Goto

LEMMA CommitUpdateKeeps ==
  ASSUME IInv, NEW c \in Clients, CommitUpdate(c)
  PROVE  IInv'
<1>1. pc[c] = "commit" /\ claim[c] = Nothing
  BY Updater DEF CommitUpdate, Updates
<1>2. CASE OnDate(c, draft[c].date) # {}
  BY <1>1, <1>2, AbandonKeeps DEF CommitUpdate
<1>3. CASE OnDate(c, draft[c].date) = {}
  <2> DEFINE k == target[c]
             version == view[c].version + 1
             read == [cook |-> k, version |-> version,
                      members |-> Nothing, products |-> Nothing]
  <2>1. /\ ClientOK(c) /\ view[c] \in View /\ draft[c] \in Draft /\ k \in Cooks
        /\ cooks[k] \in Cook /\ cooks[k] # NoCook /\ cooks[k].version = view[c].version
    BY <1>1, Updater, SeenIsReplaced, CookAssumption DEF Updates
  <2>2. /\ Replaced(c) \in Cook /\ Replaced(c) # NoCook
        /\ Replaced(c).version = version /\ Replaced(c).date = draft[c].date
        /\ Replaced(c).products = draft[c].products
        /\ Replaced(c).members = Kept(c) \cup Added(c, version)
    BY <1>1, ReplacedRow, CookAssumption DEF Replaced
  <2>3. version \in Nat /\ view[c].version \in Nat /\ version = view[c].version + 1
        /\ version \in 1 .. MaxVersion + 1
    BY <1>1, <2>1, Replacement, CookAssumption DEF View
  <2>4. read \in View /\ read # Nothing
    BY <2>1, <2>3, CookAssumption DEF View
  <2> HIDE DEF read
  <2>5. /\ Unclaimed(c, draft[c].date)
        /\ cooks' = [cooks EXCEPT ![k] = Replaced(c)]
        /\ lock' = [lock EXCEPT ![k] = Nobody]
        /\ view' = [view EXCEPT ![c] = read]
        /\ target' = [target EXCEPT ![c] = Nothing]
        /\ sales' = [sales EXCEPT ![c] = Nothing]
        /\ pc' = [pc EXCEPT ![c] = "members"]
        /\ UNCHANGED <<draft, sale, claim>>
    BY <1>3, CommitUpdateWrites DEF read
  <2> HIDE DEF k, version
  <2>6. TypeOK'
    BY <2>1, <2>2, <2>4, <2>5 DEF IInv, TypeOK, Steps
  <2>7. /\ cooks'[k] = Replaced(c)
        /\ \A x \in Cooks \ {k} : cooks'[x] = cooks[x]
        /\ Frame(c)
        /\ pc'[c] = "members" /\ view'[c] = read /\ draft'[c] = draft[c]
        /\ target'[c] = Nothing /\ sales'[c] = Nothing /\ claim'[c] = Nothing
        /\ lock'[k] = Nobody
        /\ \A x \in Cooks \ {k} : lock'[x] = lock[x]
    BY <1>1, <2>1, <2>5 DEF IInv, TypeOK, Frame
  <2>8. CooksOK'
    <3>1. \A x \in Cooks \ {k} : cooks[x] # NoCook => cooks[x].date # draft[c].date
      BY <1>3 DEF OnDate, k
    <3>2. \A m, n \in Replaced(c).members : m.user = n.user => m = n
      <4>1. \A m, n \in Kept(c) : m.user = n.user => m = n
        BY <2>1, <1>1, Replacement DEF IInv, CooksOK, k
      <4>2. QED BY <1>1, <2>2, <4>1, Replacement DEF version
    <3>3. QED BY <2>2, <2>7, <3>1, <3>2 DEF IInv, CooksOK
  <2>9. ClientOK(c)'
    <3>1. /\ read.cook = k /\ read.version = version
          /\ read.members = Nothing /\ read.products = Nothing
      BY DEF read
    <3>2. draft[c] # Nothing
      BY <2>1, CookAssumption
    <3>3. QED
      BY <2>2, <2>3, <2>4, <2>7, <3>1, <3>2
      DEF ClientOK, HasView, HasRequest, UpdateOK, CreateOK, ViewOK, LockOK, ClaimOK,
          Updates, Creates
  <2>10. ASSUME NEW x \in Clients \ {c}
         PROVE  ClientOK(x)'
    <3>1. /\ ClientOK(x) /\ target[x] \in Cooks \cup {Nothing}
          /\ claim[x] \in Dates \cup {Nothing} /\ view[x] \in View \cup {Nothing}
      BY Typed DEF IInv
    <3>2. HasView(x)' /\ HasRequest(x)' /\ UpdateOK(x)'
      BY <2>7, <3>1, OwnKept DEF ClientOK
    <3>3. CreateOK(x)'
      BY <2>1, <2>7, <3>1, CookAssumption DEF ClientOK, CreateOK, HasRequest, Frame, Creates
    <3>4. ViewOK(x)'
      <4>1. CASE view[x] = Nothing
        BY <2>7, <4>1 DEF ViewOK, Frame
      <4>2. CASE view[x] # Nothing /\ view[x].cook = k
        <5>1. view[x].version <= view[c].version /\ view[x].version \in Nat
          BY <2>1, <3>1, <4>2, CookAssumption DEF ClientOK, ViewOK, View
        <5>2. QED BY <2>2, <2>3, <2>7, <4>2, <5>1 DEF ViewOK, Frame
      <4>3. CASE view[x] # Nothing /\ view[x].cook # k
        <5>1. view[x].cook \in Cooks \ {k}
          BY <3>1, <4>3 DEF View
        <5>2. QED BY <2>7, <3>1, <4>3, <5>1 DEF ClientOK, ViewOK, Frame
      <4>4. QED BY <4>1, <4>2, <4>3
    <3>5. LockOK(x)'
      <4>1. pc[x] \in {"date", "users", "commit"} => target[x] \in Cooks \ {k}
        <5>1. lock[k] = c
          BY <1>1, <2>1 DEF ClientOK, LockOK, k
        <5>2. QED BY <3>1, <5>1 DEF ClientOK, HasRequest, LockOK, Updates
      <4>2. QED BY <2>7, <3>1, <4>1 DEF ClientOK, LockOK, Frame
    <3>6. ClaimOK(x)'
      <4>1. claim[x] # Nothing => claim[x] # draft[c].date
        BY <2>5 DEF Unclaimed
      <4>2. QED
        BY <2>2, <2>7, <3>1, <4>1 DEF ClientOK, ClaimOK, OnDate, Unclaimed, Frame
    <3>7. QED BY <3>2, <3>3, <3>4, <3>5, <3>6 DEF ClientOK
  <2>11. QED BY <2>6, <2>8, <2>9, <2>10 DEF IInv
<1>4. QED BY <1>2, <1>3

-----------------------------------------------------------------------------
(* Creates *)

LEMMA SubmitCreateKeeps ==
  ASSUME IInv, NEW c \in Clients, SubmitCreate(c)
  PROVE  IInv' /\ Quiet(c)
<1>1. PICK k \in Cooks, add \in (SUBSET Users) \ {{}}, products \in Products, date \in Dates :
        /\ cooks[k] = NoCook
        /\ \A x \in Clients : target[x] # k
        /\ draft' = [draft EXCEPT ![c] = [keep |-> {}, add |-> add,
                                          products |-> products, date |-> date]]
        /\ target' = [target EXCEPT ![c] = k]
  BY DEF SubmitCreate
<1> DEFINE body == [keep |-> {}, add |-> add, products |-> products, date |-> date]
<1>2. body \in Draft /\ body # Nothing /\ body.add # {}
  <2>1. add \in SUBSET Users /\ add # {} /\ {} \in SUBSET Member
    OBVIOUS
  <2>2. body \in Draft /\ body.add # {}
    BY <2>1 DEF Draft
  <2>3. QED BY <2>2, CookAssumption
<1> HIDE DEF body
<1>3. /\ draft' = [draft EXCEPT ![c] = body]
      /\ target' = [target EXCEPT ![c] = k]
      /\ pc[c] = "idle" /\ pc' = [pc EXCEPT ![c] = "newDate"]
      /\ UNCHANGED <<cooks, sale, lock, claim, view, sales>>
  BY <1>1 DEF body, SubmitCreate, Goto
<1>4. TypeOK'
  BY <1>2, <1>3 DEF IInv, TypeOK, Steps
<1>5. Quiet(c)
  BY <1>1, <1>3 DEF IInv, TypeOK, Quiet, Frame
<1>6. ClientOK(c)'
  <2>1. /\ ClientOK(c) /\ pc[c] = "idle" /\ pc'[c] = "newDate" /\ view'[c] = view[c]
        /\ draft'[c] = body /\ target'[c] = k /\ claim'[c] = claim[c] /\ cooks' = cooks
        /\ \A x \in Clients \ {c} : target'[x] # k
    BY <1>1, <1>3 DEF IInv, TypeOK
  <2>2. k # Nothing
    BY CookAssumption
  <2>3. QED
    BY <1>1, <1>2, <2>1, <2>2
    DEF ClientOK, HasView, HasRequest, UpdateOK, CreateOK, ViewOK, LockOK, ClaimOK,
        Updates, Creates
<1>7. QED BY <1>4, <1>5, <1>6, QuietKeeps

\* A create has asked for a cook nobody else asks for.
LEMMA Creator ==
  ASSUME IInv, NEW c \in Clients, pc[c] \in Creates
  PROVE  /\ ClientOK(c)
         /\ view[c] = Nothing /\ draft[c] \in Draft /\ draft[c] # Nothing
         /\ target[c] \in Cooks /\ cooks[target[c]] = NoCook
         /\ pc[c] # "newCommit" => claim[c] = Nothing
<1>1. ClientOK(c)
  BY DEF IInv
<1>2. QED
  BY <1>1, Typed DEF IInv, ClientOK, HasView, HasRequest, CreateOK, Updates, Creates

LEMMA CheckCreateKeeps ==
  ASSUME IInv, NEW c \in Clients, CheckCreate(c)
  PROVE  IInv' /\ Quiet(c)
<1>1. pc[c] = "newDate" /\ ClientOK(c) /\ claim[c] = Nothing
  BY Creator DEF CheckCreate, Creates
<1>2. CASE OnDate(c, draft[c].date) # {}
  BY <1>1, <1>2, AbandonKeeps DEF CheckCreate
<1>3. CASE OnDate(c, draft[c].date) = {}
  <2>1. /\ UNCHANGED <<cooks, sale, lock, claim, view, draft, target, sales>>
        /\ pc' = [pc EXCEPT ![c] = "newUsers"]
    BY <1>3 DEF CheckCreate, Goto
  <2>2. TypeOK'
    BY <2>1 DEF IInv, TypeOK, Steps
  <2>3. Quiet(c)
    BY <2>1 DEF IInv, TypeOK, Quiet, Frame
  <2>4. ClientOK(c)'
    <3>1. pc'[c] = "newUsers"
      BY <2>1 DEF IInv, TypeOK
    <3>2. QED
      BY <1>1, <2>1, <3>1
      DEF ClientOK, HasView, HasRequest, UpdateOK, CreateOK, ViewOK, LockOK, ClaimOK,
          Updates, Creates
  <2>5. QED BY <2>2, <2>3, <2>4, QuietKeeps
<1>4. QED BY <1>2, <1>3

LEMMA FlushCreateKeeps ==
  ASSUME IInv, NEW c \in Clients, FlushCreate(c)
  PROVE  IInv' /\ Quiet(c)
<1>1. /\ pc[c] = "flush" /\ ClientOK(c) /\ claim[c] = Nothing /\ draft[c] \in Draft
      /\ Unclaimed(c, draft[c].date)
  BY Creator DEF FlushCreate, Creates
<1>2. CASE OnDate(c, draft[c].date) # {}
  BY <1>1, <1>2, AbandonKeeps DEF FlushCreate
<1>3. CASE OnDate(c, draft[c].date) = {}
  <2>1. /\ UNCHANGED <<cooks, sale, lock, view, draft, target, sales>>
        /\ claim' = [claim EXCEPT ![c] = draft[c].date]
        /\ pc' = [pc EXCEPT ![c] = "newCommit"]
    BY <1>3 DEF FlushCreate, Goto
  <2>2. draft[c].date \in Dates /\ draft[c].date # Nothing
    BY <1>1, CookAssumption DEF Draft
  <2>3. TypeOK'
    BY <2>1, <2>2 DEF IInv, TypeOK, Steps
  <2>4. pc'[c] = "newCommit" /\ claim'[c] = draft[c].date /\ Frame(c)
    BY <2>1 DEF IInv, TypeOK, Frame
  <2>5. Quiet(c)
    BY <1>1, <2>1, <2>4 DEF Quiet
  <2>6. ClientOK(c)'
    <3>1. OnDate(c, draft[c].date)' = {} /\ Unclaimed(c, draft[c].date)'
      BY <1>1, <1>3, <2>1, <2>4 DEF OnDate, Unclaimed, Frame
    <3>2. QED
      BY <1>1, <2>1, <2>2, <2>4, <3>1
      DEF ClientOK, HasView, HasRequest, UpdateOK, CreateOK, ViewOK, LockOK, ClaimOK,
          Updates, Creates
  <2>7. QED BY <2>3, <2>5, <2>6, QuietKeeps
<1>4. QED BY <1>2, <1>3

\* The row a create commits.
Created(c) ==
  [date |-> draft[c].date, version |-> 1, members |-> Added(c, 1),
   products |-> draft[c].products]

LEMMA CreatedRow ==
  ASSUME IInv, NEW c \in Clients, pc[c] = "newCommit"
  PROVE  /\ Created(c) \in Cook
         /\ Added(c, 1) \subseteq [user : Users, since : {1}, sale : Sales]
         /\ \A m, n \in Added(c, 1) : m.user = n.user => m = n
         /\ Added(c, 1) # {}
<1>1. ClientOK(c) /\ draft[c] \in Draft
  BY Creator DEF Creates
<1>2. sales[c] \in [Users -> Sales] /\ draft[c].add # {} /\ draft[c].add \subseteq Users
  BY <1>1, Typed DEF IInv, ClientOK, HasRequest, CreateOK, Draft, Creates
<1>3. /\ Added(c, 1) \subseteq [user : Users, since : {1}, sale : Sales]
      /\ \A m, n \in Added(c, 1) : m.user = n.user => m = n
      /\ Added(c, 1) # {}
  BY <1>2, AddedRows
<1>4. 1 \in 1 .. MaxVersion + 1
  BY CookAssumption
<1>5. Added(c, 1) \in SUBSET Member
  BY <1>3, <1>4 DEF Member
<1>6. QED BY <1>1, <1>3, <1>4, <1>5 DEF Created, Cook, Draft

LEMMA CommitCreateKeeps ==
  ASSUME IInv, NEW c \in Clients, CommitCreate(c)
  PROVE  IInv'
<1> DEFINE k == target[c]
           read == [cook |-> k, version |-> 1, members |-> Nothing, products |-> Nothing]
<1>1. /\ pc[c] = "newCommit" /\ ClientOK(c) /\ draft[c] \in Draft /\ draft[c] # Nothing
      /\ k \in Cooks /\ cooks[k] = NoCook
  BY Creator DEF CommitCreate, Creates
<1>2. /\ Created(c) \in Cook /\ Created(c) # NoCook
      /\ Created(c).version = 1 /\ Created(c).date = draft[c].date
      /\ Created(c).products = draft[c].products /\ Created(c).members = Added(c, 1)
  BY <1>1, CreatedRow, CookAssumption DEF Created
<1>3. /\ claim[c] = draft[c].date /\ claim[c] # Nothing
      /\ OnDate(c, draft[c].date) = {} /\ Unclaimed(c, draft[c].date)
  BY <1>1 DEF ClientOK, ClaimOK, HasRequest
<1>4. read \in View /\ read # Nothing
  BY <1>1, CookAssumption DEF View
<1>5. cooks' = [cooks EXCEPT ![k] = Created(c)]
  BY DEF CommitCreate, Created
<1> HIDE DEF read
<1>6. /\ view' = [view EXCEPT ![c] = read]
      /\ claim' = [claim EXCEPT ![c] = Nothing]
      /\ target' = [target EXCEPT ![c] = Nothing]
      /\ sales' = [sales EXCEPT ![c] = Nothing]
      /\ pc' = [pc EXCEPT ![c] = "members"]
      /\ UNCHANGED <<sale, lock, draft>>
  BY DEF CommitCreate, Goto, read
<1> HIDE DEF k
<1>7. TypeOK'
  BY <1>1, <1>2, <1>4, <1>5, <1>6 DEF IInv, TypeOK, Steps
<1>8. /\ cooks'[k] = Created(c)
      /\ \A x \in Cooks \ {k} : cooks'[x] = cooks[x]
      /\ Frame(c)
      /\ pc'[c] = "members" /\ view'[c] = read /\ draft'[c] = draft[c]
      /\ target'[c] = Nothing /\ sales'[c] = Nothing /\ claim'[c] = Nothing
      /\ lock' = lock
  BY <1>1, <1>5, <1>6 DEF IInv, TypeOK, Frame
<1>9. CooksOK'
  <2>1. \A x \in Cooks \ {k} : cooks[x] # NoCook => cooks[x].date # draft[c].date
    BY <1>3 DEF OnDate, k
  <2>2. \A m, n \in Created(c).members : m.user = n.user => m = n
    BY <1>1, <1>2, CreatedRow
  <2>3. QED BY <1>2, <1>8, <2>1, <2>2 DEF IInv, CooksOK
<1>10. ClientOK(c)'
  <2>1. /\ read.cook = k /\ read.version = 1
        /\ read.members = Nothing /\ read.products = Nothing
    BY DEF read
  <2>2. QED
    BY <1>1, <1>2, <1>4, <1>8, <2>1
    DEF ClientOK, HasView, HasRequest, UpdateOK, CreateOK, ViewOK, LockOK, ClaimOK,
        Updates, Creates
<1>11. ASSUME NEW x \in Clients \ {c}
       PROVE  ClientOK(x)'
  <2>1. /\ ClientOK(x) /\ target[x] \in Cooks \cup {Nothing}
        /\ claim[x] \in Dates \cup {Nothing} /\ view[x] \in View \cup {Nothing}
    BY Typed DEF IInv
  <2>2. HasView(x)' /\ HasRequest(x)' /\ UpdateOK(x)'
    BY <1>8, <2>1, OwnKept DEF ClientOK
  <2>3. target[x] # k
    BY <1>1 DEF ClientOK, CreateOK, Creates, k
  <2>4. CreateOK(x)'
    BY <1>1, <1>8, <2>1, <2>3 DEF ClientOK, CreateOK, HasRequest, Frame, Creates
  <2>5. ViewOK(x)'
    <3>1. view[x] # Nothing => view[x].cook \in Cooks \ {k}
      BY <1>1, <2>1 DEF ClientOK, ViewOK, View
    <3>2. QED BY <1>8, <2>1, <3>1 DEF ClientOK, ViewOK, Frame
  <2>6. LockOK(x)'
    BY <1>8, <2>1, <2>3 DEF ClientOK, LockOK, HasRequest, Frame, Updates
  <2>7. ClaimOK(x)'
    <3>1. claim[x] # Nothing => claim[x] # draft[c].date
      BY <1>3 DEF Unclaimed
    <3>2. QED
      BY <1>2, <1>8, <2>1, <3>1 DEF ClientOK, ClaimOK, OnDate, Unclaimed, Frame
  <2>8. QED BY <2>2, <2>4, <2>5, <2>6, <2>7 DEF ClientOK
<1>12. QED BY <1>7, <1>9, <1>10, <1>11 DEF IInv

-----------------------------------------------------------------------------
(* What CookEditing keeps *)

LEMMA InitHolds == Init => IInv
<1> SUFFICES ASSUME Init PROVE IInv
  OBVIOUS
<1>1. TypeOK /\ CooksOK
  BY CookAssumption DEF Init, TypeOK, CooksOK, Steps
<1>2. ASSUME NEW c \in Clients PROVE ClientOK(c)
  BY DEF Init, ClientOK, HasView, HasRequest, UpdateOK, CreateOK, ViewOK, LockOK, ClaimOK,
         Updates, Creates
<1>3. QED BY <1>1, <1>2 DEF IInv

LEMMA StepKeeps == IInv /\ [Next]_vars => IInv'
<1> SUFFICES ASSUME IInv, [Next]_vars PROVE IInv'
  OBVIOUS
<1>1. ASSUME NEW c \in Clients, NEW k \in Cooks, ReadCook(c, k) PROVE IInv'
  BY <1>1, ReadCookKeeps
<1>2. ASSUME NEW c \in Clients, Reading(c) PROVE IInv'
  BY <1>2, ReadMembersKeeps, ReadProductsKeeps DEF Reading
<1>3. ASSUME NEW c \in Clients, Updating(c) PROVE IInv'
  BY <1>3, LockCookKeeps, CheckUpdateKeeps, ReadUsersKeeps, CommitUpdateKeeps DEF Updating
<1>4. ASSUME NEW c \in Clients, Creating(c) PROVE IInv'
  BY <1>4, CheckCreateKeeps, ReadUsersKeeps, FlushCreateKeeps, CommitCreateKeeps DEF Creating
<1>5. ASSUME NEW c \in Clients, SubmitUpdate(c) \/ SubmitCreate(c) \/ Close(c) PROVE IInv'
  BY <1>5, SubmitUpdateKeeps, SubmitCreateKeeps, CloseKeeps
<1>6. ASSUME NEW u \in Users, NEW s \in Sales, ChangeSale(u, s) PROVE IInv'
  BY <1>6, ChangeSaleKeeps
<1>7. CASE UNCHANGED vars
  BY <1>7 DEF vars, IInv, TypeOK, CooksOK, ClientOK, HasView, HasRequest, UpdateOK, CreateOK,
              ViewOK, LockOK, ClaimOK, UsersOf, OnDate, Unclaimed
<1>8. QED BY <1>1, <1>2, <1>3, <1>4, <1>5, <1>6, <1>7 DEF Next

LEMMA Invariant == Spec => []IInv
BY InitHolds, StepKeeps, PTL DEF Spec

\* The rows and what requests hold are what they should be (cooks.py:120-435).
THEOREM TypeCorrect == Spec => []TypeOK
<1>1. IInv => TypeOK
  BY DEF IInv
<1>2. QED BY <1>1, Invariant, PTL

\* One cook per date, one row per user and cook, for requests that look both up before
\* they write (cooks.py:163, 278, 422-432).
THEOREM CooksUnique == Spec => []CooksOK
<1>1. IInv => CooksOK
  BY DEF IInv
<1>2. QED BY <1>1, Invariant, PTL

\* What a client has read in several statements is what was committed, if its version is
\* still the current one (cooks.py:157-161, 421, 433, 563-605).
THEOREM ReadsAreWhole == Spec => []CurrentViewIsTrue
<1>1. IInv => CurrentViewIsTrue
  BY DEF IInv, ClientOK, ViewOK, CurrentViewIsTrue, Complete
<1>2. QED BY <1>1, Invariant, PTL

\* An update replaces exactly the state its author saw (cooks.py:270-277, 421-423).
THEOREM UpdatesLoseNothing == Spec => NoLostUpdate
<1> DEFINE Seen(c) ==
      pc[c] = "commit" /\ cooks' # cooks /\ pc'[c] # pc[c] =>
        /\ view[c].members = cooks[target[c]].members
        /\ view[c].products = cooks[target[c]].products
<1>1. IInv => \A c \in Clients : Seen(c)
  BY SeenIsReplaced
<1>2. IInv /\ [Next]_vars => [\A c \in Clients : Seen(c)]_vars
  BY <1>1
<1>3. QED BY <1>2, Invariant, PTL DEF Spec, NoLostUpdate

-----------------------------------------------------------------------------
(* The store of cooks that CookEditing implements *)

LEMMA KnowsKept ==
  ASSUME NEW x \in Clients, view'[x] = view[x],
         view[x] # Nothing => cooks'[view[x].cook] = cooks[view[x].cook]
  PROVE  Knows(x)' = Knows(x)
BY DEF Knows, Complete

\* A quiet step teaches a client a cook, or lets it forget one.
LEMMA QuietRefines ==
  ASSUME IInv', NEW c \in Clients, Quiet(c)
  PROVE  Store!Next
<1>1. \A x \in Clients \ {c} : Knows(x)' = Knows(x)
  BY KnowsKept DEF Quiet, Frame
<1>2. Knows(c)' = Nothing \/ \E k \in Cooks : Knows(c)' = k /\ cooks[k] # NoCook
  <2>1. view'[c] # Nothing => view'[c].cook \in Cooks /\ cooks'[view'[c].cook] # NoCook
    BY DEF IInv, TypeOK, ClientOK, ViewOK, View
  <2>2. QED BY <2>1 DEF Knows, Complete, Quiet
<1>3. cooks' = cooks
  BY DEF Quiet
<1>4. CASE Knows(c)' = Nothing
  <2>1. Store!Forget(c)
    BY <1>1, <1>3, <1>4 DEF Store!Forget
  <2>2. QED BY <2>1 DEF Store!Next
<1>5. CASE \E k \in Cooks : Knows(c)' = k /\ cooks[k] # NoCook
  <2>1. PICK k \in Cooks : Knows(c)' = k /\ cooks[k] # NoCook
    BY <1>5
  <2>2. Store!Learn(c, k)
    BY <1>1, <1>3, <2>1 DEF Store!Learn
  <2>3. QED BY <2>2 DEF Store!Next
<1>6. QED BY <1>2, <1>4, <1>5

LEMMA ReplaceHolds ==
  ASSUME NEW c,
         view[c].version = cooks[target[c]].version,
         draft[c].date \in Dates, draft[c].products \in Products,
         Kept(c) \in SUBSET cooks[target[c]].members,
         Added(c, cooks[target[c]].version + 1)
           \in SUBSET [user : Users, since : {cooks[target[c]].version + 1}, sale : Sales],
         Store!Free(target[c], draft[c].date),
         Store!Joining(Added(c, cooks[target[c]].version + 1), cooks[target[c]].version + 1),
         \A m \in Kept(c), n \in Added(c, cooks[target[c]].version + 1) : m.user # n.user,
         Kept(c) \cup Added(c, cooks[target[c]].version + 1) # {},
         cooks' = [cooks EXCEPT ![target[c]] = Replaced(c)],
         [x \in Clients |-> Knows(x)][c] = target[c],
         [x \in Clients |-> Knows(x)]'
           = [x \in Clients |-> IF [y \in Clients |-> Knows(y)][x] = target[c] THEN Nothing
                                ELSE [y \in Clients |-> Knows(y)][x]]
  PROVE  Store!Replace(c, target[c])
<1> DEFINE version == cooks[target[c]].version + 1
<1>1. cooks' = [cooks EXCEPT
        ![target[c]] = [date |-> draft[c].date, version |-> version,
                        members |-> Kept(c) \cup Added(c, version),
                        products |-> draft[c].products]]
  BY DEF Replaced
<1>2. \E d \in Dates, keep \in SUBSET cooks[target[c]].members,
         add \in SUBSET [user : Users, since : {version}, sale : Sales],
         products \in Products :
        /\ Store!Free(target[c], d) /\ Store!Joining(add, version)
        /\ \A m \in keep, n \in add : m.user # n.user
        /\ keep \cup add # {}
        /\ cooks' = [cooks EXCEPT
             ![target[c]] = [date |-> d, version |-> version, members |-> keep \cup add,
                             products |-> products]]
  <2> WITNESS draft[c].date \in Dates, Kept(c) \in SUBSET cooks[target[c]].members,
              Added(c, version)
                \in SUBSET [user : Users, since : {version}, sale : Sales],
              draft[c].products \in Products
  <2>1. QED BY <1>1
<1>3. QED BY <1>2, Zenon DEF Store!Replace

LEMMA CommitUpdateRefines ==
  ASSUME IInv, IInv', NEW c \in Clients, CommitUpdate(c)
  PROVE  Store!Next
<1> DEFINE k == target[c]
           version == view[c].version + 1
<1>1. pc[c] = "commit" /\ claim[c] = Nothing
  BY Updater DEF CommitUpdate, Updates
<1>2. CASE OnDate(c, draft[c].date) # {}
  BY <1>1, <1>2, AbandonKeeps, QuietRefines DEF CommitUpdate
<1>3. CASE OnDate(c, draft[c].date) = {}
  <2>1. /\ view[c] \in View /\ draft[c] \in Draft /\ k \in Cooks /\ k = view[c].cook
        /\ cooks[k] \in Cook /\ cooks[k].version = view[c].version
        /\ view[c].members = cooks[k].members /\ view[c].products = cooks[k].products
        /\ view[c].members # Nothing /\ view[c].products # Nothing /\ view[c] # Nothing
    BY <1>1, Updater, SeenIsReplaced, CookAssumption DEF Updates
  <2>2. Knows(c) = k
    BY <2>1 DEF Knows, Complete, Cook
  <2>3. /\ cooks' = [cooks EXCEPT ![k] = Replaced(c)]
        /\ \A x \in Clients \ {c} : view'[x] = view[x]
        /\ view'[c].members = Nothing
    BY <1>3, CommitUpdateWrites DEF IInv, TypeOK
  <2>4. /\ version \in Nat /\ version = cooks[k].version + 1 /\ cooks[k].version \in Nat
        /\ Replaced(c).version = version
    BY <1>1, <2>1, CookAssumption DEF Cook, Replaced
  <2>5. Store!Free(k, draft[c].date)
    BY <1>3 DEF Store!Free, OnDate
  <2>6. \A x \in Clients : Knows(x)' = IF Knows(x) = k THEN Nothing ELSE Knows(x)
    <3>1. Knows(c)' = Nothing
      BY <2>3 DEF Knows, Complete
    <3>2. ASSUME NEW x \in Clients \ {c}, view[x] = Nothing \/ view[x].cook # k
          PROVE  Knows(x)' = Knows(x) /\ Knows(x) # k
      <4>1. view[x] # Nothing => view[x].cook \in Cooks \ {k}
        BY <3>2 DEF IInv, TypeOK, View
      <4>2. Knows(x)' = Knows(x)
        BY <2>1, <2>3, <4>1, KnowsKept DEF IInv, TypeOK
      <4>3. QED BY <2>1, <4>1, <4>2, CookAssumption DEF Knows, Complete
    <3>3. ASSUME NEW x \in Clients \ {c}, view[x] # Nothing, view[x].cook = k
          PROVE  Knows(x)' = Nothing /\ Knows(x) \in {k, Nothing}
      <4>1. view[x].version <= cooks[k].version /\ view[x].version \in Nat
        BY <3>3, CookAssumption DEF IInv, TypeOK, ClientOK, ViewOK, View
      <4>2. cooks'[k].version # view[x].version
        BY <2>1, <2>3, <2>4, <4>1 DEF IInv, TypeOK
      <4>3. view'[x] = view[x]
        BY <2>3
      <4>4. QED BY <3>3, <4>2, <4>3 DEF Knows, Complete
    <3>4. QED BY <2>2, <3>1, <3>2, <3>3
  <2>7. Store!Replace(c, k)
    <3> DEFINE add == Added(c, cooks[k].version + 1)
    <3>1. version = cooks[k].version + 1
      BY <2>1
    <3>2. /\ Kept(c) \in SUBSET cooks[k].members
          /\ add \in SUBSET [user : Users, since : {cooks[k].version + 1}, sale : Sales]
          /\ \A m, n \in add : m.user = n.user => m = n
          /\ \A m \in Kept(c), n \in add : m.user # n.user
          /\ Kept(c) \cup add # {}
      BY <1>1, <3>1, Replacement, Zenon
    <3>3. draft[c].date \in Dates /\ draft[c].products \in Products
      BY <2>1 DEF Draft
    <3>4. Store!Joining(add, cooks[k].version + 1)
      <4> HIDE DEF add
      <4>1. QED BY <3>2 DEF Store!Joining
    <3>5. [x \in Clients |-> Knows(x)]'
            = [x \in Clients |-> IF [y \in Clients |-> Knows(y)][x] = k THEN Nothing
                                 ELSE [y \in Clients |-> Knows(y)][x]]
      BY <2>6
    <3>6. [x \in Clients |-> Knows(x)][c] = k
      BY <2>2
    <3>7. view[c].version = cooks[k].version /\ cooks' = [cooks EXCEPT ![k] = Replaced(c)]
      BY <2>1, <2>3
    <3>8. QED
      BY <2>5, <3>2, <3>3, <3>4, <3>5, <3>6, <3>7, ReplaceHolds, Zenon
  <2>8. QED BY <2>1, <2>7 DEF Store!Next
<1>4. QED BY <1>2, <1>3

LEMMA CreateHolds ==
  ASSUME NEW c,
         cooks[target[c]] = NoCook,
         draft[c].date \in Dates, draft[c].products \in Products,
         Added(c, 1) \in (SUBSET [user : Users, since : {1}, sale : Sales]) \ {{}},
         Store!Free(target[c], draft[c].date), Store!Joining(Added(c, 1), 1),
         cooks' = [cooks EXCEPT ![target[c]] = Created(c)],
         [x \in Clients |-> Knows(x)]' = [x \in Clients |-> Knows(x)]
  PROVE  Store!Create(target[c])
<1>1. cooks' = [cooks EXCEPT
        ![target[c]] = [date |-> draft[c].date, version |-> 1, members |-> Added(c, 1),
                        products |-> draft[c].products]]
  BY DEF Created
<1>2. \E d \in Dates, add \in (SUBSET [user : Users, since : {1}, sale : Sales]) \ {{}},
         products \in Products :
        /\ Store!Free(target[c], d) /\ Store!Joining(add, 1)
        /\ cooks' = [cooks EXCEPT
             ![target[c]] = [date |-> d, version |-> 1, members |-> add,
                             products |-> products]]
  <2> WITNESS draft[c].date \in Dates,
              Added(c, 1) \in (SUBSET [user : Users, since : {1}, sale : Sales]) \ {{}},
              draft[c].products \in Products
  <2>1. QED BY <1>1
<1>3. QED BY <1>2, Zenon DEF Store!Create

LEMMA CommitCreateRefines ==
  ASSUME IInv, NEW c \in Clients, CommitCreate(c)
  PROVE  Store!Next
<1> DEFINE k == target[c]
<1>1. /\ pc[c] = "newCommit" /\ ClientOK(c) /\ draft[c] \in Draft
      /\ k \in Cooks /\ cooks[k] = NoCook /\ view[c] = Nothing
  BY Creator DEF CommitCreate, Creates
<1>2. draft[c].date \in Dates /\ draft[c].products \in Products
  BY <1>1 DEF Draft
<1>3. /\ cooks' = [cooks EXCEPT ![k] = Created(c)]
      /\ \A x \in Clients \ {c} : view'[x] = view[x]
      /\ view'[c].members = Nothing
  BY DEF CommitCreate, Created, IInv, TypeOK
<1>4. Store!Free(k, draft[c].date)
  <2>1. OnDate(c, draft[c].date) = {}
    BY <1>1 DEF ClientOK, ClaimOK, HasRequest
  <2>2. QED BY <2>1 DEF Store!Free, OnDate
<1>5. /\ Added(c, 1) \in (SUBSET [user : Users, since : {1}, sale : Sales]) \ {{}}
      /\ Store!Joining(Added(c, 1), 1)
  <2> DEFINE add == Added(c, 1)
  <2>1. /\ add \subseteq [user : Users, since : {1}, sale : Sales]
        /\ \A m, n \in add : m.user = n.user => m = n
        /\ add # {}
    BY <1>1, CreatedRow
  <2> HIDE DEF add
  <2>2. /\ add \in (SUBSET [user : Users, since : {1}, sale : Sales]) \ {{}}
        /\ Store!Joining(add, 1)
    BY <2>1 DEF Store!Joining
  <2>3. QED BY <2>2 DEF add
<1>6. \A x \in Clients : Knows(x)' = Knows(x)
  <2>1. Knows(c)' = Knows(c)
    BY <1>1, <1>3 DEF Knows, Complete
  <2>2. ASSUME NEW x \in Clients \ {c}
        PROVE  Knows(x)' = Knows(x)
    <3>1. view[x] # Nothing => view[x].cook \in Cooks \ {k}
      BY <1>1 DEF IInv, TypeOK, ClientOK, ViewOK, View
    <3>2. QED BY <1>1, <1>3, <3>1, KnowsKept DEF IInv, TypeOK
  <2>3. QED BY <2>1, <2>2
<1>7. [x \in Clients |-> Knows(x)]' = [x \in Clients |-> Knows(x)]
  BY <1>6
<1>8. Store!Create(k)
  BY <1>1, <1>2, <1>3, <1>4, <1>5, <1>7, CreateHolds, Zenon
<1>9. QED BY <1>1, <1>8 DEF Store!Next

LEMMA StepRefines == IInv /\ IInv' /\ [Next]_vars => [Store!Next]_(Store!vars)
<1> SUFFICES ASSUME IInv, IInv', [Next]_vars PROVE [Store!Next]_(Store!vars)
  OBVIOUS
<1>1. ASSUME NEW c \in Clients, NEW k \in Cooks, ReadCook(c, k) PROVE Store!Next
  BY <1>1, ReadCookKeeps, QuietRefines
<1>2. ASSUME NEW c \in Clients, Reading(c) PROVE Store!Next
  BY <1>2, ReadMembersKeeps, ReadProductsKeeps, QuietRefines DEF Reading
<1>3. ASSUME NEW c \in Clients, Updating(c) PROVE Store!Next
  BY <1>3, LockCookKeeps, CheckUpdateKeeps, ReadUsersKeeps, QuietRefines, CommitUpdateRefines
  DEF Updating
<1>4. ASSUME NEW c \in Clients, Creating(c) PROVE Store!Next
  BY <1>4, CheckCreateKeeps, ReadUsersKeeps, FlushCreateKeeps, QuietRefines,
     CommitCreateRefines
  DEF Creating
<1>5. ASSUME NEW c \in Clients, SubmitUpdate(c) \/ SubmitCreate(c) \/ Close(c)
      PROVE  Store!Next
  BY <1>5, SubmitUpdateKeeps, SubmitCreateKeeps, CloseKeeps, QuietRefines
<1>6. ASSUME cooks' = cooks, view' = view
      PROVE  UNCHANGED Store!vars
  <2>1. \A x \in Clients : Knows(x)' = Knows(x)
    BY <1>6, KnowsKept
  <2>2. QED BY <1>6, <2>1 DEF Store!vars
<1>7. CASE UNCHANGED vars
  BY <1>6, <1>7 DEF vars
<1>8. CASE \E u \in Users, s \in Sales : ChangeSale(u, s)
  BY <1>6, <1>8 DEF ChangeSale
<1>9. QED BY <1>1, <1>2, <1>3, <1>4, <1>5, <1>7, <1>8 DEF Next

\* Requests of several statements are the single steps of CookStore: creating a cook on a
\* free date, and replacing one by a client that knows its present state, with the members
\* that stay keeping their discounts (cooks.py:163, 270-278, 322-330, 421-432).
THEOREM EditingIsAStore == Spec => ImplementsStore
<1>1. Init => Store!Init
  <2> SUFFICES ASSUME Init PROVE Store!Init
    OBVIOUS
  <2>1. \A c \in Clients : Knows(c) = Nothing
    BY DEF Init, Knows, Complete
  <2>2. QED BY <2>1 DEF Init, Store!Init
<1>2. QED BY <1>1, Invariant, StepRefines, PTL DEF Spec, ImplementsStore, Store!Spec

=============================================================================
