--------------------------- MODULE CatalogProofs ---------------------------
(***************************************************************************)
(* What holds of users, dishes and imports for any number of sessions.     *)
(***************************************************************************)
EXTENDS Import, Sums

-----------------------------------------------------------------------------
(* The inductive invariant *)

UserSteps == {"lock", "max", "insert", "commit"}

\* The import has its receipt, which nobody else can have meanwhile.
Receipted(w) == w.kind = "import" /\ w.step \in {"add users", "add dish", "commit"}

\* What a request relies on until it commits.
Sound(w, theUsers, theDish, theRuns) ==
  /\ w.kind # "user" => w.save \in Save
  /\ w.kind = "user" =>
       /\ w.step \in UserSteps
       /\ w.step \in {"lock", "max"} => w.numbers = {}
       /\ \A n \in w.numbers : theUsers[n] # Web
  /\ \A n \in Claimed(w) : theUsers[n] = Nothing
  /\ ClaimsDish(w) => theDish = Nothing
  /\ w.kind = "save" => theDish # Nothing
  /\ Adding(w) => \A l \in Lists : w.save[l] => theDish[l] \subseteq w.gone[l]
  /\ w.kind = "import" => w.manifest \in Manifests
  /\ Receipted(w) => w.numbers = RowsOf[w.manifest] /\ w.manifest \notin theRuns

\* What the counts of an import have found, as long as nobody commits.
CountsStand(w, theUsers, theDish, theRuns) ==
  w.kind = "import" /\ w.alone =>
    /\ w.step \notin {"run", "runs"} => theRuns = {}
    /\ w.step \notin {"run", "runs", "users"} => \A n \in Numbers : theUsers[n] = Nothing
    /\ w.step \notin {"run", "runs", "users", "dishes"} => theDish = Nothing

\* What two requests cannot both have.
Apart(v, w) ==
  /\ v.kind = "user" /\ w.kind = "user" => v.step = "lock" \/ w.step = "lock"
  /\ Claimed(v) \cap Claimed(w) = {}
  /\ ~(ClaimsDish(v) /\ ClaimsDish(w))
  /\ Adding(v) /\ Adding(w) => \A l \in Lists : ~(v.save[l] /\ w.save[l])
  /\ Receipted(v) /\ Receipted(w) => v.manifest # w.manifest

Running == {s \in Sessions : work[s] # Idle}

SessionsOK ==
  /\ \A s \in Running : /\ Sound(work[s], users, dish, runs)
                        /\ CountsStand(work[s], users, dish, runs)
  /\ \A s, x \in Running : s # x => Apart(work[s], work[x])

\* A list has the rows of one save.
OneSave(rows) == \A a, b \in rows : a = b

ListsOK ==
  dish # Nothing =>
    /\ \A l \in Lists : OneSave(dish[l])
    /\ \A v \in dish.variants, i \in dish.ingredients :
         v = i \/ ~v.ingredients \/ ~i.variants

IInv == TypeOK /\ SessionsOK /\ ListsOK /\ ImportIsWhole

-----------------------------------------------------------------------------
(* A request that commits nothing *)

LEMMA ApartSymmetric == \A v, w : Apart(v, w) <=> Apart(w, v)
BY DEF Apart

\* What s keeps for the others: it has w now, and they have what they had.
LEMMA LocalKeeps ==
  ASSUME IInv, NEW s \in Sessions, NEW w \in Work, work' = [work EXCEPT ![s] = w],
         UNCHANGED <<users, dish, runs>>, saves' \in 0 .. MaxSaves,
         Sound(w, users, dish, runs), CountsStand(w, users, dish, runs),
         \A x \in Others(s) : Apart(work[x], w)
  PROVE  IInv'
<1>1. TypeOK'
  BY DEF IInv, TypeOK
<1>2. work'[s] = w /\ \A x \in Sessions : x # s => work'[x] = work[x]
  BY DEF IInv, TypeOK
<1>3. \A x \in Running' : x # s => x \in Running /\ x \in Others(s)
  BY <1>2 DEF Running, Others
<1>4. ASSUME NEW x \in Running'
      PROVE  /\ Sound(work'[x], users', dish', runs')
             /\ CountsStand(work'[x], users', dish', runs')
  <2>1. CASE x = s
    BY <1>2, <2>1
  <2>2. CASE x # s
    BY <1>2, <1>3, <1>4, <2>2 DEF IInv, SessionsOK
  <2>3. QED BY <2>1, <2>2
<1>5. ASSUME NEW x \in Running', NEW y \in Running', x # y
      PROVE  Apart(work'[x], work'[y])
  <2>1. CASE x = s
    BY <1>2, <1>3, <1>5, <2>1, ApartSymmetric
  <2>2. CASE y = s
    BY <1>2, <1>3, <1>5, <2>2
  <2>3. CASE x # s /\ y # s
    BY <1>2, <1>3, <1>5, <2>3 DEF IInv, SessionsOK
  <2>4. QED BY <2>1, <2>2, <2>3
<1>6. SessionsOK'
  BY <1>4, <1>5 DEF SessionsOK
<1>7. ListsOK' /\ ImportIsWhole'
  BY DEF IInv, ListsOK, ImportIsWhole
<1>8. QED BY <1>1, <1>6, <1>7 DEF IInv

LEMMA EndKeeps ==
  ASSUME IInv, NEW s \in Sessions, Go(s, Idle)
  PROVE  IInv'
<1>1. /\ work' = [work EXCEPT ![s] = Idle]
      /\ users' = users /\ dish' = dish /\ runs' = runs /\ saves' = saves
  BY DEF Go
<1>2. TypeOK'
  BY <1>1 DEF IInv, TypeOK
<1>3. \A x \in Running' : x \in Running /\ work'[x] = work[x]
  BY <1>1 DEF Running, IInv, TypeOK
<1>4. SessionsOK'
  BY <1>1, <1>3 DEF SessionsOK, IInv
<1>5. ListsOK' /\ ImportIsWhole'
  BY <1>1 DEF IInv, ListsOK, ImportIsWhole
<1>6. QED BY <1>2, <1>4, <1>5 DEF IInv

\* What the request of a session had before.
LEMMA WorkingHad ==
  ASSUME IInv, NEW s \in Sessions, work[s] # Idle
  PROVE  /\ work[s] \in Work
         /\ Sound(work[s], users, dish, runs)
         /\ CountsStand(work[s], users, dish, runs)
         /\ \A x \in Others(s) : /\ x \in Sessions /\ work[x] \in Work
                                 /\ Sound(work[x], users, dish, runs)
                                 /\ Apart(work[x], work[s])
         /\ saves \in 0 .. MaxSaves /\ runs \in SUBSET Manifests
         /\ dish \in Dish \cup {Nothing}
         /\ users \in [Numbers -> Manifests \cup {Web, Nothing}]
BY DEF IInv, TypeOK, SessionsOK, Running, Others

\* A step of a request, which other sessions do not see.
LEMMA GoKeeps ==
  ASSUME IInv, NEW s \in Sessions, NEW w \in Work, Go(s, w),
         Sound(w, users, dish, runs), CountsStand(w, users, dish, runs),
         \A x \in Others(s) : Apart(work[x], w)
  PROVE  IInv'
BY LocalKeeps DEF Go, IInv, TypeOK

LEMMA FailKeeps ==
  ASSUME IInv, NEW s \in Sessions, Fail(s)
  PROVE  IInv'
BY EndKeeps DEF Fail

-----------------------------------------------------------------------------
(* create_user *)

\* A new request has claimed nothing and counted nothing.
LEMMA BeginKeeps ==
  ASSUME IInv, NEW s \in Sessions, NEW kind, NEW step, NEW save, NEW manifest,
         Begin(s, kind, step, save, manifest), saves' \in 0 .. MaxSaves,
         \/ /\ kind = "user" /\ step = "lock" /\ save = Nothing /\ manifest = Nothing
         \/ /\ kind = "create" /\ step = "insert" /\ save \in Save /\ manifest = Nothing
         \/ /\ kind = "save" /\ step \in {"rename", "find"} /\ save \in Save
            /\ manifest = Nothing /\ dish # Nothing
         \/ /\ kind = "import" /\ step = "run" /\ save \in Save /\ manifest \in Manifests
  PROVE  IInv'
<1> DEFINE w == [kind |-> kind, step |-> step, save |-> save, list |-> "variants", seen |-> {},
                 gone |-> [l \in Lists |-> {}], numbers |-> {}, manifest |-> manifest,
                 alone |-> TRUE]
<1>1. work' = [work EXCEPT ![s] = w] /\ UNCHANGED <<users, dish, runs>>
  BY DEF Begin
<1>2. w \in Work
  <2>1. "variants" \in Lists /\ {} \in Rows /\ [l \in Lists |-> {}] \in [Lists -> Rows]
    BY DEF Lists, Rows
  <2>2. kind \in {"user", "create", "save", "import"} /\ save \in Save \cup {Nothing}
        /\ manifest \in Manifests \cup {Nothing}
    OBVIOUS
  <2>3. step \in {"lock", "max", "rename", "find", "delete", "insert", "commit", "receipt",
           "run", "runs", "users", "dishes", "add users", "add dish"}
    OBVIOUS
  <2>4. QED BY <2>1, <2>2, <2>3 DEF Work
<1>3. Sound(w, users, dish, runs)
  BY DEF Sound, UserSteps, Claimed, ClaimsDish, Adding, Receipted
<1>4. CountsStand(w, users, dish, runs)
  BY DEF CountsStand
<1>5. \A x \in Others(s) : Apart(work[x], w)
  BY DEF Apart, Claimed, ClaimsDish, Adding, Receipted
<1> HIDE DEF w
<1>6. QED BY <1>1, <1>2, <1>3, <1>4, <1>5, LocalKeeps

LEMMA BeginUserKeeps ==
  ASSUME IInv, NEW s \in Sessions, BeginUser(s)
  PROVE  IInv'
<1>1. saves' \in 0 .. MaxSaves
  BY DEF BeginUser, IInv, TypeOK
<1>2. QED BY <1>1, BeginKeeps DEF BeginUser

LEMMA LockUsersKeeps ==
  ASSUME IInv, NEW s \in Sessions, LockUsers(s)
  PROVE  IInv'
<1> DEFINE w == [work[s] EXCEPT !.step = "max"]
<1>1. work[s] # Idle /\ work[s].kind = "user" /\ work[s].step = "lock" /\ Go(s, w)
  BY DEF LockUsers, Working, Goto
<1>2. work[s] \in Work
  BY <1>1, WorkingHad
<1>3. w \in Work /\ w.step = "max" /\ w.kind = "user" /\ w.numbers = work[s].numbers
  BY <1>1, <1>2 DEF Work
<1> HIDE DEF w
<1>4. Sound(work[s], users, dish, runs)
  BY <1>1, WorkingHad
<1>5. Sound(w, users, dish, runs) /\ CountsStand(w, users, dish, runs)
  BY <1>1, <1>3, <1>4
     DEF Sound, CountsStand, UserSteps, Claimed, ClaimsDish, Adding, Receipted
<1>6. \A x \in Others(s) : Apart(work[x], w)
  BY <1>1, <1>3 DEF Apart, Claimed, ClaimsDish, Adding, Receipted, LockUsers
<1>7. QED BY <1>1, <1>3, <1>5, <1>6, GoKeeps

LEMMA AboveIsNew ==
  ASSUME NEW m \in Nat, NEW T \in SUBSET (0 .. m)
  PROVE  (IF T = {} THEN 0 ELSE Max(T) + 1) \notin T
<1>1. CASE T = {}
  BY <1>1
<1>2. CASE T # {}
  <2>1. Max(T) \in T /\ \A y \in T : y <= Max(T)
    BY <1>2, MaxIs
  <2> DEFINE k == Max(T)
  <2> HIDE DEF k
  <2>2. k \in T /\ \A y \in T : y <= k
    BY <2>1 DEF k
  <2>3. k + 1 \notin T
    BY <2>2
  <2>4. QED BY <1>2, <2>3 DEF k
<1>3. QED BY <1>1, <1>2

LEMMA MaxUserKeeps ==
  ASSUME IInv, NEW s \in Sessions, MaxUser(s)
  PROVE  IInv'
<1> DEFINE number == IF Taken = {} THEN 0 ELSE Max(Taken) + 1
           w == [work[s] EXCEPT !.step = "insert", !.numbers = {number}]
<1>1. /\ work[s] # Idle /\ work[s].kind = "user" /\ work[s].step = "max"
      /\ number \in Numbers /\ Go(s, w)
  BY DEF MaxUser, Working
<1>2. users[number] = Nothing
  <2>1. Taken \in SUBSET (0 .. MaxNumber) /\ MaxNumber \in Nat
    BY CatalogAssumption DEF Taken, Numbers
  <2>2. number \notin Taken
    BY <2>1, AboveIsNew
  <2>3. QED BY <1>1, <2>2 DEF Taken
<1>3. Nothing # Web
  BY CatalogAssumption
<1>4. work[s] \in Work /\ Sound(work[s], users, dish, runs)
      /\ \A x \in Others(s) : Apart(work[x], work[s])
  BY <1>1, WorkingHad
<1> HIDE DEF number
<1>5. w \in Work /\ w.step = "insert" /\ w.kind = "user" /\ w.numbers = {number}
  BY <1>1, <1>4 DEF Work
<1> HIDE DEF w
<1>6. Sound(w, users, dish, runs) /\ CountsStand(w, users, dish, runs)
  BY <1>2, <1>3, <1>5
     DEF Sound, CountsStand, UserSteps, Claimed, ClaimsDish, Adding, Receipted
<1>7. \A x \in Others(s) : Apart(work[x], w)
  BY <1>1, <1>4, <1>5 DEF Apart, Claimed, ClaimsDish, Adding, Receipted
<1>8. QED BY <1>1, <1>5, <1>6, <1>7, GoKeeps

\* Rows with the legacy ids of s are inserted: nobody else has, nothing is there.
LEMMA InsertUsersKeeps ==
  ASSUME IInv, NEW s \in Sessions, NEW step, InsertUsers(s, step), work[s] # Idle,
         \/ work[s].kind = "user" /\ work[s].step = "insert" /\ step = "commit"
         \/ work[s].kind = "import" /\ work[s].step = "add users" /\ step = "add dish"
  PROVE  IInv'
<1>1. CASE \A n \in work[s].numbers : users[n] = Nothing
  <2> DEFINE w == [work[s] EXCEPT !.step = step]
  <2>1. /\ Go(s, w)
        /\ \A x \in Others(s) : Claimed(work[x]) \cap work[s].numbers = {}
    BY <1>1 DEF InsertUsers, Goto
  <2>2. /\ work[s] \in Work /\ Sound(work[s], users, dish, runs)
        /\ CountsStand(work[s], users, dish, runs)
        /\ \A x \in Others(s) : Apart(work[x], work[s])
    BY WorkingHad
  <2>3. /\ w \in Work /\ w.step = step /\ w.numbers = work[s].numbers
        /\ w.kind = work[s].kind /\ w.save = work[s].save /\ w.gone = work[s].gone
        /\ w.manifest = work[s].manifest /\ w.alone = work[s].alone
    BY <2>2 DEF Work
  <2> HIDE DEF w
  <2>4. Sound(w, users, dish, runs) /\ CountsStand(w, users, dish, runs)
    BY <1>1, <2>2, <2>3
       DEF Sound, CountsStand, UserSteps, Claimed, ClaimsDish, Adding, Receipted
  <2>5. \A x \in Others(s) : Apart(work[x], w)
    BY <2>1, <2>2, <2>3 DEF Apart, Claimed, ClaimsDish, Adding, Receipted
  <2>6. QED BY <2>1, <2>3, <2>4, <2>5, GoKeeps
<1>2. CASE ~ \A n \in work[s].numbers : users[n] = Nothing
  BY <1>2, EndKeeps DEF InsertUsers
<1>3. QED BY <1>1, <1>2

LEMMA InsertUserKeeps ==
  ASSUME IInv, NEW s \in Sessions, InsertUser(s)
  PROVE  IInv'
BY InsertUsersKeeps DEF InsertUser, Working

-----------------------------------------------------------------------------
(* A commit *)

\* What the others have after a commit is what they had, and they are not alone.
LEMMA CommitKeeps ==
  ASSUME IInv, NEW s \in Sessions, work[s] # Idle, Committed(s), UNCHANGED saves,
         users' \in [Numbers -> Manifests \cup {Web, Nothing}],
         dish' \in Dish \cup {Nothing}, runs' \in SUBSET Manifests,
         \A x \in Others(s) : Sound(work[x], users', dish', runs'),
         ListsOK', ImportIsWhole'
  PROVE  IInv'
<1> DEFINE Left(v) == [v EXCEPT !.alone = FALSE]
<1>1. /\ DOMAIN work' = Sessions /\ work'[s] = Idle
      /\ work' = [x \in Sessions |-> work'[x]]
      /\ \A x \in Others(s) : work'[x] = Left(work[x])
      /\ \A x \in Sessions : x # s /\ x \notin Others(s) => work'[x] = work[x]
  BY DEF Committed, Others
<1>2. \A x \in Others(s) :
        /\ x \in Running /\ x # s /\ work[x] \in Work /\ work[x] # Idle
  BY DEF Others, Running, IInv, TypeOK
<1>3. ASSUME NEW v \in Work
      PROVE  /\ Left(v) \in Work /\ Left(v).alone = FALSE /\ Left(v).step = v.step
             /\ Left(v).numbers = v.numbers /\ Left(v).kind = v.kind
             /\ Left(v).save = v.save /\ Left(v).gone = v.gone
             /\ Left(v).manifest = v.manifest
  BY DEF Work
<1>4. \A x \in Running' : x \in Others(s)
  BY <1>1, <1>2 DEF Running, Others
<1> HIDE DEF Left
<1>5. \A x \in Sessions : work'[x] \in Work \cup {Idle}
  <2> SUFFICES ASSUME NEW x \in Sessions PROVE work'[x] \in Work \cup {Idle}
    OBVIOUS
  <2>1. work[x] \in Work \cup {Idle}
    BY DEF IInv, TypeOK
  <2>2. QED BY <1>1, <1>2, <1>3, <2>1
<1>6. TypeOK'
  <2>1. saves' \in 0 .. MaxSaves
    BY DEF IInv, TypeOK
  <2>2. work' \in [Sessions -> Work \cup {Idle}]
    BY <1>1, <1>5
  <2>3. QED BY <2>1, <2>2 DEF TypeOK
<1>7. ASSUME NEW x \in Others(s)
      PROVE  /\ Sound(work'[x], users', dish', runs')
             /\ CountsStand(work'[x], users', dish', runs')
  <2>1. /\ work'[x] = Left(work[x]) /\ work[x] \in Work
    BY <1>1, <1>2
  <2>2. Sound(work[x], users', dish', runs')
    OBVIOUS
  <2> DEFINE v == work[x]
             w == work'[x]
  <2>3. /\ w.alone = FALSE /\ w.step = v.step /\ w.numbers = v.numbers
        /\ w.kind = v.kind /\ w.save = v.save /\ w.gone = v.gone
        /\ w.manifest = v.manifest
    BY <1>3, <2>1
  <2> HIDE DEF v, w
  <2>4. Sound(w, users', dish', runs')
    <3>1. Sound(v, users', dish', runs')
      BY <2>2 DEF v
    <3>2. QED BY <2>3, <3>1 DEF Sound, Claimed, ClaimsDish, Adding, Receipted
  <2>5. CountsStand(w, users', dish', runs')
    BY <2>3 DEF CountsStand
  <2>6. QED BY <2>4, <2>5 DEF w
<1>8. ASSUME NEW x \in Others(s), NEW y \in Others(s), x # y
      PROVE  Apart(work'[x], work'[y])
  <2>1. Apart(work[x], work[y])
    BY <1>2, <1>8 DEF IInv, SessionsOK
  <2>2. /\ work'[x] = Left(work[x]) /\ work[x] \in Work
        /\ work'[y] = Left(work[y]) /\ work[y] \in Work
    BY <1>1, <1>2
  <2> DEFINE v == work[x]
             w == work[y]
  <2>3. /\ Left(v).step = v.step /\ Left(v).numbers = v.numbers
        /\ Left(v).kind = v.kind /\ Left(v).save = v.save
        /\ Left(v).manifest = v.manifest
        /\ Left(w).step = w.step /\ Left(w).numbers = w.numbers
        /\ Left(w).kind = w.kind /\ Left(w).save = w.save
        /\ Left(w).manifest = w.manifest
    BY <1>3, <2>2
  <2>4. Apart(v, w) /\ work'[x] = Left(v) /\ work'[y] = Left(w)
    BY <2>1, <2>2
  <2> HIDE DEF v, w
  <2>5. QED BY <2>3, <2>4 DEF Apart, Claimed, ClaimsDish, Adding, Receipted
<1>9. SessionsOK'
  BY <1>4, <1>7, <1>8 DEF SessionsOK
<1>10. QED BY <1>6, <1>9 DEF IInv

\* A commit of users who were nobody's leaves the other requests what they rely on.
LEMMA CommitUserKeeps ==
  ASSUME IInv, NEW s \in Sessions, CommitUser(s)
  PROVE  IInv'
<1>1. /\ work[s] # Idle /\ work[s].kind = "user" /\ work[s].step = "commit"
      /\ users' = [n \in Numbers |-> IF n \in work[s].numbers THEN Web ELSE users[n]]
      /\ Committed(s) /\ dish' = dish /\ runs' = runs /\ saves' = saves
  BY DEF CommitUser, Working
<1>2. /\ work[s] \in Work /\ Sound(work[s], users, dish, runs)
      /\ \A x \in Others(s) : /\ Sound(work[x], users, dish, runs)
                              /\ work[x] \in Work
                              /\ Apart(work[x], work[s])
      /\ users \in [Numbers -> Manifests \cup {Web, Nothing}]
  BY <1>1, WorkingHad
<1>3. Claimed(work[s]) = work[s].numbers
      /\ \A n \in work[s].numbers : users[n] = Nothing
  BY <1>1, <1>2 DEF Claimed, Sound
<1>4. \A n \in Numbers : users'[n] = IF n \in work[s].numbers THEN Web ELSE users[n]
  BY <1>1
<1>5. users' \in [Numbers -> Manifests \cup {Web, Nothing}]
  BY <1>1, <1>2
<1>6. Web \notin Manifests /\ Nothing # Web
      /\ Nothing \notin Manifests /\ RowsOf \in [Manifests -> (SUBSET Numbers) \ {{}}]
  BY CatalogAssumption, ImportAssumption
<1>7. ASSUME NEW x \in Others(s)
      PROVE  Sound(work[x], users', dish', runs')
  <2> DEFINE w == work[x]
  <2>1. Sound(w, users, dish, runs) /\ w \in Work /\ Apart(w, work[s])
    BY <1>2
  <2> HIDE DEF w
  <2>2. w.numbers \subseteq Numbers /\ Claimed(w) \subseteq Numbers
    BY <2>1 DEF Work, Claimed
  <2>3. w.kind = "user" => w.numbers = {}
    BY <1>1, <2>1 DEF Apart, Sound
  <2>4. \A n \in Claimed(w) : n \notin work[s].numbers
    BY <1>3, <2>1 DEF Apart
  <2>5. \A n \in Claimed(w) : users'[n] = Nothing
    BY <1>4, <2>1, <2>2, <2>4 DEF Sound
  <2>6. Sound(w, users', dish', runs')
    BY <1>1, <2>1, <2>3, <2>5 DEF Sound
  <2>7. QED BY <2>6 DEF w
<1>8. ListsOK'
  BY <1>1 DEF IInv, ListsOK
<1>9. ImportIsWhole'
  BY <1>1, <1>3, <1>4, <1>6 DEF IInv, ImportIsWhole
<1>10. dish' \in Dish \cup {Nothing} /\ runs' \in SUBSET Manifests
  BY <1>1 DEF IInv, TypeOK
<1>11. QED BY <1>1, <1>5, <1>7, <1>8, <1>9, <1>10, CommitKeeps

-----------------------------------------------------------------------------
(* create_template and update_template *)

LEMMA BeginCreateKeeps ==
  ASSUME IInv, NEW s \in Sessions, NEW save \in Save, BeginCreate(s, save)
  PROVE  IInv'
<1>1. saves' \in 0 .. MaxSaves
  BY CatalogAssumption DEF BeginCreate, NewSave, IInv, TypeOK
<1>2. QED BY <1>1, BeginKeeps DEF BeginCreate

LEMMA BeginSaveKeeps ==
  ASSUME IInv, NEW s \in Sessions, NEW save \in Save, BeginSave(s, save)
  PROVE  IInv'
<1>1. saves' \in 0 .. MaxSaves
  BY CatalogAssumption DEF BeginSave, NewSave, IInv, TypeOK
<1>2. /\ Begin(s, "save", IF save.renames THEN "rename" ELSE "find", save, Nothing)
      /\ dish # Nothing
  BY DEF BeginSave
<1>3. CASE save.renames
  BY <1>1, <1>2, <1>3, BeginKeeps
<1>4. CASE ~ save.renames
  BY <1>1, <1>2, <1>4, BeginKeeps
<1>5. QED BY <1>3, <1>4

\* The dish is inserted by one session, where there is none.
LEMMA InsertDishKeeps ==
  ASSUME IInv, NEW s \in Sessions, InsertDish(s), work[s] # Idle,
         \/ work[s].kind = "create" /\ work[s].step = "insert"
         \/ work[s].kind = "import" /\ work[s].step = "add dish"
  PROVE  IInv'
<1>1. CASE dish = Nothing
  <2> DEFINE w == [work[s] EXCEPT !.step = "commit"]
  <2>1. Go(s, w) /\ \A x \in Others(s) : ~ClaimsDish(work[x])
    BY <1>1 DEF InsertDish, Goto
  <2>2. /\ work[s] \in Work /\ Sound(work[s], users, dish, runs)
        /\ CountsStand(work[s], users, dish, runs)
        /\ \A x \in Others(s) : Apart(work[x], work[s])
    BY WorkingHad
  <2>3. /\ w \in Work /\ w.step = "commit" /\ w.numbers = work[s].numbers
        /\ w.kind = work[s].kind /\ w.save = work[s].save
        /\ w.manifest = work[s].manifest /\ w.alone = work[s].alone
    BY <2>2 DEF Work
  <2> HIDE DEF w
  <2>4. Sound(w, users, dish, runs) /\ CountsStand(w, users, dish, runs)
    BY <1>1, <2>2, <2>3
       DEF Sound, CountsStand, UserSteps, Claimed, ClaimsDish, Adding, Receipted
  <2>5. \A x \in Others(s) : Apart(work[x], w)
    BY <2>1, <2>2, <2>3 DEF Apart, Claimed, ClaimsDish, Adding, Receipted
  <2>6. QED BY <2>1, <2>3, <2>4, <2>5, GoKeeps
<1>2. CASE dish # Nothing
  BY <1>2, EndKeeps DEF InsertDish
<1>3. QED BY <1>1, <1>2

LEMMA InsertCreatedKeeps ==
  ASSUME IInv, NEW s \in Sessions, InsertCreated(s)
  PROVE  IInv'
BY InsertDishKeeps DEF InsertCreated, Working

LEMMA NewDishIsOneSave ==
  ASSUME NEW save \in Save
  PROVE  /\ NewDish(save) \in Dish /\ NewDish(save) # Nothing
         /\ NewDish(save).variants = Filled(save, "variants")
         /\ NewDish(save).ingredients = Filled(save, "ingredients")
         /\ \A l \in Lists : OneSave(NewDish(save)[l])
         /\ \A v \in NewDish(save).variants, i \in NewDish(save).ingredients : v = i
<1>1. Filled(save, "variants") \in Rows /\ Filled(save, "ingredients") \in Rows
  BY DEF Filled, Rows
<1>2. NewDish(save) \in Dish
  BY <1>1 DEF NewDish, Dish
<1>3. NewDish(save) # Nothing
  BY <1>2, CatalogAssumption
<1>4. /\ NewDish(save).variants = Filled(save, "variants")
      /\ NewDish(save).ingredients = Filled(save, "ingredients")
  BY DEF NewDish
<1>5. \A l \in Lists : NewDish(save)[l] \subseteq {save}
  BY <1>4 DEF Lists, Filled
<1>6. QED BY <1>2, <1>3, <1>4, <1>5 DEF OneSave, Filled

LEMMA CommitCreatedKeeps ==
  ASSUME IInv, NEW s \in Sessions, CommitCreated(s)
  PROVE  IInv'
<1>1. /\ work[s] # Idle /\ work[s].kind = "create" /\ work[s].step = "commit"
      /\ dish' = NewDish(work[s].save)
      /\ Committed(s) /\ users' = users /\ runs' = runs /\ saves' = saves
  BY DEF CommitCreated, Working
<1>2. /\ work[s] \in Work /\ Sound(work[s], users, dish, runs)
      /\ \A x \in Others(s) : /\ Sound(work[x], users, dish, runs)
                              /\ work[x] \in Work
                              /\ Apart(work[x], work[s])
  BY <1>1, WorkingHad
<1>3. work[s].save \in Save /\ ClaimsDish(work[s]) /\ dish = Nothing
  BY <1>1, <1>2 DEF Sound, ClaimsDish
<1>4. dish' \in Dish /\ dish' # Nothing
  BY <1>1, <1>3, NewDishIsOneSave
<1>5. ASSUME NEW x \in Others(s)
      PROVE  Sound(work[x], users', dish', runs')
  <2> DEFINE w == work[x]
  <2>1. Sound(w, users, dish, runs) /\ Apart(w, work[s])
    BY <1>2
  <2> HIDE DEF w
  <2>2. ~ClaimsDish(w) /\ w.kind # "save"
    BY <1>3, <2>1 DEF Apart, Sound
  <2>3. ~Adding(w)
    BY <2>2 DEF Adding
  <2>4. Sound(w, users', dish', runs')
    BY <1>1, <2>1, <2>2, <2>3 DEF Sound
  <2>5. QED BY <2>4 DEF w
<1>6. ListsOK'
  <2>1. /\ \A l \in Lists : OneSave(dish'[l])
        /\ \A v \in dish'.variants, i \in dish'.ingredients : v = i
    BY <1>1, <1>3, NewDishIsOneSave
  <2>2. QED BY <2>1 DEF ListsOK
<1>7. ImportIsWhole'
  BY <1>1 DEF IInv, ImportIsWhole
<1>8. users' \in [Numbers -> Manifests \cup {Web, Nothing}] /\ runs' \in SUBSET Manifests
  BY <1>1 DEF IInv, TypeOK
<1>9. QED BY <1>1, <1>4, <1>5, <1>6, <1>7, <1>8, CommitKeeps

\* A step of a save before its rows are added.
LEMMA SaveStepKeeps ==
  ASSUME IInv, NEW s \in Sessions, NEW w \in Work, Go(s, w), work[s] # Idle,
         work[s].kind = "save", w.kind = "save", w.save = work[s].save,
         w.step # "commit"
  PROVE  IInv'
<1>1. Sound(work[s], users, dish, runs)
  BY WorkingHad
<1>2. Sound(w, users, dish, runs) /\ CountsStand(w, users, dish, runs)
  BY <1>1 DEF Sound, CountsStand, Claimed, ClaimsDish, Adding, Receipted
<1>3. \A x \in Others(s) : Apart(work[x], w)
  BY DEF Apart, Claimed, ClaimsDish, Adding, Receipted
<1>4. QED BY <1>2, <1>3, GoKeeps

LEMMA RenameKeeps ==
  ASSUME IInv, NEW s \in Sessions, Rename(s)
  PROVE  IInv'
<1> DEFINE w == [work[s] EXCEPT !.step = "find"]
<1>1. Go(s, w) /\ work[s] # Idle /\ work[s].kind = "save"
  BY DEF Rename, Working, Goto
<1>2. work[s] \in Work
  BY <1>1, WorkingHad
<1>3. w \in Work /\ w.kind = "save" /\ w.save = work[s].save /\ w.step # "commit"
  BY <1>1, <1>2 DEF Work
<1> HIDE DEF w
<1>4. QED BY <1>1, <1>3, SaveStepKeeps

LEMMA RowsOfList ==
  ASSUME IInv, NEW l \in Lists, dish # Nothing
  PROVE  dish[l] \in Rows
BY DEF IInv, TypeOK, Dish, Lists

LEMMA FindRowsKeeps ==
  ASSUME IInv, NEW s \in Sessions, FindRows(s)
  PROVE  IInv'
<1> DEFINE rows == dish[work[s].list]
           w == [work[s] EXCEPT !.step = "delete", !.seen = rows]
<1>1. Go(s, w) /\ work[s] # Idle /\ work[s].kind = "save"
  BY DEF FindRows, Working
<1>2. work[s] \in Work /\ Sound(work[s], users, dish, runs)
  BY <1>1, WorkingHad
<1>3. dish # Nothing /\ work[s].list \in Lists
  BY <1>1, <1>2 DEF Sound, Work
<1>4. rows \in Rows
  BY <1>3, RowsOfList
<1> HIDE DEF rows
<1>5. w \in Work /\ w.kind = "save" /\ w.save = work[s].save /\ w.step # "commit"
  BY <1>1, <1>2, <1>4 DEF Work
<1> HIDE DEF w
<1>6. QED BY <1>1, <1>5, SaveStepKeeps

LEMMA DeleteRowsKeeps ==
  ASSUME IInv, NEW s \in Sessions, DeleteRows(s)
  PROVE  IInv'
<1> DEFINE v == work[s]
           rows == v.seen \cap dish[v.list]
           step == IF v.list = "variants" THEN "find" ELSE "insert"
           w == [v EXCEPT !.gone[v.list] = rows, !.list = "ingredients", !.step = step]
<1>1. Go(s, w) /\ work[s] # Idle /\ work[s].kind = "save"
  BY DEF DeleteRows, Working
<1>2. v \in Work
  BY <1>1, WorkingHad
<1>3. rows \in Rows
  BY <1>2 DEF Work, Rows
<1>4. step \in {"find", "insert"}
  OBVIOUS
<1> HIDE DEF v, rows, step
<1>5. [v.gone EXCEPT ![v.list] = rows] \in [Lists -> Rows]
  BY <1>2, <1>3 DEF Work
<1>6. w = [v EXCEPT !.gone = [v.gone EXCEPT ![v.list] = rows],
                    !.list = "ingredients", !.step = step]
  BY Zenon
<1>7. w \in Work /\ w.kind = v.kind /\ w.save = v.save /\ w.step # "commit"
  BY <1>2, <1>4, <1>5, <1>6 DEF Work, Lists
<1> HIDE DEF w
<1>8. QED BY <1>1, <1>7, SaveStepKeeps DEF v

\* What is added meets no rows: those of the list are deleted, and no other save adds to it.
LEMMA InsertRowsKeeps ==
  ASSUME IInv, NEW s \in Sessions, InsertRows(s)
  PROVE  IInv'
<1> DEFINE filled == {l \in Lists : work[s].save[l]}
           w == [work[s] EXCEPT !.step = "commit"]
<1>1. /\ work[s] # Idle /\ work[s].kind = "save"
      /\ \A x \in Others(s), l \in filled : ~(Adding(work[x]) /\ work[x].save[l])
      /\ IF \A l \in filled : dish[l] \subseteq work[s].gone[l]
         THEN Go(s, w) ELSE Go(s, Idle)
  BY DEF InsertRows, Working, Goto
<1>2. CASE \A l \in filled : dish[l] \subseteq work[s].gone[l]
  <2>1. /\ work[s] \in Work /\ Sound(work[s], users, dish, runs) /\ Go(s, w)
    BY <1>1, <1>2, WorkingHad
  <2>2. /\ w \in Work /\ w.kind = "save" /\ w.save = work[s].save
        /\ w.gone = work[s].gone /\ w.step = "commit"
    BY <1>1, <2>1 DEF Work
  <2> HIDE DEF w
  <2>3. Sound(w, users, dish, runs) /\ CountsStand(w, users, dish, runs)
    BY <1>1, <1>2, <2>1, <2>2 DEF Sound, CountsStand, Claimed, ClaimsDish, Adding, Receipted
  <2>4. \A x \in Others(s) : Apart(work[x], w)
    BY <1>1, <2>2 DEF Apart, Claimed, ClaimsDish, Adding, Receipted
  <2>5. QED BY <2>1, <2>2, <2>3, <2>4, GoKeeps
<1>3. CASE ~ \A l \in filled : dish[l] \subseteq work[s].gone[l]
  BY <1>1, <1>3, EndKeeps
<1>4. QED BY <1>2, <1>3

\* The rows of a list after a save is committed.
After(save, gone, rows, l) == (rows \ gone[l]) \cup Filled(save, l)

LEMMA CommitSaveKeeps ==
  ASSUME IInv, NEW s \in Sessions, CommitSave(s)
  PROVE  IInv'
<1> DEFINE w == work[s]
           Now(l) == After(w.save, w.gone, dish[l], l)
           name == IF w.save.renames THEN w.save ELSE dish.name
<1>1. /\ w # Idle /\ w.kind = "save" /\ w.step = "commit"
      /\ dish' = [name |-> name, variants |-> Now("variants"),
                  ingredients |-> Now("ingredients")]
      /\ Committed(s) /\ users' = users /\ runs' = runs /\ saves' = saves
  BY Zenon DEF CommitSave, Working, After
<1>2. /\ w \in Work /\ Sound(w, users, dish, runs)
      /\ \A x \in Others(s) : /\ Sound(work[x], users, dish, runs)
                              /\ Apart(work[x], w)
  BY <1>1, WorkingHad
<1>3. w.save \in Save /\ dish # Nothing /\ dish \in Dish
  BY <1>1, <1>2 DEF Sound, IInv, TypeOK
<1>4. \A l \in Lists : w.save[l] => Adding(w) /\ dish[l] \subseteq w.gone[l]
  BY <1>1, <1>2 DEF Sound, Adding
<1>5. \A l \in Lists : Now(l) = IF w.save[l] THEN {w.save} ELSE dish[l] \ w.gone[l]
  BY <1>4 DEF After, Filled
<1>6. \A l \in Lists : dish[l] \in Rows /\ Now(l) \in Rows
  BY <1>3, <1>5, RowsOfList DEF Rows
<1>7. /\ dish'.variants = Now("variants") /\ dish'.ingredients = Now("ingredients")
      /\ \A l \in Lists : dish'[l] = Now(l)
  BY <1>1 DEF Lists
<1>8. dish' \in Dish /\ dish' # Nothing
  <2>1. name \in Save
    BY <1>3 DEF Dish
  <2>2. "variants" \in Lists /\ "ingredients" \in Lists
    BY DEF Lists
  <2> HIDE DEF name, Now
  <2>3. dish' \in Dish
    BY <1>1, <1>6, <2>1, <2>2 DEF Dish
  <2>4. QED BY <2>3, CatalogAssumption
<1> HIDE DEF w, Now
<1>9. ASSUME NEW x \in Others(s)
      PROVE  Sound(work[x], users', dish', runs')
  <2> DEFINE v == work[x]
  <2>1. Sound(v, users, dish, runs) /\ Apart(v, w)
    BY <1>2
  <2> HIDE DEF v
  <2>2. ~ClaimsDish(v)
    BY <1>3, <2>1 DEF Sound
  <2>3. ASSUME Adding(v), NEW l \in Lists, v.save[l]
        PROVE  dish'[l] \subseteq v.gone[l]
    <3>1. ~ w.save[l]
      BY <1>4, <2>1, <2>3 DEF Apart
    <3>2. dish[l] \subseteq v.gone[l]
      BY <2>1, <2>3 DEF Sound
    <3>3. QED BY <1>5, <1>7, <3>1, <3>2
  <2>4. Sound(v, users', dish', runs')
    BY <1>1, <1>8, <2>1, <2>2, <2>3 DEF Sound
  <2>5. QED BY <2>4 DEF v
<1>10. ListsOK'
  <2>1. ListsOK
    BY DEF IInv
  <2>2. \A l \in Lists : OneSave(dish'[l])
    BY <1>3, <1>5, <1>7, <2>1 DEF ListsOK, OneSave
  <2>3. ASSUME NEW a \in dish'.variants, NEW b \in dish'.ingredients
        PROVE  a = b \/ ~a.ingredients \/ ~b.variants
    <3>1. /\ a \in IF w.save["variants"] THEN {w.save} ELSE dish["variants"] \ w.gone["variants"]
          /\ b \in IF w.save["ingredients"] THEN {w.save}
                   ELSE dish["ingredients"] \ w.gone["ingredients"]
      BY <1>5, <1>7, <2>3 DEF Lists
    <3>2. CASE w.save.variants /\ w.save.ingredients
      BY <3>1, <3>2
    <3>3. CASE w.save.variants /\ ~ w.save.ingredients
      BY <3>1, <3>3
    <3>4. CASE ~ w.save.variants /\ w.save.ingredients
      BY <3>1, <3>4
    <3>5. CASE ~ w.save.variants /\ ~ w.save.ingredients
      BY <1>3, <2>1, <3>1, <3>5 DEF ListsOK
    <3>6. QED BY <3>2, <3>3, <3>4, <3>5
  <2>4. QED BY <2>2, <2>3 DEF ListsOK
<1>11. ImportIsWhole'
  BY <1>1 DEF IInv, ImportIsWhole
<1>12. users' \in [Numbers -> Manifests \cup {Web, Nothing}] /\ runs' \in SUBSET Manifests
  BY <1>1 DEF IInv, TypeOK
<1>13. QED BY <1>1, <1>8, <1>9, <1>10, <1>11, <1>12, CommitKeeps DEF w

-----------------------------------------------------------------------------
(* The import *)

LEMMA BeginImportKeeps ==
  ASSUME IInv, NEW s \in Sessions, NEW m \in Manifests, BeginImport(s, m)
  PROVE  IInv'
<1>1. saves' \in 0 .. MaxSaves /\ Begin(s, "import", "run", Imported, m)
  BY DEF BeginImport, IInv, TypeOK
<1>2. 0 \in 0 .. MaxSaves
  BY CatalogAssumption
<1>3. Imported \in Save
  BY <1>2 DEF Imported, Save
<1>4. QED BY <1>1, <1>3, BeginKeeps

\* A count of an import before its receipt.
LEMMA CountKeeps ==
  ASSUME IInv, NEW s \in Sessions, NEW step, Goto(s, step), work[s] # Idle,
         work[s].kind = "import", step \in {"runs", "users", "dishes", "receipt"},
         step # "runs" => runs = {} \/ work[s].step \notin {"run", "runs"},
         step \notin {"runs", "users"} =>
           Taken = {} \/ work[s].step \notin {"run", "runs", "users"},
         step \notin {"runs", "users", "dishes"} =>
           dish = Nothing \/ work[s].step \notin {"run", "runs", "users", "dishes"}
  PROVE  IInv'
<1> DEFINE w == [work[s] EXCEPT !.step = step]
<1>1. /\ work[s] \in Work /\ Sound(work[s], users, dish, runs) /\ Go(s, w)
      /\ CountsStand(work[s], users, dish, runs)
  BY WorkingHad DEF Goto
<1>2. /\ w \in Work /\ w.kind = "import" /\ w.save = work[s].save
      /\ w.step = step /\ w.manifest = work[s].manifest /\ w.alone = work[s].alone
  BY <1>1 DEF Work
<1> HIDE DEF w
<1>3. Sound(w, users, dish, runs)
  BY <1>1, <1>2 DEF Sound, Claimed, ClaimsDish, Adding, Receipted
<1>4. CountsStand(w, users, dish, runs)
  BY <1>1, <1>2 DEF CountsStand, Taken
<1>5. \A x \in Others(s) : Apart(work[x], w)
  BY <1>2 DEF Apart, Claimed, ClaimsDish, Adding, Receipted
<1>6. QED BY <1>1, <1>2, <1>3, <1>4, <1>5, GoKeeps

LEMMA CheckRunKeeps ==
  ASSUME IInv, NEW s \in Sessions, CheckRun(s)
  PROVE  IInv'
<1>1. CASE work[s].manifest \in runs
  BY <1>1, EndKeeps DEF CheckRun
<1>2. CASE work[s].manifest \notin runs
  BY <1>2, CountKeeps DEF CheckRun, Working
<1>3. QED BY <1>1, <1>2

LEMMA CheckRunsKeeps ==
  ASSUME IInv, NEW s \in Sessions, CheckRuns(s)
  PROVE  IInv'
<1>1. CASE runs # {}
  BY <1>1, EndKeeps DEF CheckRuns
<1>2. CASE runs = {}
  BY <1>2, CountKeeps DEF CheckRuns, Working
<1>3. QED BY <1>1, <1>2

LEMMA CountUsersKeeps ==
  ASSUME IInv, NEW s \in Sessions, CountUsers(s)
  PROVE  IInv'
<1>1. CASE Taken # {}
  BY <1>1, EndKeeps DEF CountUsers
<1>2. CASE Taken = {}
  BY <1>2, CountKeeps DEF CountUsers, Working
<1>3. QED BY <1>1, <1>2

LEMMA CountDishesKeeps ==
  ASSUME IInv, NEW s \in Sessions, CountDishes(s)
  PROVE  IInv'
<1>1. CASE dish # Nothing
  BY <1>1, EndKeeps DEF CountDishes
<1>2. CASE dish = Nothing
  BY <1>2, CountKeeps DEF CountDishes, Working
<1>3. QED BY <1>1, <1>2

LEMMA InsertReceiptKeeps ==
  ASSUME IInv, NEW s \in Sessions, InsertReceipt(s)
  PROVE  IInv'
<1> DEFINE m == work[s].manifest
           w == [work[s] EXCEPT !.step = "add users", !.numbers = RowsOf[m]]
<1>1. /\ work[s] # Idle /\ work[s].kind = "import" /\ work[s].step = "receipt"
      /\ \A x \in Others(s) :
           work[x].manifest = m => work[x].step \notin {"add users", "add dish", "commit"}
      /\ IF m \in runs THEN Go(s, Idle) ELSE Go(s, w)
  BY DEF InsertReceipt, Working
<1>2. /\ work[s] \in Work /\ Sound(work[s], users, dish, runs)
      /\ CountsStand(work[s], users, dish, runs)
  BY <1>1, WorkingHad
<1>3. CASE m \in runs
  BY <1>1, <1>3, EndKeeps
<1>4. CASE m \notin runs
  <2>1. m \in Manifests
    BY <1>1, <1>2 DEF Sound
  <2>2. RowsOf[m] \in SUBSET Numbers
    BY <2>1, ImportAssumption
  <2> DEFINE rows == RowsOf[m]
  <2> HIDE DEF rows
  <2>3. rows \in SUBSET Numbers
    BY <2>2 DEF rows
  <2>4. w = [work[s] EXCEPT !.step = "add users", !.numbers = rows]
    BY DEF rows
  <2>5. /\ w \in Work /\ w.kind = "import" /\ w.save = work[s].save
        /\ w.step = "add users" /\ w.manifest = m /\ w.alone = work[s].alone
        /\ w.numbers = rows
    BY <1>1, <1>2, <2>3, <2>4 DEF Work
  <2>6. Go(s, w)
    BY <1>1, <1>4
  <2> HIDE DEF w
  <2>7. Sound(w, users, dish, runs)
    BY <1>1, <1>2, <1>4, <2>5
       DEF Sound, Claimed, ClaimsDish, Adding, Receipted, rows
  <2>8. CountsStand(w, users, dish, runs)
    BY <1>1, <1>2, <2>5 DEF CountsStand
  <2>9. \A x \in Others(s) : Apart(work[x], w)
    BY <1>1, <2>5 DEF Apart, Claimed, ClaimsDish, Adding, Receipted
  <2>10. QED BY <2>5, <2>6, <2>7, <2>8, <2>9, GoKeeps
<1>5. QED BY <1>3, <1>4

LEMMA AddUsersKeeps ==
  ASSUME IInv, NEW s \in Sessions, AddUsers(s)
  PROVE  IInv'
BY InsertUsersKeeps DEF AddUsers, Working

LEMMA AddDishKeeps ==
  ASSUME IInv, NEW s \in Sessions, AddDish(s)
  PROVE  IInv'
BY InsertDishKeeps DEF AddDish, Working

\* What an import publishes was nobody's, and there was no dish.
LEMMA PublishKeeps ==
  ASSUME IInv, NEW s \in Sessions, Publish(s)
  PROVE  IInv'
<1> DEFINE w == work[s]
           m == w.manifest
<1>1. /\ w # Idle /\ w.kind = "import" /\ w.step = "commit"
      /\ runs' = runs \cup {m}
      /\ users' = [n \in Numbers |-> IF n \in w.numbers THEN m ELSE users[n]]
      /\ dish' = NewDish(w.save)
      /\ Committed(s) /\ saves' = saves
  BY DEF Publish, Working
<1>2. /\ w \in Work /\ Sound(w, users, dish, runs)
      /\ \A x \in Others(s) : /\ Sound(work[x], users, dish, runs)
                              /\ work[x] \in Work
                              /\ Apart(work[x], w)
      /\ users \in [Numbers -> Manifests \cup {Web, Nothing}]
      /\ runs \in SUBSET Manifests
  BY <1>1, WorkingHad
<1>3. /\ w.save \in Save /\ m \in Manifests /\ m \notin runs
      /\ w.numbers = RowsOf[m] /\ ClaimsDish(w) /\ dish = Nothing /\ Receipted(w)
      /\ Claimed(w) = w.numbers /\ \A n \in w.numbers : users[n] = Nothing
  BY <1>1, <1>2 DEF Sound, ClaimsDish, Claimed, Receipted
<1>4. \A n \in Numbers : users'[n] = IF n \in w.numbers THEN m ELSE users[n]
  BY <1>1
<1>5. users' \in [Numbers -> Manifests \cup {Web, Nothing}] /\ runs' \in SUBSET Manifests
  BY <1>1, <1>2, <1>3
<1>6. dish' \in Dish /\ dish' # Nothing
  BY <1>1, <1>3, NewDishIsOneSave
<1>7. Web \notin Manifests /\ Nothing # Web
      /\ Nothing \notin Manifests /\ RowsOf \in [Manifests -> (SUBSET Numbers) \ {{}}]
  BY CatalogAssumption, ImportAssumption
<1> HIDE DEF w
<1>8. ASSUME NEW x \in Others(s)
      PROVE  Sound(work[x], users', dish', runs')
  <2> DEFINE v == work[x]
  <2>1. Sound(v, users, dish, runs) /\ v \in Work /\ Apart(v, w)
    BY <1>2
  <2> HIDE DEF v
  <2>2. ~ClaimsDish(v) /\ v.kind # "save" /\ (Receipted(v) => v.manifest # m)
    BY <1>3, <2>1 DEF Apart, Sound
  <2>3. ~Adding(v)
    BY <2>2 DEF Adding
  <2>4. v.numbers \subseteq Numbers /\ Claimed(v) \subseteq v.numbers
    BY <2>1 DEF Work, Claimed
  <2>5. \A n \in Claimed(v) : n \notin w.numbers
    BY <1>3, <2>1 DEF Apart
  <2>6. \A n \in Claimed(v) : users'[n] = Nothing
    BY <1>4, <2>1, <2>4, <2>5 DEF Sound
  <2>7. v.kind = "user" => \A n \in v.numbers : users'[n] # Web
    BY <1>3, <1>4, <1>7, <2>1, <2>4 DEF Sound
  <2>8. Receipted(v) => v.numbers = RowsOf[v.manifest] /\ v.manifest \notin runs'
    BY <1>1, <2>1, <2>2 DEF Sound
  <2>9. Sound(v, users', dish', runs')
    BY <2>1, <2>2, <2>3, <2>6, <2>7, <2>8 DEF Sound
  <2>10. QED BY <2>9 DEF v
<1>9. ListsOK'
  <2>1. /\ \A l \in Lists : OneSave(dish'[l])
        /\ \A a \in dish'.variants, b \in dish'.ingredients : a = b
    BY <1>1, <1>3, NewDishIsOneSave
  <2>2. QED BY <2>1 DEF ListsOK
<1>10. ImportIsWhole'
  BY <1>1, <1>3, <1>4, <1>7 DEF IInv, ImportIsWhole
<1>11. QED BY <1>1, <1>5, <1>6, <1>8, <1>9, <1>10, CommitKeeps DEF w

-----------------------------------------------------------------------------
(* The theorems *)

LEMMA InitHolds == Init => IInv
<1> SUFFICES ASSUME Init PROVE IInv
  OBVIOUS
<1>1. TypeOK
  BY CatalogAssumption DEF Init, TypeOK
<1>2. SessionsOK /\ ListsOK
  BY DEF Init, SessionsOK, Running, ListsOK
<1>3. ImportIsWhole
  BY CatalogAssumption DEF Init, ImportIsWhole
<1>4. QED BY <1>1, <1>2, <1>3 DEF IInv

LEMMA StepKeeps == IInv /\ [ImportNext]_vars => IInv'
<1> SUFFICES ASSUME IInv, [ImportNext]_vars PROVE IInv'
  OBVIOUS
<1>1. CASE UNCHANGED vars
  BY <1>1 DEF vars, IInv, TypeOK, SessionsOK, Running, ListsOK, ImportIsWhole
<1>2. CASE Next
  <2>1. PICK s \in Sessions : Adds(s) \/ Creates(s) \/ Saves(s) \/ Fail(s)
    BY <1>2 DEF Next
  <2>2. CASE Adds(s)
    BY <2>2, BeginUserKeeps, LockUsersKeeps, MaxUserKeeps, InsertUserKeeps, CommitUserKeeps
       DEF Adds
  <2>3. CASE Creates(s)
    BY <2>3, BeginCreateKeeps, InsertCreatedKeeps, CommitCreatedKeeps DEF Creates
  <2>4. CASE Saves(s)
    BY <2>4, BeginSaveKeeps, RenameKeeps, FindRowsKeeps, DeleteRowsKeeps, InsertRowsKeeps,
       CommitSaveKeeps DEF Saves
  <2>5. CASE Fail(s)
    BY <2>5, FailKeeps
  <2>6. QED BY <2>1, <2>2, <2>3, <2>4, <2>5
<1>3. CASE \E s \in Sessions : Imports(s)
  <2>1. PICK s \in Sessions : Imports(s)
    BY <1>3
  <2>2. QED BY <2>1, BeginImportKeeps, CheckRunKeeps, CheckRunsKeeps, CountUsersKeeps,
               CountDishesKeeps, InsertReceiptKeeps, AddUsersKeeps, AddDishKeeps,
               PublishKeeps DEF Imports
<1>4. QED BY <1>1, <1>2, <1>3 DEF ImportNext

LEMMA Invariance == ImportSpec => []IInv
BY InitHolds, StepKeeps, PTL DEF ImportSpec

\* Rows, receipts and requests keep their types, whatever requests and imports
\* overlap (services/catalog.py, migration/persistence.py).
THEOREM TypeCorrect == ImportSpec => []TypeOK
<1>1. IInv => TypeOK
  BY DEF IInv
<1>2. QED BY <1>1, Invariance, PTL

\* A number create_user has worked out is no web user's before it is inserted
\* (catalog.py:142-147): past the advisory lock there is one request, which reads
\* the largest number there is.
THEOREM NumbersStayOwn == ImportSpec => []NumbersAreOwn
<1>1. IInv => NumbersAreOwn
  BY DEF IInv, NumbersAreOwn, SessionsOK, Running, Sound
<1>2. QED BY <1>1, Invariance, PTL

\* The lists of a dish are never a mixture of two saves that wrote both of them
\* (catalog.py:200-209).
THEOREM SavesDoNotMix == ImportSpec => []ListsOfOneSave
<1>1. ASSUME NEW rows, OneSave(rows)
      PROVE  Cardinality(rows) <= 1
  <2>1. CASE rows = {}
    BY <2>1, FS_EmptySet
  <2>2. CASE rows # {}
    <3>1. PICK a \in rows : TRUE
      BY <2>2
    <3>2. rows = {a}
      BY <1>1, <3>1 DEF OneSave
    <3>3. Cardinality({a}) = 1
      BY FS_Singleton
    <3>4. QED BY <3>2, <3>3
  <2>3. QED BY <2>1, <2>2
<1>2. IInv => ListsOfOneSave
  BY <1>1 DEF IInv, ListsOK, ListsOfOneSave
<1>3. QED BY <1>2, Invariance, PTL

\* A receipt has all its users and no user is without its receipt, wherever an
\* import fails and whatever it overlaps (persistence.py:77, 106-120).
THEOREM ImportsAreWhole == ImportSpec => []ImportIsWhole
<1>1. IInv => ImportIsWhole
  BY DEF IInv
<1>2. QED BY <1>1, Invariance, PTL

\* An import that publishes while nobody else has committed finds the database
\* as empty as it counted it (persistence.py:84-100).
THEOREM ImportsMeetNobody == ImportSpec => ImportsIntoEmpty
<1> DEFINE IntoEmpty ==
      \A s \in Sessions :
        runs' # runs /\ work[s] # Idle /\ work[s].alone /\ work'[s] = Idle
          => runs = {} /\ dish = Nothing /\ Taken = {}
<1>1. ASSUME IInv, NEW x \in Sessions, Publish(x) PROVE IntoEmpty
  <2> SUFFICES ASSUME NEW s \in Sessions, work[s] # Idle, work[s].alone, work'[s] = Idle
               PROVE  runs = {} /\ dish = Nothing /\ Taken = {}
    OBVIOUS
  <2>1. s = x
    <3> SUFFICES ASSUME s # x PROVE FALSE
      OBVIOUS
    <3>1. s \in Others(x) /\ work[s] \in Work
      BY <1>1 DEF Others, IInv, TypeOK
    <3>2. work'[s] = [work[s] EXCEPT !.alone = FALSE]
      BY <1>1, <3>1 DEF Publish, Committed
    <3>3. work'[s] \in Work
      BY <3>1, <3>2 DEF Work
    <3>4. QED BY <3>3, CatalogAssumption
  <2>2. work[s].kind = "import" /\ work[s].step = "commit"
        /\ CountsStand(work[s], users, dish, runs)
    BY <1>1, <2>1, WorkingHad DEF Publish, Working
  <2>3. QED BY <2>2 DEF CountsStand, Taken
<1>2. IInv /\ [ImportNext]_vars => IntoEmpty \/ UNCHANGED vars
  <2> SUFFICES ASSUME IInv, ImportNext, runs' # runs PROVE IntoEmpty
    BY DEF vars
  <2>1. ASSUME Next PROVE FALSE
    BY <2>1 DEF Next, Adds, Creates, Saves, Fail, Go, Goto, Begin, BeginUser, LockUsers,
         MaxUser, InsertUser, InsertUsers, CommitUser, BeginCreate, InsertCreated, InsertDish,
         CommitCreated, BeginSave, Rename, FindRows, DeleteRows, InsertRows, CommitSave
  <2>2. PICK s \in Sessions : Imports(s)
    BY <2>1 DEF ImportNext
  <2>3. Publish(s)
    BY <2>2 DEF Imports, BeginImport, CheckRun, CheckRuns, CountUsers, CountDishes,
         InsertReceipt, AddUsers, InsertUsers, AddDish, InsertDish, Go, Goto, Begin
  <2>4. QED BY <1>1, <2>3
<1>3. IInv /\ [ImportNext]_vars => [IntoEmpty]_vars
  BY <1>2
<1>4. QED BY <1>3, Invariance, PTL DEF ImportSpec, ImportsIntoEmpty

=============================================================================
