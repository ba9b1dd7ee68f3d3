--------------------------- MODULE SyncCursorProofs ---------------------------
(***************************************************************************)
(* What the cursors promise, for any accounts in any order, any transfers  *)
(* and any number of synchronisations that overlap and fail.               *)
(*                                                                         *)
(* A cursor says that every change up to it was stored.  The invariant     *)
(* says of a synchronisation under way why it may move the cursor: what    *)
(* the answer did not mention had been stored under the cursor it was      *)
(* asked with, and nobody has written what it has read.  The second holds  *)
(* for a synchronisation that met no other, and under the row locks, which *)
(* cover the first account.                                                *)
(***************************************************************************)
EXTENDS SyncCursor, WellFoundedInduction, TLAPS

First == Order[1]

\* What the cursor c of account a promises of a transfer that is i in ZenMoney and r
\* in the table.
Kept(i, r, a, c) ==
  i.at <= c =>
    LET shown == r = [account |-> i.account, money |-> i.money, deleted |-> i.deleted]
    IN  /\ ~i.deleted /\ i.account = a => shown
        /\ r # NoRow /\ ~r.deleted /\ r.account = a => shown

\* The rows that the entry i can make of old.
Rows(old, i, a) ==
  {Received(old, i, a)} \cup (IF i.deleted THEN {Deleted(old, i, a)} ELSE {})

ClockOK ==
  /\ overlap <= clock
  /\ \A t \in Transfers : 0 < remote[t].at /\ remote[t].at <= clock
  /\ \A a \in Accounts : cursor[a] # NoConfig => cursor[a] <= clock

\* A synchronisation w and the times it knows.
TimesOK(w, now) ==
  /\ w.since[AccountOf(w)] # NoConfig
  /\ w.at <= now
  /\ \A a \in Accounts :
       w.since[a] # NoConfig => w.since[a] <= (IF w.step = "receive" THEN w.at ELSE now)
  /\ ~w.locks \/ w.position # 1 => w.since[First] = NoConfig
  /\ DOMAIN w.read = DOMAIN w.rows
  /\ w.step = "request" => DOMAIN w.left = {} /\ DOMAIN w.rows = {}

CursorsOK(w, cur) ==
  /\ w.locks => \A a \in Accounts : w.since[a] # NoConfig => cur[a] = w.since[a]
  /\ w.alone /\ w.step = "receive" =>
       \A a \in Accounts : cur[a] # NoConfig => cur[a] <= w.at

\* The answer on transfer t, which is i in ZenMoney and r in the table, and has never
\* left the first account if stays.
AnswerOK(w, t, i, r, stays) ==
  LET a == AccountOf(w)
  IN  /\ t \in DOMAIN w.left => t \notin DOMAIN w.rows
      /\ i.at <= w.at =>
           \/ t \in DOMAIN w.left /\ w.left[t] = i
           \/ t \in DOMAIN w.rows /\ w.rows[t] \in Rows(w.read[t], i, a)
           \/ t \notin DOMAIN w.left \cup DOMAIN w.rows /\ i.at <= w.since[a]
      /\ t \in DOMAIN w.rows =>
           /\ w.alone \/ w.locks => w.read[t] = r
           /\ w.read[t] # NoRow => w.rows[t] # NoRow
      /\ stays =>
           /\ t \in DOMAIN w.left => w.left[t].account = First
           /\ t \in DOMAIN w.rows /\ a # First => w.rows[t] = w.read[t]
           /\ t \in DOMAIN w.rows /\ w.rows[t] # NoRow => w.rows[t].account = First

\* The cursors that a synchronisation without company will replace.
SinceOK(w, i, r, last) ==
  w.alone /\ last < i.at =>
    \A a \in Accounts : w.since[a] # NoConfig => Kept(i, r, a, w.since[a])

TransferOK(w, t, i, r, stays, last) ==
  /\ w.step = "receive" => AnswerOK(w, t, i, r, stays)
  /\ SinceOK(w, i, r, last)

SyncOK(w, now, cur, rem, mir, last, gone) ==
  /\ TimesOK(w, now)
  /\ CursorsOK(w, cur)
  /\ \A t \in Transfers : TransferOK(w, t, rem[t], mir[t], t \notin gone, last)

SyncsOK ==
  \A s \in Sessions :
    work[s] # Idle => SyncOK(work[s], clock, cursor, remote, mirror, overlap, moved)

OthersOK ==
  \A s, x \in Sessions :
    s # x /\ work[s] # Idle /\ work[x] # Idle =>
      /\ ~work[s].alone
      /\ ~(work[s].locks /\ work[x].locks)

StaysOK ==
  \A t \in Transfers \ moved :
    /\ remote[t].account = First
    /\ mirror[t] # NoRow => mirror[t].account = First

IInv ==
  /\ TypeOK
  /\ ClockOK
  /\ SyncsOK
  /\ OthersOK
  /\ StaysOK
  /\ ChangesArrive
  /\ FirstIsExact

-----------------------------------------------------------------------------
(* Data *)

LEMMA PartialIs ==
  ASSUME NEW S, NEW f \in Partial(S)
  PROVE  DOMAIN f \subseteq Transfers /\ f \in [DOMAIN f -> S]
BY DEF Partial

LEMMA PartialOf ==
  ASSUME NEW S, NEW D \in SUBSET Transfers, NEW f \in [D -> S]
  PROVE  f \in Partial(S)
BY DEF Partial

LEMMA NothingIs ==
  ASSUME NEW S
  PROVE  Nothing \in Partial(S) /\ DOMAIN Nothing = {}
<1>1. Nothing \in [{} -> S] /\ DOMAIN Nothing = {}
  BY DEF Nothing
<1>2. QED BY <1>1, PartialOf

LEMMA OthersIs ==
  ASSUME NEW S, NEW f \in Partial(S), NEW t
  PROVE  Others(f, t) \in Partial(S)
<1>1. DOMAIN f \subseteq Transfers /\ f \in [DOMAIN f -> S]
  BY PartialIs
<1>2. Others(f, t) \in [DOMAIN f \ {t} -> S]
  BY <1>1 DEF Others
<1>3. QED BY <1>1, <1>2, PartialOf

LEMMA WithIs ==
  ASSUME NEW S, NEW f \in Partial(S), NEW t \in Transfers, NEW v \in S
  PROVE  With(f, t, v) \in Partial(S)
<1>1. DOMAIN f \subseteq Transfers /\ f \in [DOMAIN f -> S]
  BY PartialIs
<1>2. With(f, t, v) \in [DOMAIN f \cup {t} -> S]
  BY <1>1 DEF With
<1>3. QED BY <1>1, <1>2, PartialOf

LEMMA FirstTodo ==
  ASSUME NEW todo \in SUBSET Positions, todo # {}
  PROVE  \E k \in todo : \A j \in todo : k <= j
<1>1. todo \subseteq Nat
  BY ConstantsAssumption DEF Positions
<1>2. \E k \in todo : \A j \in todo : ~ (<<j, k>> \in OpToRel(<, Nat))
  BY <1>1, NatLessThanWellFounded, WFMin
<1>3. PICK k \in todo : \A j \in todo : ~ (<<j, k>> \in OpToRel(<, Nat))
  BY <1>2
<1>4. ASSUME NEW j \in todo PROVE k <= j
  <2>1. j \in Nat /\ k \in Nat
    BY <1>1
  <2>2. ASSUME j < k PROVE <<j, k>> \in OpToRel(<, Nat)
    BY <2>1, <2>2 DEF OpToRel
  <2>3. ~ (j < k)
    BY <1>3, <2>2, Zenon
  <2>4. QED BY <2>1, <2>3
<1>5. QED BY <1>4

LEMMA FirstIsAccount == First \in Accounts /\ 1 \in Positions
BY ConstantsAssumption DEF First, Accounts, Positions

\* A synchronisation of the first account that has a cursor.
LEMMA TurnIs ==
  ASSUME NEW c \in [Accounts -> Times \cup {NoConfig}], NEW locks \in BOOLEAN,
         NEW alone \in BOOLEAN, Turn(c, locks, alone) # Idle
  PROVE  LET w == Turn(c, locks, alone)
         IN  /\ w \in Work
             /\ w.since = c /\ w.locks = locks /\ w.alone = alone /\ w.step = "request"
             /\ w.at = 0 /\ w.left = Nothing /\ w.read = Nothing /\ w.rows = Nothing
             /\ c[AccountOf(w)] # NoConfig
             /\ w.position # 1 => c[First] = NoConfig
<1> DEFINE todo == {k \in Positions : c[Order[k]] # NoConfig}
           k == CHOOSE n \in todo : \A j \in todo : n <= j
           w == Turn(c, locks, alone)
<1>1. todo # {}
  BY DEF Turn
<1>2. k \in todo /\ \A j \in todo : k <= j
  BY <1>1, FirstTodo
<1>3. w = [position |-> k, locks |-> locks, alone |-> alone, step |-> "request", since |-> c,
           at |-> 0, left |-> Nothing, read |-> Nothing, rows |-> Nothing]
  BY <1>1, Zenon DEF Turn
<1> HIDE DEF k, w
<1>4. k \in Positions /\ c[Order[k]] # NoConfig
  BY <1>2
<1>5. 0 \in Times
  BY ConstantsAssumption DEF Times
<1>6. w \in Work
  BY <1>3, <1>4, <1>5, NothingIs DEF Work
<1>7. w.position = k /\ AccountOf(w) = Order[k]
  BY <1>3 DEF AccountOf
<1>8. k # 1 => c[First] = NoConfig
  <2>1. ASSUME k # 1, c[First] # NoConfig PROVE FALSE
    <3>1. 1 \in todo
      BY <2>1, FirstIsAccount DEF First
    <3>2. k <= 1 /\ k \in 1 .. Len(Order)
      BY <1>2, <1>4, <3>1 DEF Positions
    <3>3. QED BY <2>1, <3>2, ConstantsAssumption
  <2>2. QED BY <2>1
<1>9. QED BY <1>3, <1>4, <1>6, <1>7, <1>8 DEF w

\* Only the first position is of the first account.
LEMMA FirstPosition ==
  ASSUME NEW w \in Work
  PROVE  AccountOf(w) \in Accounts /\ (AccountOf(w) = First <=> w.position = 1)
<1>1. w.position \in Positions
  BY DEF Work
<1>2. QED BY <1>1, FirstIsAccount, ConstantsAssumption DEF AccountOf, Accounts, First

LEMMA RowsAre ==
  ASSUME NEW old \in Row \cup {NoRow}, NEW i \in Remote, NEW a \in Accounts,
         NEW new \in Rows(old, i, a)
  PROVE  /\ new \in Row \cup {NoRow}
         /\ old # NoRow => new # NoRow
         /\ \A c : Kept(i, new, a, c)
         /\ \A x \in Accounts \ {a} : \A c : Kept(i, old, x, c) => Kept(i, new, x, c)
<1> USE NullsAssumption
<1>1. CASE new = Received(old, i, a)
  <2>1. CASE i.account = a
    <3>1. new = [account |-> i.account, money |-> i.money, deleted |-> i.deleted]
      BY <1>1, <2>1 DEF Received, Remote
    <3>2. QED BY <3>1 DEF Kept, Row, Remote
  <2>2. CASE i.account # a /\ old # NoRow /\ old.account = a
    <3>1. new = [account |-> a, money |-> i.money, deleted |-> TRUE]
      BY <1>1, <2>2 DEF Received, Remote
    <3>2. new \in Row /\ new.deleted /\ new.account = a
      BY <3>1 DEF Row, Remote
    <3>3. \A c : Kept(i, new, a, c)
      BY <2>2, <3>2 DEF Kept
    <3>4. ASSUME NEW x \in Accounts \ {a}, NEW c, Kept(i, old, x, c)
          PROVE  Kept(i, new, x, c)
      <4>1. ASSUME i.at <= c, ~i.deleted, i.account = x PROVE FALSE
        <5>1. old = [account |-> i.account, money |-> i.money, deleted |-> i.deleted]
          BY <3>4, <4>1 DEF Kept
        <5>2. QED BY <2>2, <5>1
      <4>2. QED BY <3>2, <4>1 DEF Kept
    <3>5. QED BY <3>2, <3>3, <3>4
  <2>3. CASE i.account # a /\ (old = NoRow \/ old.account # a)
    <3>1. new = old
      BY <1>1, <2>3 DEF Received
    <3>2. QED BY <2>3, <3>1 DEF Kept, Row, Remote
  <2>4. QED BY <2>1, <2>2, <2>3
<1>2. CASE new = Deleted(old, i, a) /\ i.deleted
  <2>1. CASE old = NoRow \/ old.account # a
    BY <1>2, <2>1 DEF Deleted, Kept, Row, Remote
  <2>2. CASE old # NoRow /\ old.account = a
    <3>1. new = [old EXCEPT !.deleted = TRUE] /\ old \in Row
      BY <1>2, <2>2 DEF Deleted
    <3>2. QED BY <1>2, <2>2, <3>1 DEF Kept, Row, Remote
  <2>3. QED BY <2>1, <2>2
<1>3. QED BY <1>1, <1>2 DEF Rows

LEMMA MergedIs ==
  ASSUME NEW now \in Row \cup {NoRow}, NEW read \in Row \cup {NoRow},
         NEW new \in Row \cup {NoRow}, read # NoRow => new # NoRow
  PROVE  /\ Merged(now, read, new) \in Row \cup {NoRow}
         /\ read = new => Merged(now, read, new) = now
         /\ read = now => Merged(now, read, new) = new
         /\ \A a : /\ now # NoRow => now.account = a
                   /\ new # NoRow => new.account = a
                   /\ Merged(now, read, new) # NoRow
                   => Merged(now, read, new).account = a
<1> USE NullsAssumption
<1> DEFINE M == Merged(now, read, new)
<1>1. CASE now = NoRow \/ read = NoRow
  BY <1>1, Zenon DEF Merged
<1>2. CASE now # NoRow /\ read # NoRow
  <2>1. M = [c \in DOMAIN new |-> IF new[c] # read[c] THEN new[c] ELSE now[c]]
    BY <1>2 DEF Merged
  <2>2. now \in Row /\ read \in Row /\ new \in Row
    BY <1>2
  <2>3. M \in Row
    BY <2>1, <2>2 DEF Row
  <2>4. ASSUME read = new PROVE M = now
    BY <2>1, <2>2, <2>4 DEF Row
  <2>5. ASSUME read = now PROVE M = new
    BY <2>1, <2>2, <2>5 DEF Row
  <2>6. ASSUME NEW a, now.account = a, new.account = a PROVE M.account = a
    BY <2>1, <2>2, <2>6 DEF Row
  <2>7. QED BY <1>2, <2>3, <2>4, <2>5, <2>6
<1>3. QED BY <1>1, <1>2

LEMMA WorkIs ==
  ASSUME NEW w \in Work
  PROVE  /\ w.position \in Positions /\ w.locks \in BOOLEAN /\ w.alone \in BOOLEAN
         /\ w.step \in {"request", "receive"}
         /\ w.since \in [Accounts -> Times \cup {NoConfig}]
         /\ w.at \in Times /\ Times \subseteq Nat
         /\ w.left \in Partial(Remote)
         /\ w.read \in Partial(Row \cup {NoRow})
         /\ w.rows \in Partial(Row \cup {NoRow})
BY ConstantsAssumption DEF Work, Times

\* Every cursor keeps its promise of a transfer that is i in ZenMoney and r in the table.
AllKept(i, r, cur) ==
  \A a \in Accounts : cur[a] # NoConfig => Kept(i, r, a, cur[a])

LEMMA AllKeptIsExact ==
  ASSUME TypeOK, NEW t \in Transfers
  PROVE  Exact(t) <=> AllKept(remote[t], mirror[t], cursor)
<1>1. remote[t].account \in Accounts /\ (mirror[t] # NoRow => mirror[t].account \in Accounts)
  BY DEF TypeOK, Remote, Row
<1>2. QED BY <1>1 DEF Exact, AllKept, Kept, Shown

\* The parts of the invariant, after a step.
LEMMA Together ==
  ASSUME TypeOK', ClockOK', SyncsOK', OthersOK', StaysOK',
         \A t \in Transfers :
           overlap' < remote'[t].at \/ t \notin moved'
             => AllKept(remote'[t], mirror'[t], cursor')
  PROVE  IInv'
<1>1. ASSUME NEW t \in Transfers, AllKept(remote'[t], mirror'[t], cursor')
      PROVE  Exact(t)'
  <2>1. remote'[t].account \in Accounts
        /\ (mirror'[t] # NoRow => mirror'[t].account \in Accounts)
    BY DEF TypeOK, Remote, Row
  <2>2. QED BY <1>1, <2>1 DEF Exact, AllKept, Kept, Shown
<1>2. overlap' \in Nat /\ \A t \in Transfers : remote'[t].at \in Nat
  BY ConstantsAssumption DEF TypeOK, Times, Remote
<1>3. ChangesArrive'
  BY <1>1, <1>2 DEF ChangesArrive
<1>4. FirstIsExact'
  BY <1>1 DEF FirstIsExact
<1>5. QED BY <1>3, <1>4 DEF IInv

LEMMA KeptNow ==
  ASSUME IInv, NEW t \in Transfers, overlap < remote[t].at \/ t \notin moved
  PROVE  AllKept(remote[t], mirror[t], cursor)
<1>1. overlap \in Nat /\ remote[t].at \in Nat
  BY ConstantsAssumption DEF IInv, TypeOK, Times, Remote
<1>2. Exact(t)
  BY <1>1 DEF IInv, ChangesArrive, FirstIsExact
<1>3. QED BY <1>2, AllKeptIsExact DEF IInv

-----------------------------------------------------------------------------
(* One lemma per action *)

LEMMA InitIInv == Init => IInv
<1> USE ConstantsAssumption, NullsAssumption
<1> SUFFICES ASSUME Init PROVE IInv
  OBVIOUS
<1> DEFINE m == CHOOSE n \in Money : TRUE
<1>1. m \in Money
  OBVIOUS
<1>2. remote = [t \in Transfers |-> [account |-> First, money |-> m, deleted |-> FALSE, at |-> 1]]
  BY DEF Init, First
<1> HIDE DEF m
<1>3. 1 \in Times /\ 0 \in Times
  BY DEF Times
<1>4. remote \in [Transfers -> Remote]
  BY <1>1, <1>2, <1>3, FirstIsAccount DEF Remote
<1>5. TypeOK
  BY <1>3, <1>4 DEF Init, TypeOK
<1>6. ClockOK /\ SyncsOK /\ OthersOK /\ StaysOK
  BY <1>2 DEF Init, ClockOK, SyncsOK, OthersOK, StaysOK
<1>7. \A t \in Transfers : Exact(t)
  <2>1. \A a \in Accounts : cursor[a] = NoConfig
    BY DEF Init
  <2>2. QED BY <1>5, <2>1, AllKeptIsExact DEF AllKept
<1>8. QED BY <1>5, <1>6, <1>7 DEF IInv, ChangesArrive, FirstIsExact

\* A change in ZenMoney comes after all that cursors and answers speak of.
LEMMA ChangedKeeps ==
  ASSUME IInv, NEW t \in Transfers, NEW i \in Remote, Changed(t, i)
  PROVE  IInv'
<1> USE ConstantsAssumption, NullsAssumption
<1> DEFINE new == [i EXCEPT !.at = clock + 1]
<1>1. TypeOK /\ ClockOK /\ clock \in Nat /\ overlap \in Nat /\ Times \subseteq Nat
  BY DEF IInv, TypeOK, Times
<1>2. /\ clock' = clock + 1 /\ remote' = [remote EXCEPT ![t] = new]
      /\ moved' = IF i.account = First THEN moved ELSE moved \cup {t}
      /\ UNCHANGED <<mirror, cursor, work, overlap>>
      /\ clock + 1 \in Times
  BY <1>1 DEF Changed, First, Times, TypeOK
<1>3. new \in Remote /\ new.at = clock + 1 /\ new.account = i.account
  BY <1>2 DEF Remote
<1> HIDE DEF new
<1>4. TypeOK'
  BY <1>1, <1>2, <1>3 DEF TypeOK
<1>5. \A x \in Transfers : IF x = t THEN remote'[x].at = clock + 1 ELSE remote'[x] = remote[x]
  BY <1>1, <1>2, <1>3 DEF TypeOK
<1>6. ClockOK'
  <2>1. \A x \in Transfers : remote[x].at \in Nat
    BY <1>1 DEF TypeOK, Remote
  <2>2. \A a \in Accounts : cursor[a] # NoConfig => cursor[a] \in Nat
    BY <1>1 DEF TypeOK
  <2>3. QED BY <1>1, <1>2, <1>5, <2>1, <2>2 DEF ClockOK
<1>7. \A x \in Transfers \ moved' : x \notin moved /\ remote'[x].account = First
  BY <1>1, <1>2, <1>3 DEF TypeOK, IInv, StaysOK
<1>8. StaysOK'
  BY <1>2, <1>7 DEF IInv, StaysOK
<1>9. OthersOK'
  BY <1>2 DEF IInv, OthersOK
<1>10. SyncsOK'
  <2> SUFFICES ASSUME NEW s \in Sessions, work[s] # Idle
               PROVE  SyncOK(work[s], clock', cursor', remote', mirror', overlap', moved')
    BY <1>2 DEF SyncsOK
  <2> DEFINE w == work[s]
  <2>1. w \in Work /\ SyncOK(w, clock, cursor, remote, mirror, overlap, moved)
    BY <1>1 DEF IInv, SyncsOK, TypeOK
  <2> HIDE DEF w
  <2>2. /\ w.at \in Nat /\ \A a \in Accounts : w.since[a] # NoConfig => w.since[a] \in Nat
        /\ AccountOf(w) \in Accounts
    BY <2>1, WorkIs, FirstPosition
  <2>3. TimesOK(w, clock')
    BY <1>1, <1>2, <2>1, <2>2 DEF SyncOK, TimesOK
  <2>4. CursorsOK(w, cursor')
    BY <1>2, <2>1 DEF SyncOK
  <2>5. /\ w.at < clock + 1
        /\ \A a \in Accounts : w.since[a] # NoConfig => w.since[a] < clock + 1
    BY <1>1, <2>1, <2>2 DEF SyncOK, TimesOK
  <2>6. ASSUME NEW x \in Transfers
        PROVE  TransferOK(w, x, remote'[x], mirror'[x], x \notin moved', overlap')
    <3>1. TransferOK(w, x, remote[x], mirror[x], x \notin moved, overlap)
      BY <2>1 DEF SyncOK
    <3>2. CASE x # t
      BY <1>2, <1>5, <1>7, <3>1, <3>2 DEF TransferOK, AnswerOK
    <3>3. CASE x = t
      <4>1. ~(remote'[x].at <= w.at)
            /\ \A a \in Accounts : w.since[a] # NoConfig => ~(remote'[x].at <= w.since[a])
        BY <1>1, <1>5, <2>2, <2>5, <3>3
      <4>2. SinceOK(w, remote'[x], mirror'[x], overlap')
        BY <4>1 DEF SinceOK, Kept
      <4>3. w.step = "receive" => AnswerOK(w, x, remote'[x], mirror'[x], x \notin moved')
        BY <1>2, <1>7, <3>1, <4>1 DEF TransferOK, AnswerOK
      <4>4. QED BY <4>2, <4>3 DEF TransferOK
    <3>4. QED BY <3>2, <3>3
  <2>7. QED BY <2>3, <2>4, <2>6 DEF SyncOK, w
<1>11. ASSUME NEW x \in Transfers, overlap' < remote'[x].at \/ x \notin moved'
       PROVE  AllKept(remote'[x], mirror'[x], cursor')
  <2>1. CASE x # t
    BY <1>2, <1>5, <1>7, <1>11, <2>1, KeptNow
  <2>2. CASE x = t
    <3>1. \A a \in Accounts : cursor[a] # NoConfig => cursor[a] \in Nat /\ cursor[a] <= clock
      BY <1>1 DEF TypeOK, ClockOK
    <3>2. \A a \in Accounts : cursor[a] # NoConfig => ~(remote'[x].at <= cursor[a])
      BY <1>1, <1>5, <2>2, <3>1
    <3>3. QED BY <1>2, <3>2 DEF AllKept, Kept
  <2>3. QED BY <2>1, <2>2
<1>12. QED BY <1>4, <1>6, <1>8, <1>9, <1>10, <1>11, Together

LEMMA RemoteKeeps ==
  ASSUME IInv, NEW t \in Transfers, Edit(t) \/ Delete(t)
  PROVE  IInv'
<1>1. remote[t] \in Remote
  BY DEF IInv, TypeOK
<1>2. CASE Edit(t)
  <2>1. PICK a \in Accounts, m \in Money :
          Changed(t, [remote[t] EXCEPT !.account = a, !.money = m])
    BY <1>2 DEF Edit
  <2>2. [remote[t] EXCEPT !.account = a, !.money = m] \in Remote
    BY <1>1 DEF Remote
  <2>3. QED BY <2>1, <2>2, ChangedKeeps
<1>3. CASE Delete(t)
  <2>1. [remote[t] EXCEPT !.deleted = ~remote[t].deleted] \in Remote
    BY <1>1 DEF Remote
  <2>2. QED BY <1>3, <2>1, ChangedKeeps DEF Delete
<1>4. QED BY <1>2, <1>3

\* New cursors are 0, those the synchronisations know stay under the locks.
LEMMA SaveSettingsKeeps ==
  ASSUME IInv, NEW selected \in Selections, NEW token \in BOOLEAN,
         SaveSettings(selected, token)
  PROVE  IInv'
<1> USE ConstantsAssumption, NullsAssumption
<1>1. /\ TypeOK /\ ClockOK
      /\ UNCHANGED <<remote, clock, mirror, work, overlap, moved>>
      /\ cursor' = Cursors(selected, token)
  BY DEF IInv, SaveSettings
<1>2. \A a \in Accounts :
        cursor'[a] # NoConfig => cursor'[a] = 0 \/ (cursor'[a] = cursor[a])
  BY <1>1 DEF Cursors
<1>3. 0 \in Times /\ Times \subseteq Nat
  BY DEF Times
<1>4. cursor' \in [Accounts -> Times \cup {NoConfig}]
  <2>1. \A a \in Accounts : cursor'[a] \in Times \cup {NoConfig}
    BY <1>1, <1>2, <1>3 DEF TypeOK
  <2>2. QED BY <1>1, <2>1 DEF Cursors
<1>5. TypeOK'
  BY <1>1, <1>4 DEF TypeOK
<1>6. ClockOK'
  BY <1>1, <1>2, <1>3 DEF ClockOK, TypeOK
<1>7. StaysOK' /\ OthersOK'
  BY <1>1 DEF IInv, StaysOK, OthersOK
<1>8. SyncsOK'
  <2> SUFFICES ASSUME NEW s \in Sessions, work[s] # Idle
               PROVE  SyncOK(work[s], clock, cursor', remote, mirror, overlap, moved)
    BY <1>1 DEF SyncsOK
  <2> DEFINE w == work[s]
  <2>1. w \in Work /\ SyncOK(w, clock, cursor, remote, mirror, overlap, moved)
    BY <1>1 DEF IInv, SyncsOK, TypeOK
  <2>2. w.locks => \A a \in Accounts : cursor[a] # NoConfig => cursor'[a] = cursor[a]
    BY DEF SaveSettings, Locks
  <2> HIDE DEF w
  <2>3. w.at \in Nat
    BY <2>1, WorkIs
  <2>4. CursorsOK(w, cursor')
    BY <1>2, <2>1, <2>2, <2>3 DEF SyncOK, CursorsOK
  <2>5. QED BY <2>1, <2>4 DEF SyncOK, w
<1>9. ASSUME NEW t \in Transfers, overlap' < remote'[t].at \/ t \notin moved'
      PROVE  AllKept(remote'[t], mirror'[t], cursor')
  <2>1. AllKept(remote[t], mirror[t], cursor)
    BY <1>1, <1>9, KeptNow
  <2>2. remote[t].at \in Nat /\ 0 < remote[t].at
    BY <1>1, <1>3 DEF TypeOK, Remote, ClockOK
  <2>3. ~(remote[t].at <= 0)
    BY <2>2
  <2>4. QED BY <1>1, <1>2, <2>1, <2>3 DEF AllKept, Kept
<1>10. QED BY <1>5, <1>6, <1>7, <1>8, <1>9, Together

\* One synchronisation takes a step that writes nothing.
LEMMA OneStep ==
  ASSUME IInv, NEW s \in Sessions, work[s] # Idle,
         UNCHANGED <<remote, clock, mirror, cursor, overlap, moved>>,
         NEW new \in Work \cup {Idle}, work' = [work EXCEPT ![s] = new],
         new # Idle =>
           /\ new.alone = work[s].alone /\ new.locks = work[s].locks
           /\ SyncOK(new, clock, cursor, remote, mirror, overlap, moved)
  PROVE  IInv'
<1>1. TypeOK'
  BY DEF IInv, TypeOK
<1>2. ClockOK' /\ StaysOK'
  BY DEF IInv, ClockOK, StaysOK
<1>3. \A x \in Sessions : work'[x] = IF x = s THEN new ELSE work[x]
  BY DEF IInv, TypeOK
<1>4. SyncsOK'
  BY <1>3 DEF IInv, SyncsOK
<1>5. OthersOK'
  BY <1>3 DEF IInv, OthersOK
<1>6. \A t \in Transfers :
        overlap' < remote'[t].at \/ t \notin moved' => AllKept(remote'[t], mirror'[t], cursor')
  BY KeptNow
<1>7. QED BY <1>1, <1>2, <1>4, <1>5, <1>6, Together

LEMMA FailKeeps ==
  ASSUME IInv, NEW s \in Sessions, Fail(s)
  PROVE  IInv'
BY OneStep DEF Fail

\* The answer is asked for: what it does not mention was stored under the old cursor.
LEMMA RequestKeeps ==
  ASSUME IInv, NEW s \in Sessions, Request(s)
  PROVE  IInv'
<1> USE ConstantsAssumption, NullsAssumption
<1> DEFINE w == work[s]
           a == AccountOf(w)
           diff == Diff(w.since[a])
           new == [w EXCEPT !.step = "receive", !.at = clock, !.left = diff]
<1>1. /\ w # Idle /\ w.step = "request" /\ TypeOK /\ ClockOK
      /\ UNCHANGED <<remote, clock, mirror, cursor, overlap, moved>>
  BY DEF Request, IInv
<1>2. w \in Work /\ SyncOK(w, clock, cursor, remote, mirror, overlap, moved)
  BY <1>1 DEF IInv, SyncsOK, TypeOK
<1>3. work' = [work EXCEPT ![s] = new]
  BY <1>1 DEF Request, TypeOK
<1>4. /\ a \in Accounts /\ w.since[a] \in Nat /\ w.since[a] # NoConfig
      /\ DOMAIN w.rows = {} /\ DOMAIN w.read = {} /\ DOMAIN w.left = {}
  BY <1>1, <1>2, WorkIs, FirstPosition DEF SyncOK, TimesOK
<1>5. \A t \in Transfers : remote[t] \in Remote /\ remote[t].at \in Nat
  BY DEF TypeOK, IInv, Remote, Times
<1>6. /\ DOMAIN diff = {x \in Transfers : remote[x].at > w.since[a]}
      /\ \A t \in DOMAIN diff : diff[t] = remote[t]
      /\ diff \in [{x \in Transfers : remote[x].at > w.since[a]} -> Remote]
  BY <1>5 DEF Diff
<1>7. diff \in Partial(Remote)
  BY <1>6, PartialOf
<1> HIDE DEF diff
<1>8. /\ new \in Work
      /\ new.step = "receive" /\ new.at = clock /\ new.left = diff
      /\ new.position = w.position /\ new.locks = w.locks /\ new.alone = w.alone
      /\ new.since = w.since /\ new.read = w.read /\ new.rows = w.rows
  BY <1>1, <1>2, <1>7 DEF Work, TypeOK
<1> HIDE DEF new
<1>9. AccountOf(new) = a
  BY <1>8 DEF AccountOf
<1>10. TimesOK(new, clock)
  <2>1. clock \in Nat
    BY <1>1 DEF TypeOK, Times
  <2>2. /\ \A x \in Accounts : w.since[x] # NoConfig => w.since[x] <= clock
        /\ ~w.locks \/ w.position # 1 => w.since[First] = NoConfig
    BY <1>1, <1>2 DEF SyncOK, TimesOK
  <2>3. new.since[AccountOf(new)] # NoConfig
    BY <1>4, <1>8, <1>9
  <2>4. new.at <= clock /\ new.step = "receive"
    BY <1>8, <2>1
  <2>5. ~new.locks \/ new.position # 1 => new.since[First] = NoConfig
    BY <1>8, <2>2
  <2>6. \A x \in Accounts : new.since[x] # NoConfig => new.since[x] <= new.at
    BY <1>8, <2>2
  <2>7. DOMAIN new.read = DOMAIN new.rows
    BY <1>4, <1>8
  <2>8. QED BY <2>3, <2>4, <2>5, <2>6, <2>7 DEF TimesOK
<1>11. CursorsOK(new, cursor)
  BY <1>1, <1>2, <1>8 DEF SyncOK, CursorsOK, ClockOK
<1>12. ASSUME NEW t \in Transfers
       PROVE  TransferOK(new, t, remote[t], mirror[t], t \notin moved, overlap)
  <2>1. SinceOK(new, remote[t], mirror[t], overlap)
    BY <1>2, <1>8 DEF SyncOK, TransferOK, SinceOK
  <2>2. t \notin DOMAIN diff => remote[t].at <= w.since[a]
    BY <1>4, <1>5, <1>6
  <2>3. t \notin moved => remote[t].account = First
    BY DEF IInv, StaysOK
  <2>4. AnswerOK(new, t, remote[t], mirror[t], t \notin moved)
    BY <1>4, <1>6, <1>8, <1>9, <2>2, <2>3 DEF AnswerOK
  <2>5. QED BY <2>1, <2>4 DEF TransferOK
<1>13. SyncOK(new, clock, cursor, remote, mirror, overlap, moved)
  BY <1>10, <1>11, <1>12 DEF SyncOK
<1>14. QED BY <1>1, <1>3, <1>8, <1>13, OneStep

\* An entry of another account changes nothing of a transfer that has not left the first.
LEMMA RowStays ==
  ASSUME NEW old \in Row \cup {NoRow}, NEW i \in Remote, NEW a \in Accounts,
         i.account = First, old # NoRow => old.account = First,
         NEW new \in Rows(old, i, a)
  PROVE  /\ a # First => new = old
         /\ new # NoRow => new.account = First
BY NullsAssumption DEF Rows, Received, Deleted, Row, Remote

LEMMA ReceiveKeeps ==
  ASSUME IInv, NEW s \in Sessions, NEW t \in Transfers, Receive(s, t)
  PROVE  IInv'
<1> USE ConstantsAssumption, NullsAssumption
<1> DEFINE w == work[s]
           a == AccountOf(w)
<1>1. /\ w # Idle /\ t \in DOMAIN w.left /\ TypeOK
      /\ UNCHANGED <<remote, clock, mirror, cursor, overlap, moved>>
  BY DEF Receive, IInv
<1>2. PICK row \in Rows(mirror[t], w.left[t], a) :
        work' = [work EXCEPT ![s].left = Others(w.left, t),
                             ![s].read = With(w.read, t, mirror[t]),
                             ![s].rows = With(w.rows, t, row)]
  BY DEF Receive, Rows
<1>3. w \in Work /\ SyncOK(w, clock, cursor, remote, mirror, overlap, moved)
  BY <1>1 DEF IInv, SyncsOK, TypeOK
<1>4. w.step = "receive" /\ a \in Accounts
  BY <1>1, <1>3, WorkIs, FirstPosition DEF SyncOK, TimesOK
<1>5. w.left[t] \in Remote /\ mirror[t] \in Row \cup {NoRow}
  <2>1. w.left \in Partial(Remote)
    BY <1>3, WorkIs
  <2>2. w.left \in [DOMAIN w.left -> Remote]
    BY <2>1, PartialIs
  <2>3. QED BY <1>1, <2>2 DEF TypeOK
<1>6. row \in Row \cup {NoRow} /\ (mirror[t] # NoRow => row # NoRow)
  BY <1>4, <1>5, RowsAre
<1> DEFINE left == Others(w.left, t)
           read == With(w.read, t, mirror[t])
           rows == With(w.rows, t, row)
           new == [w EXCEPT !.left = left, !.read = read, !.rows = rows]
<1>7. /\ left \in Partial(Remote) /\ DOMAIN left = DOMAIN w.left \ {t}
      /\ \A x \in DOMAIN left : left[x] = w.left[x]
  <2>1. w.left \in Partial(Remote)
    BY <1>3, WorkIs
  <2>2. left \in Partial(Remote)
    BY <2>1, OthersIs
  <2>3. QED BY <2>2 DEF Others
<1>8. /\ read \in Partial(Row \cup {NoRow}) /\ DOMAIN read = DOMAIN w.read \cup {t}
      /\ read[t] = mirror[t] /\ \A x \in DOMAIN w.read \ {t} : read[x] = w.read[x]
  <2>1. w.read \in Partial(Row \cup {NoRow})
    BY <1>3, WorkIs
  <2>2. read \in Partial(Row \cup {NoRow})
    BY <1>5, <2>1, WithIs
  <2>3. QED BY <2>2 DEF With
<1>9. /\ rows \in Partial(Row \cup {NoRow}) /\ DOMAIN rows = DOMAIN w.rows \cup {t}
      /\ rows[t] = row /\ \A x \in DOMAIN w.rows \ {t} : rows[x] = w.rows[x]
  <2>1. w.rows \in Partial(Row \cup {NoRow})
    BY <1>3, WorkIs
  <2>2. rows \in Partial(Row \cup {NoRow})
    BY <1>6, <2>1, WithIs
  <2>3. QED BY <2>2 DEF With
<1> HIDE DEF left, read, rows
<1>10. work' = [work EXCEPT ![s] = new]
  BY <1>1, <1>2 DEF TypeOK, left, read, rows
<1>11. /\ new \in Work
       /\ new.left = left /\ new.read = read /\ new.rows = rows
       /\ new.step = w.step /\ new.at = w.at
       /\ new.position = w.position /\ new.locks = w.locks /\ new.alone = w.alone
       /\ new.since = w.since
  BY <1>3, <1>7, <1>8, <1>9 DEF Work
<1> HIDE DEF new
<1>12. AccountOf(new) = a
  BY <1>11 DEF AccountOf
<1>13. TimesOK(w, clock) /\ DOMAIN w.read = DOMAIN w.rows
  BY <1>3 DEF SyncOK, TimesOK
<1>14. TimesOK(new, clock)
  BY <1>4, <1>8, <1>9, <1>11, <1>12, <1>13 DEF TimesOK
<1>15. CursorsOK(new, cursor)
  BY <1>3, <1>11 DEF SyncOK, CursorsOK
<1>16. ASSUME NEW x \in Transfers
       PROVE  TransferOK(new, x, remote[x], mirror[x], x \notin moved, overlap)
  <2>1. /\ SinceOK(w, remote[x], mirror[x], overlap)
        /\ AnswerOK(w, x, remote[x], mirror[x], x \notin moved)
    BY <1>3, <1>4 DEF SyncOK, TransferOK
  <2>2. SinceOK(new, remote[x], mirror[x], overlap)
    BY <1>11, <2>1 DEF SinceOK
  <2>3. CASE x # t
    <3>1. /\ x \in DOMAIN left <=> x \in DOMAIN w.left
          /\ x \in DOMAIN rows <=> x \in DOMAIN w.rows
          /\ x \in DOMAIN left => left[x] = w.left[x]
          /\ x \in DOMAIN rows => rows[x] = w.rows[x] /\ read[x] = w.read[x]
      BY <1>7, <1>8, <1>9, <1>13, <2>3
    <3>2. AnswerOK(new, x, remote[x], mirror[x], x \notin moved)
      BY <1>11, <1>12, <2>1, <3>1 DEF AnswerOK
    <3>3. QED BY <1>4, <1>11, <2>2, <3>2 DEF TransferOK
  <2>4. CASE x = t
    <3>1. remote[t].at <= w.at => w.left[t] = remote[t]
      BY <1>1, <1>4, <2>1, <2>4 DEF AnswerOK
    <3>2. t \notin moved =>
            /\ a # First => row = mirror[t]
            /\ row # NoRow => row.account = First
      <4>1. ASSUME t \notin moved
            PROVE  w.left[t].account = First /\ (mirror[t] # NoRow => mirror[t].account = First)
        BY <1>1, <2>1, <2>4, <4>1 DEF AnswerOK, IInv, StaysOK
      <4>2. QED BY <1>4, <1>5, <4>1, RowStays
    <3>3. AnswerOK(new, t, remote[t], mirror[t], t \notin moved)
      BY <1>2, <1>6, <1>7, <1>8, <1>9, <1>11, <1>12, <3>1, <3>2 DEF AnswerOK
    <3>4. QED BY <2>2, <2>4, <3>3 DEF TransferOK
  <2>5. QED BY <2>3, <2>4
<1>17. SyncOK(new, clock, cursor, remote, mirror, overlap, moved)
  BY <1>14, <1>15, <1>16 DEF SyncOK
<1>18. QED BY <1>1, <1>10, <1>11, <1>17, OneStep

LEMMA StartKeeps ==
  ASSUME IInv, NEW s \in Sessions, Start(s)
  PROVE  IInv'
<1> USE ConstantsAssumption, NullsAssumption
<1> DEFINE new == Turn(cursor, TRUE, Alone(s))
           Lonely(x) == [work[x] EXCEPT !.alone = FALSE]
<1>1. /\ TypeOK /\ ClockOK
      /\ UNCHANGED <<remote, clock, mirror, cursor, overlap, moved>>
      /\ \A x \in Sessions : ~Locks(work[x])
  BY DEF Start, IInv
<1>2. \A x \in Sessions :
        work'[x] = IF x = s THEN new ELSE IF work[x] = Idle THEN Idle ELSE Lonely(x)
  BY DEF Start, Met
<1>3. cursor \in [Accounts -> Times \cup {NoConfig}] /\ Alone(s) \in BOOLEAN
  BY <1>1 DEF TypeOK, Alone
<1>4. new # Idle =>
        /\ new \in Work
        /\ new.since = cursor /\ new.locks = TRUE /\ new.alone = Alone(s)
        /\ new.step = "request"
        /\ new.at = 0 /\ new.left = Nothing /\ new.read = Nothing /\ new.rows = Nothing
        /\ cursor[AccountOf(new)] # NoConfig
        /\ new.position # 1 => cursor[First] = NoConfig
  <2> DEFINE l == TRUE
             al == Alone(s)
  <2>1. l \in BOOLEAN /\ al \in BOOLEAN /\ new = Turn(cursor, l, al)
    BY <1>3
  <2> HIDE DEF l, al, new
  <2>2. new # Idle =>
          /\ new \in Work
          /\ new.since = cursor /\ new.locks = l /\ new.alone = al
          /\ new.step = "request"
          /\ new.at = 0 /\ new.left = Nothing /\ new.read = Nothing /\ new.rows = Nothing
          /\ cursor[AccountOf(new)] # NoConfig
          /\ new.position # 1 => cursor[First] = NoConfig
    BY <1>3, <2>1, TurnIs
  <2>3. QED BY <2>2 DEF l, al
<1> HIDE DEF new
<1>5. ASSUME NEW x \in Sessions, work[x] # Idle
      PROVE  /\ work[x] \in Work /\ Lonely(x) \in Work /\ Lonely(x).alone = FALSE
             /\ ~work[x].locks
             /\ Lonely(x).step = work[x].step /\ Lonely(x).at = work[x].at
             /\ Lonely(x).position = work[x].position /\ Lonely(x).locks = work[x].locks
             /\ Lonely(x).since = work[x].since /\ Lonely(x).left = work[x].left
             /\ Lonely(x).read = work[x].read /\ Lonely(x).rows = work[x].rows
  <2>1. work[x] \in Work /\ ~work[x].locks
    BY <1>1, <1>5 DEF TypeOK, Locks
  <2>2. QED BY <2>1 DEF Work
<1>6. ASSUME NEW x \in Sessions, work[x] # Idle
      PROVE  SyncOK(Lonely(x), clock, cursor, remote, mirror, overlap, moved)
  <2> DEFINE w == work[x]
             l == Lonely(x)
  <2>1. SyncOK(w, clock, cursor, remote, mirror, overlap, moved)
    BY <1>6 DEF IInv, SyncsOK
  <2>2. /\ l.alone = FALSE /\ ~w.locks
        /\ l.step = w.step /\ l.at = w.at /\ l.position = w.position /\ l.locks = w.locks
        /\ l.since = w.since /\ l.left = w.left /\ l.read = w.read /\ l.rows = w.rows
    BY <1>5, <1>6
  <2> HIDE DEF w, l
  <2>3. AccountOf(l) = AccountOf(w)
    BY <2>2 DEF AccountOf
  <2>4. TimesOK(l, clock)
    BY <2>1, <2>2, <2>3 DEF SyncOK, TimesOK
  <2>5. CursorsOK(l, cursor)
    BY <2>2 DEF CursorsOK
  <2>6. \A t \in Transfers :
          TransferOK(l, t, remote[t], mirror[t], t \notin moved, overlap)
    BY <2>1, <2>2, <2>3 DEF SyncOK, TransferOK, SinceOK, AnswerOK
  <2>7. QED BY <2>4, <2>5, <2>6 DEF SyncOK, l
<1>7. ASSUME new # Idle
      PROVE  SyncOK(new, clock, cursor, remote, mirror, overlap, moved)
  <2>1. DOMAIN new.left = {} /\ DOMAIN new.read = {} /\ DOMAIN new.rows = {}
    BY <1>4, <1>7, NothingIs
  <2>2. clock \in Nat
    BY <1>1 DEF TypeOK, Times
  <2>3. TimesOK(new, clock)
    BY <1>1, <1>4, <1>7, <2>1, <2>2 DEF TimesOK, ClockOK
  <2>4. CursorsOK(new, cursor)
    BY <1>4, <1>7 DEF CursorsOK
  <2>5. ASSUME NEW t \in Transfers
        PROVE  TransferOK(new, t, remote[t], mirror[t], t \notin moved, overlap)
    <3>1. overlap < remote[t].at => AllKept(remote[t], mirror[t], cursor)
      BY KeptNow
    <3>2. SinceOK(new, remote[t], mirror[t], overlap)
      BY <1>4, <1>7, <3>1 DEF SinceOK, AllKept
    <3>3. QED BY <1>4, <1>7, <3>2 DEF TransferOK
  <2>6. QED BY <2>3, <2>4, <2>5 DEF SyncOK
<1>8. work' \in [Sessions -> Work \cup {Idle}]
  <2>1. \A x \in Sessions : work'[x] \in Work \cup {Idle}
    BY <1>2, <1>4, <1>5
  <2>2. work' = [x \in Sessions |-> work'[x]]
    BY DEF Start, Met
  <2>3. QED BY <2>1, <2>2
<1>9. TypeOK'
  BY <1>1, <1>8 DEF TypeOK
<1>10. ClockOK' /\ StaysOK'
  BY <1>1 DEF IInv, ClockOK, StaysOK
<1>11. SyncsOK'
  <2>1. ASSUME NEW x \in Sessions, work'[x] # Idle
        PROVE  SyncOK(work'[x], clock, cursor, remote, mirror, overlap, moved)
    BY <1>2, <1>6, <1>7, <2>1
  <2>2. QED BY <1>1, <2>1 DEF SyncsOK
<1>12. OthersOK'
  <2>1. ASSUME NEW x \in Sessions, NEW y \in Sessions, x # y,
               work'[x] # Idle, work'[y] # Idle
        PROVE  ~work'[x].alone /\ ~(work'[x].locks /\ work'[y].locks)
    <3>1. CASE x = s
      <4>1. work[y] # Idle /\ work'[y] = Lonely(y) /\ work'[x] = new /\ new # Idle
        BY <1>2, <2>1, <3>1
      <4>2. ~Alone(s)
        BY <2>1, <3>1, <4>1 DEF Alone
      <4>3. QED BY <1>4, <1>5, <4>1, <4>2
    <3>2. CASE x # s
      <4>1. work[x] # Idle /\ work'[x] = Lonely(x)
        BY <1>2, <2>1, <3>2
      <4>2. QED BY <1>5, <4>1
    <3>3. QED BY <3>1, <3>2
  <2>2. QED BY <2>1 DEF OthersOK
<1>13. \A t \in Transfers :
         overlap' < remote'[t].at \/ t \notin moved' => AllKept(remote'[t], mirror'[t], cursor')
  BY <1>1, KeptNow
<1>14. QED BY <1>9, <1>10, <1>11, <1>12, <1>13, Together

\* What is committed while nobody else writes, for the account a whose answer is of time
\* at and was asked for with since, and for the other accounts.
LEMMA CommittedIsKept ==
  ASSUME NEW i \in Remote, NEW r \in Row \cup {NoRow}, NEW new, NEW a \in Accounts,
         NEW at \in Nat, NEW since \in Nat, NEW c \in Nat, c <= at, NEW x \in Accounts,
         i.at <= at => \/ new \in Rows(r, i, a)
                       \/ new = r /\ i.at <= since,
         Kept(i, r, x, IF x = a THEN since ELSE c)
  PROVE  Kept(i, new, x, c)
<1> SUFFICES ASSUME i.at <= c PROVE Kept(i, new, x, c)
  BY DEF Kept
<1>1. i.at \in Nat
  BY ConstantsAssumption DEF Remote, Times
<1>2. i.at <= at
  BY <1>1
<1>3. CASE new \in Rows(r, i, a)
  BY <1>3, RowsAre
<1>4. CASE new = r /\ i.at <= since
  BY <1>4 DEF Kept
<1>5. QED BY <1>2, <1>3, <1>4

\* What a commit makes of the row of a transfer.
LEMMA CommittedRow ==
  ASSUME IInv, NEW s \in Sessions, Commit(s), NEW t \in Transfers
  PROVE  LET w == work[s]
             a == AccountOf(w)
         IN  /\ mirror'[t] \in Row \cup {NoRow}
             /\ (w.alone \/ w.locks) /\ remote[t].at <= w.at =>
                  \/ mirror'[t] \in Rows(mirror[t], remote[t], a)
                  \/ mirror'[t] = mirror[t] /\ remote[t].at <= w.since[a]
             /\ t \notin moved =>
                  /\ a # First => mirror'[t] = mirror[t]
                  /\ mirror'[t] # NoRow => mirror'[t].account = First
<1> USE NullsAssumption
<1> DEFINE w == work[s]
           a == AccountOf(w)
           new == Merged(mirror[t], w.read[t], w.rows[t])
<1>1. /\ w # Idle /\ w.step = "receive" /\ DOMAIN w.left = {}
      /\ mirror'[t] = IF t \in DOMAIN w.rows THEN new ELSE mirror[t]
  BY DEF Commit
<1>2. w \in Work /\ SyncOK(w, clock, cursor, remote, mirror, overlap, moved)
      /\ mirror[t] \in Row \cup {NoRow}
  BY <1>1 DEF IInv, SyncsOK, TypeOK
<1>3. AnswerOK(w, t, remote[t], mirror[t], t \notin moved) /\ DOMAIN w.read = DOMAIN w.rows
  BY <1>1, <1>2 DEF SyncOK, TransferOK, TimesOK
<1>4. t \notin moved /\ mirror[t] # NoRow => mirror[t].account = First
  BY DEF IInv, StaysOK
<1>5. CASE t \notin DOMAIN w.rows
  BY <1>1, <1>2, <1>3, <1>4, <1>5 DEF AnswerOK
<1>6. CASE t \in DOMAIN w.rows
  <2>1. w.read[t] \in Row \cup {NoRow} /\ w.rows[t] \in Row \cup {NoRow}
    <3>1. w.read \in Partial(Row \cup {NoRow}) /\ w.rows \in Partial(Row \cup {NoRow})
      BY <1>2, WorkIs
    <3>2. /\ w.read \in [DOMAIN w.read -> Row \cup {NoRow}]
          /\ w.rows \in [DOMAIN w.rows -> Row \cup {NoRow}]
      BY <3>1, PartialIs
    <3>3. QED BY <1>3, <1>6, <3>2
  <2>2. /\ w.alone \/ w.locks => w.read[t] = mirror[t]
        /\ w.read[t] # NoRow => w.rows[t] # NoRow
    BY <1>3, <1>6 DEF AnswerOK
  <2>3. /\ new \in Row \cup {NoRow}
        /\ w.read[t] = w.rows[t] => new = mirror[t]
        /\ w.read[t] = mirror[t] => new = w.rows[t]
        /\ /\ mirror[t] # NoRow => mirror[t].account = First
           /\ w.rows[t] # NoRow => w.rows[t].account = First
           /\ new # NoRow
           => new.account = First
    <3> DEFINE now == mirror[t]
               read == w.read[t]
               row == w.rows[t]
    <3>1. /\ now \in Row \cup {NoRow} /\ read \in Row \cup {NoRow}
          /\ row \in Row \cup {NoRow} /\ (read # NoRow => row # NoRow)
      BY <1>2, <2>1, <2>2
    <3> HIDE DEF now, read, row
    <3>2. /\ Merged(now, read, row) \in Row \cup {NoRow}
          /\ read = row => Merged(now, read, row) = now
          /\ read = now => Merged(now, read, row) = row
          /\ \A x : /\ now # NoRow => now.account = x
                    /\ row # NoRow => row.account = x
                    /\ Merged(now, read, row) # NoRow
                    => Merged(now, read, row).account = x
      BY <3>1, MergedIs
    <3>3. QED BY <3>2 DEF now, read, row
  <2> HIDE DEF new
  <2>4. mirror'[t] = new
    BY <1>1, <1>6
  <2>5. (w.alone \/ w.locks) /\ remote[t].at <= w.at
          => mirror'[t] \in Rows(mirror[t], remote[t], a)
    BY <1>1, <1>3, <1>6, <2>2, <2>3, <2>4 DEF AnswerOK
  <2>6. t \notin moved =>
          /\ a # First => mirror'[t] = mirror[t]
          /\ mirror'[t] # NoRow => mirror'[t].account = First
    BY <1>3, <1>4, <1>6, <2>3, <2>4 DEF AnswerOK
  <2>7. QED BY <2>3, <2>4, <2>5, <2>6
<1> HIDE DEF w, a
<1>7. QED BY <1>5, <1>6 DEF w, a

LEMMA CommitKeeps ==
  ASSUME IInv, NEW s \in Sessions, Commit(s)
  PROVE  IInv'
<1> USE ConstantsAssumption, NullsAssumption
<1> DEFINE w == work[s]
           a == AccountOf(w)
           since == [w.since EXCEPT ![a] = NoConfig]
           next == Turn(since, FALSE, w.alone)
<1>1. /\ w # Idle /\ w.step = "receive" /\ DOMAIN w.left = {}
      /\ \A x \in Sessions \ {s} : ~Locks(work[x])
      /\ cursor[a] # NoConfig
      /\ cursor' = [cursor EXCEPT ![a] = CursorOf(w)]
      /\ work' = [work EXCEPT ![s] = next]
      /\ overlap' = IF w.alone THEN overlap ELSE clock
      /\ UNCHANGED <<remote, clock, moved>>
      /\ TypeOK /\ ClockOK
  BY DEF Commit, IInv
<1>2. w \in Work /\ SyncOK(w, clock, cursor, remote, mirror, overlap, moved)
  BY <1>1 DEF IInv, SyncsOK, TypeOK
<1>3. /\ a \in Accounts /\ w.at \in Times /\ Times \subseteq Nat /\ clock \in Times
      /\ w.since \in [Accounts -> Times \cup {NoConfig}]
      /\ w.alone \in BOOLEAN /\ w.locks \in BOOLEAN
      /\ (a = First <=> w.position = 1)
      /\ cursor \in [Accounts -> Times \cup {NoConfig}]
  BY <1>1, <1>2, WorkIs, FirstPosition DEF TypeOK
<1>4. /\ w.since[a] # NoConfig /\ w.since[a] \in Times /\ w.at <= clock
      /\ \A x \in Accounts : w.since[x] # NoConfig => w.since[x] <= w.at
      /\ ~w.locks \/ w.position # 1 => w.since[First] = NoConfig
      /\ w.locks => cursor[a] = w.since[a]
      /\ w.alone => \A x \in Accounts : cursor[x] # NoConfig => cursor[x] <= w.at
  BY <1>1, <1>2, <1>3 DEF SyncOK, TimesOK, CursorsOK
<1>5. CursorOf(w) \in {cursor[a], w.at} /\ (w.locks => CursorOf(w) = w.at)
  BY <1>4 DEF CursorOf
<1>6. \A x \in Accounts : cursor'[x] = IF x = a THEN CursorOf(w) ELSE cursor[x]
  BY <1>1, <1>3
<1>7. cursor' \in [Accounts -> Times \cup {NoConfig}]
  BY <1>1, <1>3, <1>5
<1>8. mirror' \in [Transfers -> Row \cup {NoRow}]
  <2>1. \A t \in Transfers : mirror'[t] \in Row \cup {NoRow}
    BY CommittedRow
  <2>2. mirror' = [t \in Transfers |-> mirror'[t]]
    BY DEF Commit
  <2>3. QED BY <2>1, <2>2
<1>9. since \in [Accounts -> Times \cup {NoConfig}]
      /\ \A x \in Accounts : since[x] = IF x = a THEN NoConfig ELSE w.since[x]
  BY <1>3
<1>10. next # Idle =>
         /\ next \in Work
         /\ next.since = since /\ next.locks = FALSE /\ next.alone = w.alone
         /\ next.step = "request"
         /\ next.at = 0 /\ next.left = Nothing /\ next.read = Nothing /\ next.rows = Nothing
         /\ since[AccountOf(next)] # NoConfig
  <2> DEFINE l == FALSE
             al == w.alone
  <2>1. l \in BOOLEAN /\ al \in BOOLEAN /\ next = Turn(since, l, al)
    BY <1>3
  <2> HIDE DEF l, al, next, since
  <2>2. next # Idle =>
          /\ next \in Work
          /\ next.since = since /\ next.locks = l /\ next.alone = al
          /\ next.step = "request"
          /\ next.at = 0 /\ next.left = Nothing /\ next.read = Nothing /\ next.rows = Nothing
          /\ since[AccountOf(next)] # NoConfig
    BY <1>9, <2>1, TurnIs
  <2>3. QED BY <2>2 DEF l, al
<1> HIDE DEF next, since
<1>11. TypeOK'
  <2>1. overlap' \in Times
    BY <1>1 DEF TypeOK
  <2>2. work' \in [Sessions -> Work \cup {Idle}]
    BY <1>1, <1>10 DEF TypeOK
  <2>3. QED BY <1>1, <1>7, <1>8, <2>1, <2>2 DEF TypeOK
<1>12. ClockOK'
  <2>1. \A x \in Accounts : cursor'[x] # NoConfig => cursor'[x] <= clock
    BY <1>1, <1>4, <1>5, <1>6 DEF ClockOK
  <2>2. overlap' <= clock
    BY <1>1, <1>3 DEF ClockOK
  <2>3. QED BY <1>1, <2>1, <2>2 DEF ClockOK
<1>13. StaysOK'
  BY <1>1, CommittedRow DEF IInv, StaysOK
<1>14. \A x \in Sessions : work'[x] = IF x = s THEN next ELSE work[x]
  BY <1>1 DEF TypeOK
<1>15. \A x \in Sessions \ {s} :
         work[x] # Idle => ~work[x].locks /\ ~work[x].alone /\ ~w.alone
  BY <1>1 DEF Locks, IInv, OthersOK
<1>16. OthersOK'
  BY <1>10, <1>14, <1>15 DEF IInv, OthersOK
<1>17. ASSUME NEW t \in Transfers, NEW x \in Accounts, w.alone, overlap < remote[t].at,
              NEW c \in Nat, c <= w.at, x # a => Kept(remote[t], mirror[t], x, c)
       PROVE  Kept(remote[t], mirror'[t], x, c)
  <2>1. remote[t] \in Remote /\ mirror[t] \in Row \cup {NoRow}
    BY <1>1 DEF TypeOK
  <2>2. remote[t].at <= w.at =>
          \/ mirror'[t] \in Rows(mirror[t], remote[t], a)
          \/ mirror'[t] = mirror[t] /\ remote[t].at <= w.since[a]
    BY <1>17, CommittedRow
  <2>3. Kept(remote[t], mirror[t], a, w.since[a])
    BY <1>2, <1>3, <1>4, <1>17 DEF SyncOK, TransferOK, SinceOK
  <2>4. Kept(remote[t], mirror[t], x, IF x = a THEN w.since[a] ELSE c)
    BY <1>17, <2>3
  <2> DEFINE at == w.at
             old == w.since[a]
             i == remote[t]
             r == mirror[t]
             new == mirror'[t]
             b == a
  <2>5. /\ at \in Nat /\ old \in Nat /\ c <= at /\ i \in Remote /\ r \in Row \cup {NoRow}
        /\ b \in Accounts
        /\ i.at <= at => new \in Rows(r, i, b) \/ (new = r /\ i.at <= old)
        /\ Kept(i, r, x, IF x = b THEN old ELSE c)
    BY <1>3, <1>4, <1>17, <2>1, <2>2, <2>4
  <2> HIDE DEF at, old, i, r, new, b
  <2>6. Kept(i, new, x, c)
    BY <2>5, CommittedIsKept
  <2>7. QED BY <2>6 DEF i, new
<1>18. ASSUME NEW t \in Transfers
       PROVE  SinceOK(next, remote[t], mirror'[t], overlap') \/ next = Idle
  <2> SUFFICES ASSUME next # Idle, w.alone, overlap < remote[t].at,
                      NEW x \in Accounts, since[x] # NoConfig
               PROVE  Kept(remote[t], mirror'[t], x, since[x])
    BY <1>1, <1>10 DEF SinceOK
  <2>1. x # a /\ since[x] = w.since[x]
    BY <1>9
  <2>2. since[x] \in Nat /\ since[x] <= w.at
    BY <1>3, <1>4, <2>1
  <2>3. Kept(remote[t], mirror[t], x, since[x])
    BY <1>2, <2>1 DEF SyncOK, TransferOK, SinceOK
  <2>4. QED BY <1>17, <2>2, <2>3
<1>19. ASSUME next # Idle
       PROVE  SyncOK(next, clock, cursor', remote, mirror', overlap', moved)
  <2>1. DOMAIN next.left = {} /\ DOMAIN next.read = {} /\ DOMAIN next.rows = {}
    BY <1>10, <1>19, NothingIs
  <2>2. \A x \in Accounts : since[x] # NoConfig => since[x] <= clock
    <3>1. ASSUME NEW x \in Accounts, since[x] # NoConfig PROVE since[x] <= clock
      <4>1. since[x] = w.since[x] /\ w.since[x] \in Nat /\ w.since[x] <= w.at
        BY <1>3, <1>4, <1>9, <3>1
      <4>2. w.at \in Nat /\ clock \in Nat /\ w.at <= clock
        BY <1>3, <1>4
      <4>3. QED BY <4>1, <4>2
    <3>2. QED BY <3>1
  <2>3. since[First] = NoConfig
    BY <1>3, <1>4, <1>9, FirstIsAccount
  <2>4. TimesOK(next, clock)
    BY <1>3, <1>10, <1>19, <2>1, <2>2, <2>3 DEF TimesOK
  <2>5. CursorsOK(next, cursor')
    BY <1>10, <1>19 DEF CursorsOK
  <2>6. \A t \in Transfers :
          TransferOK(next, t, remote[t], mirror'[t], t \notin moved, overlap')
    BY <1>10, <1>18, <1>19 DEF TransferOK
  <2>7. QED BY <2>4, <2>5, <2>6 DEF SyncOK
<1>20. SyncsOK'
  <2>1. ASSUME NEW x \in Sessions \ {s}, work[x] # Idle
        PROVE  SyncOK(work[x], clock, cursor', remote, mirror', overlap', moved)
    <3> DEFINE o == work[x]
    <3>1. /\ SyncOK(o, clock, cursor, remote, mirror, overlap, moved)
          /\ ~o.locks /\ ~o.alone
      BY <1>15, <2>1 DEF IInv, SyncsOK
    <3> HIDE DEF o
    <3>2. CursorsOK(o, cursor')
      BY <3>1 DEF CursorsOK
    <3>3. \A t \in Transfers :
            TransferOK(o, t, remote[t], mirror'[t], t \notin moved, overlap')
      BY <3>1 DEF SyncOK, TransferOK, SinceOK, AnswerOK
    <3>4. QED BY <3>1, <3>2, <3>3 DEF SyncOK, o
  <2>2. QED BY <1>1, <1>14, <1>19, <2>1 DEF SyncsOK
<1>21. ASSUME NEW t \in Transfers, w.alone, overlap < remote[t].at
       PROVE  AllKept(remote[t], mirror'[t], cursor')
  <2> SUFFICES ASSUME NEW x \in Accounts, cursor'[x] # NoConfig
               PROVE  Kept(remote[t], mirror'[t], x, cursor'[x])
    BY DEF AllKept
  <2>1. AllKept(remote[t], mirror[t], cursor)
    BY <1>21, KeptNow
  <2>2. cursor'[x] \in Nat /\ cursor'[x] <= w.at
    <3>0. cursor'[x] \in Times
      BY <1>7
    <3>1. w.at \in Nat /\ cursor'[x] \in Nat
      <4>1. Times \subseteq Nat /\ w.at \in Times
        BY <1>3
      <4>2. QED BY <3>0, <4>1
    <3>2. CASE x # a \/ CursorOf(w) = cursor[a]
      <4>1. cursor'[x] = cursor[x]
        BY <1>6, <3>2
      <4>2. QED BY <1>4, <1>21, <3>1, <4>1
    <3>3. CASE x = a /\ CursorOf(w) = w.at
      BY <1>6, <3>1, <3>3
    <3>4. QED BY <1>5, <3>2, <3>3
  <2>3. x # a => Kept(remote[t], mirror[t], x, cursor'[x])
    BY <1>6, <2>1 DEF AllKept
  <2>4. QED BY <1>17, <1>21, <2>2, <2>3
<1>22. ASSUME NEW t \in Transfers, t \notin moved
       PROVE  AllKept(remote[t], mirror'[t], cursor')
  <2>1. /\ remote[t] \in Remote /\ mirror[t] \in Row \cup {NoRow} /\ remote[t].account = First
        /\ mirror'[t] # NoRow => mirror'[t].account = First
        /\ a # First => mirror'[t] = mirror[t]
    BY <1>1, <1>22, CommittedRow DEF TypeOK, IInv, StaysOK
  <2>2. \A x \in Accounts \ {First} : \A c : Kept(remote[t], mirror'[t], x, c)
    BY <2>1 DEF Kept
  <2>3. AllKept(remote[t], mirror[t], cursor)
    BY <1>22, KeptNow
  <2>4. ASSUME cursor'[First] # NoConfig
        PROVE  Kept(remote[t], mirror'[t], First, cursor'[First])
    <3>1. CASE a # First
      BY <1>6, <2>1, <2>3, <2>4, <3>1, FirstIsAccount DEF AllKept
    <3>2. CASE a = First
      <4>1. w.locks /\ cursor'[First] = w.at /\ cursor[First] = w.since[a]
            /\ cursor[First] # NoConfig
        BY <1>1, <1>3, <1>4, <1>5, <1>6, <3>2, FirstIsAccount
      <4>2. Kept(remote[t], mirror[t], First, w.since[a])
        BY <2>3, <4>1, FirstIsAccount DEF AllKept
      <4>3. remote[t].at <= w.at =>
              \/ mirror'[t] \in Rows(mirror[t], remote[t], First)
              \/ mirror'[t] = mirror[t] /\ remote[t].at <= w.since[a]
        BY <3>2, <4>1, CommittedRow
      <4> DEFINE at == w.at
                 old == w.since[a]
                 i == remote[t]
                 r == mirror[t]
                 new == mirror'[t]
      <4>4. /\ at \in Nat /\ old \in Nat /\ at <= at /\ i \in Remote /\ r \in Row \cup {NoRow}
            /\ i.at <= at => new \in Rows(r, i, First) \/ (new = r /\ i.at <= old)
            /\ Kept(i, r, First, IF First = First THEN old ELSE at)
        BY <1>3, <1>4, <2>1, <4>2, <4>3
      <4> HIDE DEF at, old, i, r, new
      <4>5. Kept(i, new, First, at)
        BY <4>4, FirstIsAccount, CommittedIsKept
      <4>6. QED BY <4>1, <4>5 DEF i, new, at
    <3>3. QED BY <3>1, <3>2
  <2>5. QED BY <2>2, <2>4 DEF AllKept
<1>23. ASSUME NEW t \in Transfers, overlap' < remote'[t].at \/ t \notin moved'
       PROVE  AllKept(remote'[t], mirror'[t], cursor')
  <2>1. remote[t].at \in Nat /\ clock \in Nat /\ remote[t].at <= clock
    BY <1>1, <1>3 DEF TypeOK, Remote, ClockOK
  <2>2. ~w.alone => ~(overlap' < remote[t].at)
    BY <1>1, <2>1
  <2>3. QED BY <1>1, <1>21, <1>22, <1>23, <2>2
<1>24. QED BY <1>11, <1>12, <1>13, <1>16, <1>20, <1>23, Together

LEMMA NextIInv == IInv /\ [Next]_vars => IInv'
<1> SUFFICES ASSUME IInv, [Next]_vars PROVE IInv'
  OBVIOUS
<1>1. ASSUME NEW t \in Transfers, Edit(t) \/ Delete(t) PROVE IInv'
  BY <1>1, RemoteKeeps
<1>2. ASSUME NEW selected \in Selections, NEW token \in BOOLEAN, SaveSettings(selected, token)
      PROVE  IInv'
  BY <1>2, SaveSettingsKeeps
<1>3. ASSUME NEW s \in Sessions, Start(s) PROVE IInv'
  BY <1>3, StartKeeps
<1>4. ASSUME NEW s \in Sessions, Request(s) PROVE IInv'
  BY <1>4, RequestKeeps
<1>5. ASSUME NEW s \in Sessions, NEW t \in Transfers, Receive(s, t) PROVE IInv'
  BY <1>5, ReceiveKeeps
<1>6. ASSUME NEW s \in Sessions, Commit(s) PROVE IInv'
  BY <1>6, CommitKeeps
<1>7. ASSUME NEW s \in Sessions, Fail(s) PROVE IInv'
  BY <1>7, FailKeeps
<1>8. CASE UNCHANGED vars
  <2>1. UNCHANGED <<remote, clock, mirror, cursor, work, overlap, moved>>
    BY <1>8 DEF vars
  <2>2. TypeOK' /\ ClockOK' /\ SyncsOK' /\ OthersOK' /\ StaysOK'
    BY <2>1 DEF IInv, TypeOK, ClockOK, SyncsOK, OthersOK, StaysOK
  <2>3. \A t \in Transfers :
          overlap' < remote'[t].at \/ t \notin moved'
            => AllKept(remote'[t], mirror'[t], cursor')
    BY <2>1, KeptNow
  <2>4. QED BY <2>2, <2>3, Together
<1>9. QED BY <1>1, <1>2, <1>3, <1>4, <1>5, <1>6, <1>7, <1>8 DEF Next, Advance

LEMMA Invariance == Spec => []IInv
BY InitIInv, NextIInv, PTL DEF Spec

-----------------------------------------------------------------------------
(* What follows *)

\* Cursors, table and synchronisations keep their types.
THEOREM TypeCorrect == Spec => []TypeOK
<1>1. IInv => TypeOK
  BY DEF IInv
<1>2. QED BY <1>1, Invariance, PTL

\* A cursor is never ahead of what was stored: a change after the last overlap that an
\* account's cursor has passed is in the table, for any number of accounts and
\* synchronisations, wherever they fail (zenmoney.py:709-734, 768-769).
THEOREM CursorsAreHonest == Spec => []ChangesArrive
<1>1. IInv => ChangesArrive
  BY DEF IInv
<1>2. QED BY <1>1, Invariance, PTL

\* The row locks make the first account exact in spite of overlaps, for transfers that
\* stay in it (zenmoney.py:734, 741-752).
THEOREM LocksCoverTheFirst == Spec => []FirstIsExact
<1>1. IInv => FirstIsExact
  BY DEF IInv
<1>2. QED BY <1>1, Invariance, PTL

=============================================================================
