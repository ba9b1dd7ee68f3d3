------------------------------ MODULE SyncCursor ------------------------------
(***************************************************************************)
(* How far the table of transfers follows ZenMoney: the cursors of the     *)
(* accounts, and synchronisations that overlap, fail half-way and are      *)
(* repeated.  Source: sync and _sync_account of                            *)
(* backend/app/services/zenmoney.py, the loop of backend/app/main.py.      *)
(*                                                                         *)
(* A synchronisation takes the accounts one after the other, in the order  *)
(* of their titles, and commits after each.  It reads all cursors at its   *)
(* start, under row locks that end with the first of these commits.  What  *)
(* becomes of a transfer's status and payment is in ZenMoneyPayments; here *)
(* a transfer is its account, its amount and whether it is deleted.        *)
(***************************************************************************)
EXTENDS Naturals, Sequences

CONSTANTS
  Transfers,    \* ZenMoney transaction ids
  Order,        \* the bank accounts, in the order of their titles
  Money,        \* amounts of a transfer
  Sessions,     \* of the loop in main.py, and of the route that synchronises on demand
  Background,   \* the one of the loop
  Selections,   \* the sets of accounts an editor may select
  MaxTime,      \* bound: the changes made in ZenMoney
  NoConfig,     \* no row in zenmoney_account_configs
  NoRow,        \* no row in zenmoney_transactions
  Idle          \* a session that is not synchronising

Positions == 1 .. Len(Order)
Accounts == {Order[k] : k \in Positions}
Times == 0 .. MaxTime

ASSUME ConstantsAssumption ==
  /\ Len(Order) \in Nat \ {0} /\ MaxTime \in Nat \ {0}
  /\ Money # {}
  /\ \A i, j \in Positions : Order[i] = Order[j] => i = j
  /\ Selections \subseteq (SUBSET Accounts) \ {{}}
  /\ NoConfig \notin Times

VARIABLES
  remote,       \* ZenMoney: each transfer, and when it changed last
  clock,        \* ZenMoney: serverTimestamp
  mirror,       \* table zenmoney_transactions, keyed by zenmoney_id
  cursor,       \* table zenmoney_account_configs: server_timestamp
  work,         \* what the synchronisation of a session has read and will write
  overlap,      \* history: the clock at the last commit of a synchronisation that
                \* was not alone
  moved         \* history: the transfers that have left their first account

vars == <<remote, clock, mirror, cursor, work, overlap, moved>>

Remote == [account : Accounts, money : Money, deleted : BOOLEAN,
           at : Times]

Row == [account : Accounts, money : Money, deleted : BOOLEAN]

Partial(S) == UNION {[D -> S] : D \in SUBSET Transfers}

\* since: the cursors as read; at, left: the answer of ZenMoney, what is not yet looked
\* at of it; read, rows: the transfers as read and as they will be written.
Work ==
  [position : Positions, locks : BOOLEAN, alone : BOOLEAN, step : {"request", "receive"},
   since : [Accounts -> Times \cup {NoConfig}],
   at : Times, left : Partial(Remote),
   read : Partial(Row \cup {NoRow}), rows : Partial(Row \cup {NoRow})]

\* Absent rows and sessions are told apart from rows and synchronisations.
ASSUME NullsAssumption == NoRow \notin Row /\ Idle \notin Work

TypeOK ==
  /\ remote \in [Transfers -> Remote]
  /\ clock \in Times
  /\ mirror \in [Transfers -> Row \cup {NoRow}]
  /\ cursor \in [Accounts -> Times \cup {NoConfig}]
  /\ work \in [Sessions -> Work \cup {Idle}]
  /\ overlap \in Times
  /\ moved \subseteq Transfers

\* Every transfer is in the first account; no account is selected.
Init ==
  /\ remote = [t \in Transfers |-> [account |-> Order[1], money |-> CHOOSE m \in Money : TRUE,
                                     deleted |-> FALSE, at |-> 1]]
  /\ clock = 1
  /\ mirror = [t \in Transfers |-> NoRow]
  /\ cursor = [a \in Accounts |-> NoConfig]
  /\ work = [s \in Sessions |-> Idle]
  /\ overlap = 0
  /\ moved = {}

-----------------------------------------------------------------------------
(* ZenMoney and the settings *)

Changed(t, i) ==
  /\ clock < MaxTime
  /\ clock' = clock + 1
  /\ remote' = [remote EXCEPT ![t] = [i EXCEPT !.at = clock + 1]]
  /\ moved' = IF i.account = Order[1] THEN moved ELSE moved \cup {t}
  /\ UNCHANGED <<mirror, cursor, work, overlap>>

\* A transfer gets another amount or account, is deleted, or restored.
Edit(t) ==
  /\ ~remote[t].deleted
  /\ \E a \in Accounts, m \in Money :
       /\ <<a, m>> # <<remote[t].account, remote[t].money>>
       /\ Changed(t, [remote[t] EXCEPT !.account = a, !.money = m])

Delete(t) == Changed(t, [remote[t] EXCEPT !.deleted = ~remote[t].deleted])

\* The account a synchronisation is at.
AccountOf(w) == Order[w.position]

\* Fault: nothing is read FOR UPDATE.
Locks_none(w) == FALSE

\* A synchronisation holds the row locks until its first commit.
Locks(w) == w # Idle /\ w.locks

\* The cursors after the accounts were selected, with a new token or without.
Cursors(selected, token) ==
  [a \in Accounts |-> IF a \notin selected THEN NoConfig
                      ELSE IF token \/ cursor[a] = NoConfig THEN 0 ELSE cursor[a]]

SaveSettings(selected, token) ==
  /\ cursor' = Cursors(selected, token)
  /\ (\E s \in Sessions : Locks(work[s])) =>
       \A a \in Accounts : cursor[a] # NoConfig => cursor'[a] = cursor[a]
  /\ UNCHANGED <<remote, clock, mirror, work, overlap, moved>>

-----------------------------------------------------------------------------
(* Synchronisation *)

Nothing == [t \in {} |-> NoRow]

\* A synchronisation of the first account that cursors has a cursor of.
Turn(cursors, locks, alone) ==
  LET todo == {k \in Positions : cursors[Order[k]] # NoConfig}
  IN  IF todo = {} THEN Idle
      ELSE [position |-> CHOOSE k \in todo : \A j \in todo : k <= j,
            locks |-> locks, alone |-> alone, step |-> "request", since |-> cursors,
            at |-> 0, left |-> Nothing, read |-> Nothing, rows |-> Nothing]

Alone(s) == \A x \in Sessions \ {s} : work[x] = Idle

\* The others, who are from now on not alone.
Met(s) ==
  [x \in Sessions |-> IF x = s \/ work[x] = Idle THEN work[x]
                      ELSE [work[x] EXCEPT !.alone = FALSE]]

\* Settings and cursors are read and locked, or there is nothing to synchronise.
Start(s) ==
  /\ work[s] = Idle
  /\ \E a \in Accounts : cursor[a] # NoConfig
  /\ \A x \in Sessions : ~Locks(work[x])
  /\ work' = [Met(s) EXCEPT ![s] = Turn(cursor, TRUE, Alone(s))]
  /\ UNCHANGED <<remote, clock, mirror, cursor, overlap, moved>>

\* The transfers that changed since the cursor, all of them when it is 0.
Diff(since) == [t \in {x \in Transfers : remote[x].at > since} |-> remote[t]]

Request(s) ==
  LET w == work[s]
  IN  /\ w # Idle /\ w.step = "request"
      /\ work' = [work EXCEPT ![s].step = "receive", ![s].at = clock,
                              ![s].left = Diff(w.since[AccountOf(w)])]
      /\ UNCHANGED <<remote, clock, mirror, cursor, overlap, moved>>

\* Fault: an income of another account takes no part, even of the one it moves to.
Received_settled(old, i, a) ==
  IF old = NoRow
  THEN IF i.account # a THEN NoRow
       ELSE [account |-> a, money |-> i.money, deleted |-> i.deleted]
  ELSE IF old.account # a THEN old
  ELSE [account |-> a, money |-> i.money, deleted |-> i.deleted \/ i.account # a]

\* What an entry makes of a row: nothing, when it concerns another account.
Received(old, i, a) ==
  IF i.account # a /\ (old = NoRow \/ old.account # a) THEN old
  ELSE [account |-> a, money |-> i.money, deleted |-> i.deleted \/ i.account # a]

\* A transfer that was deleted comes as a deletion as well.
Deleted(old, i, a) ==
  IF old = NoRow \/ old.account # a THEN old ELSE [old EXCEPT !.deleted = TRUE]

Others(f, t) == [x \in DOMAIN f \ {t} |-> f[x]]
With(f, t, v) == [x \in DOMAIN f \cup {t} |-> IF x = t THEN v ELSE f[x]]

Receive(s, t) ==
  LET w == work[s]
      a == AccountOf(w)
  IN  /\ w # Idle /\ t \in DOMAIN w.left
      /\ \E row \in {Received(mirror[t], w.left[t], a)}
                      \cup (IF w.left[t].deleted THEN {Deleted(mirror[t], w.left[t], a)}
                            ELSE {}) :
           work' = [work EXCEPT ![s].left = Others(w.left, t),
                                ![s].read = With(w.read, t, mirror[t]),
                                ![s].rows = With(w.rows, t, row)]
      /\ UNCHANGED <<remote, clock, mirror, cursor, overlap, moved>>

\* The row after the UPDATE of the columns that changed, or after its INSERT.
Merged(now, read, new) ==
  IF now = NoRow \/ read = NoRow THEN (IF read = new THEN now ELSE new)
  ELSE [c \in DOMAIN new |-> IF new[c] # read[c] THEN new[c] ELSE now[c]]

\* Fault: the cursor is the time at which the answer is stored.
Cursor_late(w) == clock

\* The cursor after the answer was stored: a value that was read is not written.
CursorOf(w) == IF w.at = w.since[AccountOf(w)] THEN cursor[AccountOf(w)] ELSE w.at

\* Everything of an account is committed; its row of the settings is updated, which
\* waits for who locks it.  A transfer two sessions insert is refused (zenmoney_id).
Commit(s) ==
  LET w == work[s]
      a == AccountOf(w)
  IN  /\ w # Idle /\ w.step = "receive" /\ DOMAIN w.left = {}
      /\ \A x \in Sessions \ {s} : ~Locks(work[x])
      /\ cursor[a] # NoConfig
      /\ \A t \in DOMAIN w.rows :
           w.read[t] = NoRow /\ w.rows[t] # NoRow => mirror[t] = NoRow
      /\ mirror' = [t \in Transfers |->
           IF t \in DOMAIN w.rows THEN Merged(mirror[t], w.read[t], w.rows[t])
           ELSE mirror[t]]
      /\ cursor' = [cursor EXCEPT ![a] = CursorOf(w)]
      /\ work' = [work EXCEPT ![s] = Turn([w.since EXCEPT ![a] = NoConfig], FALSE, w.alone)]
      /\ overlap' = IF w.alone THEN overlap ELSE clock
      /\ UNCHANGED <<remote, clock, moved>>

\* ZenMoney does not answer, a constraint refuses, the process stops: the accounts
\* that were committed stay.
Fail(s) ==
  /\ work[s] # Idle
  /\ work' = [work EXCEPT ![s] = Idle]
  /\ UNCHANGED <<remote, clock, mirror, cursor, overlap, moved>>

Advance(s) == Request(s) \/ (\E t \in Transfers : Receive(s, t)) \/ Commit(s)

Next ==
  \/ \E t \in Transfers : Edit(t) \/ Delete(t)
  \/ \E selected \in Selections, token \in BOOLEAN : SaveSettings(selected, token)
  \/ \E s \in Sessions : Start(s) \/ Advance(s) \/ Fail(s)

\* Every request ends (there is a timeout), the loop of main.py always starts another
\* synchronisation, and who waits for a row lock gets it.
Fairness ==
  /\ \A s \in Sessions : WF_vars(Advance(s) \/ Fail(s))
  /\ WF_vars(Advance(Background))
  /\ SF_vars(Start(Background))
  /\ SF_vars(Commit(Background))

Spec == Init /\ [][Next]_vars /\ Fairness

-----------------------------------------------------------------------------
(* Properties *)

\* The table has the transfer as ZenMoney has it.
Shown(t) ==
  mirror[t] = [account |-> remote[t].account, money |-> remote[t].money,
               deleted |-> remote[t].deleted]

\* What the table shows of a transfer is what ZenMoney has of it, as far as the cursors
\* say: an income that an account's cursor has passed is there, with its amount, and
\* what is there of such an account is an income.
Exact(t) ==
  LET passed(a) == cursor[a] # NoConfig /\ remote[t].at <= cursor[a]
  IN  /\ ~remote[t].deleted /\ passed(remote[t].account) => Shown(t)
      /\ mirror[t] # NoRow /\ ~mirror[t].deleted /\ passed(mirror[t].account) => Shown(t)

\* A cursor is never ahead of what was stored, whatever fails between two accounts and
\* wherever a transfer moves (zenmoney.py:709-734, 768-769).  Two synchronisations that
\* overlap may store an older answer over a newer one behind a newer cursor; they spoil
\* nothing that changes after they are done.
ChangesArrive == \A t \in Transfers : remote[t].at > overlap => Exact(t)

\* For the first account the row locks last from the reading of its cursor to the commit
\* (zenmoney.py:734, 741-752): transfers that stay in it are exact in spite of overlaps.
FirstIsExact == \A t \in Transfers \ moved : Exact(t)

\* Once its own synchronisations fail no more, the loop brings every change of a selected
\* account into the table, whatever the editor's synchronisations do and however they
\* fail (main.py:26-36); an overlap after the change is excepted.
EventuallyShown ==
  <>[][~Fail(Background)]_vars =>
    \A t \in Transfers :
      <>[](/\ cursor[remote[t].account] # NoConfig
           /\ remote[t].at > overlap /\ ~remote[t].deleted)
        => <>[]Shown(t)

=============================================================================
