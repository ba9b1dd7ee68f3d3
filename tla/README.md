# Verification of OfficeCooking.Web

OfficeCooking.Web keeps the accounts of office meals: who took part in which cook, with which portions, what the
cook cost, and what everybody has paid. A FastAPI backend (SQLAlchemy, PostgreSQL in READ COMMITTED) serves a
React frontend; payments come from editors and from bank transfers that are read from ZenMoney; an older desktop
program left JSON data that is imported once. Few people use it, but they use it at the same time, over rows that
are money. So the questions of this project are: does a transfer count once and as decided, does a replaced cook
lose nobody's work, and do the pages, the previews and the balances tell the same numbers?

Contents: [1 the system](#1-the-system), [2 the modules](#2-the-modules-and-the-code),
[3 the runs](#3-the-runs), [4 fairness and deadlock](#4-fairness-and-deadlock),
[5 the proofs](#5-the-proofs), [6 findings](#6-findings), [7 abstractions](#7-what-is-abstracted-or-not-modelled),
[8 the plan](#8-the-plan). Paths are relative to the repository. `PROJECT.json` holds the same in tables: the
lines each definition stands for ("map"), the runs, the hazards and the theorems.

## 1 The system

| Component | State | Operations | Hard because | Correct when |
|---|---|---|---|---|
| ZenMoney (`services/zenmoney.py`, `api/routes/zenmoney.py`, the loop of `main.py`) | `zenmoney_transactions`, `zenmoney_account_configs`, `zenmoney_blacklist_entries`, `zenmoney_match_rules`, the settings row with the token, a cursor per account; `payments` | synchronise, assign, approve, reject, blacklist, retry, approve all that is matched, save settings | transfers change status, account, amount after they were decided; decisions read without a lock; links to payments are adopted, removed and made again; a synchronisation of several accounts commits after each, overlaps others, fails half-way | every change arrives, once the loop runs undisturbed; a transfer counts through one payment at most, with the row's user and amount, only while settled; an editor's decision stands; nothing blocked waits for the bulk approval |
| Payments page (`pages/PaymentsPage.tsx`) | cached lists | shows the transactions by view, sends the decisions | shows status and link, not what counts | what is shown as accepted counts |
| Cooks (`services/cooks.py`) | `cooks`, `cook_members` with discount snapshots, `cook_vote_variants`, votes, products, `row_version`, cached total | list, get, preview, create, update | reads of several statements under READ COMMITTED, a row lock, an optimistic version, unique date, permutation of positions under a unique constraint | one cook per date; no update overwrites what its author has not seen; snapshots stay; what is shown is charged |
| Cook form (`pages/NewCookPage.tsx`) | form, version, query cache | open, edit, save, reload | version and contents come from two places | a change made in another window is noticed |
| Balances (`services/balances.py`) and their page (`BalancesPage.tsx`) | `payments`, `balance_adjustments`; sums over cooks; the row of the list an editor clicked | list, details, payment in and out, adjust, close | a sum of four queries; check, then insert; lost answers; the page sends a balance it was told earlier | what is booked was confirmed, once; a closed balance is zero |
| Weeks (`balances.py`, `CooksPage.tsx`, `BalancesPage.tsx`) | none | number and interval of a week, in two programs; the statement of a user week by week | New Year, leap years, weekday 0 or 1, weeks cut by the end of a year or of a range | each day in its interval; both programs agree; weeks are in order; a statement is a running account |
| Calculation (`domain/legacy_calculation.py`) | none | expressions, totals, weights, charges, rounding | quotients cut towards zero, Int32, float32, unreadable input, a parser that evaluates as it reads in four kinds of numbers | a text is given the value it has in arithmetic; charges cover the total, nobody pays five more than the share |
| Catalog (`services/catalog.py`) | `users`, contacts, dish templates | create, replace | numbering by maximum, children replaced while others read | numbers unique; no half of a template is seen |
| Import (`app/migration`) | everything, once | read, check, persist | all or nothing, once | the target is empty or holds the whole import |
| Authentication (`authentication.py`, `auth_middleware.py`, `routes/auth.py`) | accounts, sessions | log in and out, change an account | an account changes during a login | a session outlives neither its account nor its role |
| Deployment (`scripts/`, `deploy/`, `compose*.yaml`) | release file, database, containers | back up, switch, migrate, start | failure between the steps | the old release can be started again |

How they interact. All state is in PostgreSQL; every request is one session, committed at its end (a
synchronisation of several accounts commits after each). `zenmoney.py` writes `payments`, which
`balances.py` sums; `balances.py` may delete a payment that a transaction is linked to, which takes the link with
it. Cooks are read by `balances.py` through their cached total, and by the cook's page through the expressions.
The frontend caches answers (React Query) and sends back what it was shown: a version of a cook, an expected
balance. A background task calls the synchronisation at intervals and meets the editors' requests.

## 2 The modules and the code

| Module | Part of the code | State |
|---|---|---|
| `ZenMoneyPayments` | `services/zenmoney.py`; `create_payment`, `delete_payment` of `services/balances.py` | `transactions`, `payments`, `configs`, `blacklist`, `rules`: the tables |
| `PaymentsPage` | the view of accepted operations | that of `ZenMoneyPayments`, which it extends |
| `ZenMoneyRaces` | the same handlers, overlapping | in addition `work`: what the request of a session has read and will write |
| `Confirmation` | what the payments page promises about decisions | that of `ZenMoneyPayments`, and what was decided |
| `SyncCursor` | `sync`, `_sync_account`, the cursors of `save_settings`, the loop of `main.py` | `remote`, `clock`: ZenMoney; `mirror`, `cursor`: the tables; `work`: what the synchronisation of a session has read and will write |
| `CookStore` | what `services/cooks.py` promises: a save is one step | `cooks`, `knows`: the cook whose state a client knows |
| `CookEditing` | `get_cook`, `create_cook`, `update_cook`, statement by statement | `cooks`, `sale`, `lock`, `claim`; of each client `pc`, `view`, `draft`, `target` and what its statements have read |
| `CookForm` | `NewCookPage.tsx` and the query cache | the row; of each window cache, form, version, whether it is open |
| `VariantPositions` | the renumbering in `update_cook` (cooks.py:356-432) | positions as stored, as they were, as requested; what is still to flush |
| `Expressions` | the parser and the numeric kinds of `legacy_calculation.py`, and what a text means | none: operators |
| `CookCharges` | `calculate_cook`, `calculate_cook_charges` and their arithmetic | none: operators |
| `CookRecords` | create, update, preview, import of one cook: its numbers | `VariantPositions` and `discount`, `cook` |
| `Balances` | balance, adjustment, close; payments, cook; the form of the page | `payments`, `cook`, `adjustments`; of each editor request, reads, the row clicked |
| `Catalog` | `services/catalog.py`, statement by statement | `users`, `dish`, `runs`; of each session `work`: what its request has read, deleted and claimed |
| `Import` | `import_bundle` | that of `Catalog`, which it extends |
| `LegacyWeeks` | `legacy_week`, `legacy_week_display`, `legacyWeekDisplay` | a calendar |
| `WeekTotals` | `aggregate_balances`, `get_user_balance`, the cards of `BalancesPage.tsx` | the calendar of `LegacyWeeks` and `events`: what is dated |
| `*Proofs` | theorems about the module they are named after; `ZenMoneyPaymentsProofs` also about `PaymentsPage` and `ZenMoneyRaces`, `CatalogProofs` about `Import`, `CookRecordsProofs` about `VariantPositions`, `CookCharges` and `Expressions`, `LegacyWeeksProofs` about `WeekTotals` | |
| `Sums` | the inductions and the laws of sums over finite sets those proofs use; no part of the code | none |
| `MC*` | values of constants for TLC; no behaviour | |

`PaymentsPage` and `ZenMoneyRaces` extend `ZenMoneyPayments` and use its operators, so that the sequential and
the overlapping handlers cannot drift apart. `CookRecords` extends `VariantPositions` and `CookCharges`: an
update is a renumbering whose last step also replaces the rest of the cook, and `RecordSpec => Spec` (theorem
`RecordsRenumber`) says that every behaviour of `CookRecords` is one of `VariantPositions`. So `VariantPositions`
is the abstract specification of a renumbering, and its theorems hold in the composition. Both refinements, this one
and that of `CookStore`, are proved.

*ZenMoneyPayments.* An action is a handler from its first read to its commit. `SyncItem` is one entry of a diff:
receive the row (`Received`), judge it (`Judged`: match, review, blacklisted, rejected), settle its payment
(`settle`). `SyncDeletion` is an entry of the diff's deletions. `Assign`, `Approve`, `Reject`, `Blacklist` and
`Retry` are `decide` with its five actions, including the rematching of everything that waits
(`rematch_pending`) after an assignment or a blacklisting. `ApproveMatched` is one round of the bulk approval.
`SaveSettings` includes the blacklist, the rejudging and the rewriting of existing payments. `CreatePayment` and
`DeletePayment` are the manual ones. `upsert_payment` looks for a payment to adopt, creates one with the source
key, or sends a fractional amount to review; `deactivate_payment` excludes it.

*ZenMoneyRaces.* A request is `Begin*` (reads its transaction, works out the new columns), `ReadPayment`, and
`Commit` or `Fail`. At the commit the columns SQLAlchemy found changed are written over the row as it is then
(`Merged`); a unique constraint or a row that vanished makes the request fail. Synchronisations wait for each
other (FOR UPDATE on the settings); decisions wait for nobody.

*SyncCursor.* A transfer is its account, its amount and whether it is deleted. `Start` reads the cursors under row locks,
`Request` is the answer of ZenMoney (what changed since the cursor of the account, everything at 0), `Receive` an
entry of it, `Commit` the commit after an account, which is where the locks end and the next account begins with the
cursor read at the start. `Fail` is no answer, a refusal by a constraint, or a stop of the process. `SaveSettings`
selects accounts and may bring a new token, which sets the cursors to 0. The history variables `overlap` and `moved`
serve the properties only.

*Confirmation.* `ZenMoneyPayments` with a record of what an editor has decided about.

*CookStore* and *CookEditing.* In the abstract store creating and replacing a cook are single steps, dates are unique, a
member keeps the discount it joined with, and only a client that knows the present state of a cook replaces it.
`CookEditing` implements it: `Store == INSTANCE CookStore WITH knows <- Knows`, where a client `Knows` the cook whose
row, members and products it has read and which nobody has changed since.
A read takes three statements (row, members, products). An update locks the row, compares
versions, looks the date up, reads users, flushes, commits. A create looks the date up, flushes (and waits for the
unique index while another transaction has the date claimed), commits. `ChangeSale` is an edit of a user. A
client edits exactly what it read.

*CookForm.* The window's form is filled once, its version is that of the query's data. Contents are values.

*VariantPositions.* `update_cook` parks every variant above all old and new positions, then
places them one row after the other; PostgreSQL checks the unique constraint after each row. The order of the rows
is left open, and a request may roll back at any time.

*Expressions.* The recursive descent of the source, operator by operator, with Int32, Int64, Decimal and double, their
ranges, infinities, NaN and signed zeros; and `Meaning`, a definition by splitting the text at the operator that is
applied last, which knows nothing of the parser. Prices in `CookRecords` are texts evaluated by it. A call of a method of
the parser is a triple of its name, the place where it begins and how deep it is nested (`Calls`); the loop of a sum or a
product calls itself with the value read so far. `Called` is what a call answers, given what other calls answer, and
`Meant` likewise for a part of a text, so that `Parse` and `Meaning` are functions of one argument each.

*CookRecords* and *CookCharges.* Charges follow the source's arithmetic in exact numbers: discounts in parts of
`One`, quotients cut towards zero (`truncating_integer_division`), rounding up to five (`ceil_to_5`), `TooLarge`
beyond `Int32Max`, `Failed` for what cannot be calculated. Votes become indexes into the list of values ordered by
position, as in the code. `Shown` is what the cook's page calculates, `Charged` what the balances take from the
cached total, `Preview` what a draft is answered with. The body of an update is chosen at its commit: what is
checked before the renumbering leaves no trace when it fails. Discounts change between requests only; for
a change during a request see `CookEditing`.

*Balances.* `_load` reads payments, members, votes, adjustments one after the other; the others commit in
between (`AddPayment`, `RemovePayment`, `EditCook`, `OthersAdjust`). A request to adjust or close carries the
balance of the row of the list its editor clicked, whenever that was loaded, and the range the page shows now; it may be
answered, lose its answer and be sent again, or be given up.

*WeekTotals.* `Enter` dates a payment, a charge or an adjustment on the day the calendar is at; `weeks` is the statement
the code makes of the rows in a range: collected under (year, number), sorted, added up.

*Catalog.* A request is a row of steps up to `Commit*`, or `Fail`. `create_user` takes the advisory lock, reads the
maximum, inserts, commits. `update_template` writes a changed name (autoflush), deletes the rows of portions, then of
ingredients, inserts the new rows, commits. A DELETE has two steps, because READ COMMITTED finds the rows with the
snapshot of the statement and waits for who is deleting them: a row committed after the snapshot is not seen.
What waits and what PostgreSQL refuses (unique keys, the row lock of a rename against new rows that refer to the
dish) are guards. A list is the set of saves that have rows in it.

*Import.* `CheckRun`, `CheckRuns`, `CountUsers`, `CountDishes` are the SELECTs of `import_bundle`, `InsertReceipt`,
`AddUsers`, `AddDish` its flushes, `Publish` its commit; users and dishes stand for the twelve tables.

## 3 The runs

| Run | Question | Bounds | Distinct states |
|---|---|---|---|
| `links` | Do two transfers that compete for payments keep links, source keys and flags consistent? Do decisions stand? Does the queue follow blacklist and rules? | 2 users, 1 account, 2 transfers, senders *anna* (one match) and *both* (ambiguous), 1 pattern, 2 payments | 206,000 |
| `accounts` | Does a transfer that moves between accounts, is held, deleted, reassigned count rightly, under the right type? | 2 users, 2 accounts, 2 types, 1 transfer, 2 amounts, one fractional, 2 payments | 380,000 |
| `races` | Does a later undisturbed request repair what overlapping ones left? Which overlap leaves the payment made of a transfer behind, or makes two? | 2 sessions, 1 transfer, synchronise, delete, approve, reject, delete payment, payments by hand; 2 payments, 2 amounts | 3,110,000 |
| `cursor` | Do the cursors ever pass what was not stored? Does every change arrive in the end? | 2 sessions, one of them the loop's, 2 accounts, 1 transfer, 2 amounts, 2 changes in ZenMoney, selections {a1, a2} and {a2}; fair | 588,000 |
| `edits` | Do requests of several statements implement the store of cooks? Are current views whole, and no edits lost? Is every request answered? | 2 clients, 2 cooks, 2 dates, 2 discounts, 1 product list, 1 edit of each cook; fair | 230,000 |
| `records` | Does renumbering never collide? Do page, preview and balances agree? Does no save make the balances fail? Is the total covered? Is a price what its text says? | 2 variants, 3 positions, 2 users, 5 rosters, 4 receipts (one too large when rounded, one a refund), 2 vote tables (one with a zero), Int32 limit 29; texts of up to 5 of 12 tokens | 38,700 |
| `catalog` | Are numbers unique? Do overlapping saves mix? Is an import whole, and into an empty database? | 2 sessions, 3 legacy ids, 3 saves, 2 manifests of 2 and 1 users | 1,670,000 |
| `adjust` | Is a balance booked as it is, once, and a closed one zero, whatever row was clicked? | 1 editor and the commits of others, 2 dates, amounts -5, 0, 5, 2 adjustments | 3,480,000 |
| `weeks` | Are numbers, intervals, both programs and the order of weeks right? Is a statement a running account? | 2 successive years, all weekdays and both lengths: every case of a calendar there is; 2 amounts, 2 events within 9 days of New Year | 1,790,000 |
| `over_a_change`, `cook_form`, `unconfirmed` | What the code says of itself and does not keep: section 6 | the smallest that shows it | |

Why the bounds are enough. The interesting cases of `links` need two transfers over two payments (adopt or create;
the other's link in the way), an ambiguous sender and a rule that ends the ambiguity; a third transfer or
payment adds no new pair. Accounts are told apart by type and blacklist only, so moving between two shows what
moving can do. Races are pairs of sessions: each handler commits once, so what one request can see of others is
what some second one left, and payments by hand come in at any time besides. `MaxPosition` bounds the payments,
not how often they are deleted and made again: numbers are used again. In `edits`, one edit of each cook lets a client's
version be current or behind, which is all the comparison tells apart; members, discount and date are what an edit
changes. In `catalog`, the second save meets the first and the third what the first two left; a pair of sessions
is every pair of users, saves and imports. The calendars of `weeks` are complete: the successor of a year depends on its
first weekday and length alone; nine days on each side of New Year hold the cut week and a whole one, and a second event
lets a week open with something. In `cursor` one transfer is enough, because transfers meet only through the cursors and
the failures, which one has all to itself; two changes let an answer be older than what another session stored; the
selection {a2} makes an account lose its cursor and get a new one. In `records`, three positions for two variants allow a swap, a shift, and a parking
place beyond both; each roster, receipt and table is there for a case the code tells apart (no votes, passive
members, incomplete and unreadable products, a weight of zero, a price below zero, the Int32 limit). Texts of five tokens
hold two binary operators and a sign or parentheses, which is every pair of precedences; the small ranges of the kinds
let each kind overflow into an error or the next kind. Symmetry (of transfers and
sessions) is used where nothing tells the values apart and only for safety.

Every property has a mutant in `PROJECT.json`: a plausible bug in a mapped definition (its faulty form stands
before it, marked "Fault") under which the run finds the property violated.

## 4 Fairness and deadlock

`edits` and `cursor` assume fairness.

`edits`: a request that was sent takes its statements: weak fairness for reading and creating, and strong fairness for
updating, because a client that waits for a row lock has its step enabled and disabled as others take and release the
lock, while PostgreSQL queues those who wait for a row. Clients need not send requests, and nothing forces a request to
succeed. Without strong fairness an update may starve, which the database's queue excludes.

`cursor`: every synchronisation goes on or fails (`WF(Advance \/ Fail)`: calls to ZenMoney have a timeout). The loop of
`main.py` starts again whatever happened (`while True`, both kinds of exceptions are caught) and its session goes on:
`WF(Advance)`; it waits for row locks in PostgreSQL's queue: `SF(Start)`, `SF(Commit)`. An editor's synchronisation may
fail for ever. `EventuallyShown` has the premise that the loop's own synchronisations cease to fail, without which
nothing need ever arrive.

Deadlock is checked everywhere but in `weeks`, whose calendar ends after `Years` years.

## 5 The proofs

Checked by TLAPS for every value of the constants, with the assumptions named below, which TLC also evaluates. Every
invariant, action property and refinement that a passing run checks is a theorem, but for the two liveness properties at
the end of this section. Each safety proof has one inductive invariant; TLC checked it on the run's instance before it was proved.

*ZenMoneyPaymentsProofs*, the handlers one after the other: `TypeCorrect`, `OnePaymentPerTransfer` (`LinksInjective`),
`CreatedOnce` (`SourceKeyOwned`), `OnlySettledCounts` (`UnsettledNotCounted`), `CountsAgree` (`CountedAgrees`),
`NothingLost` (`ExcludedIsLinked`). The inductive invariant is `RowsOK /\ LinksLive /\ LinksInjective /\ SourceKeyOwned /\
ExcludedIsLinked /\ UnsettledNotCounted /\ CountedAgrees /\ SettingsOK`. The properties need each other: that an approval
may create a payment without meeting a taken key needs `SourceKeyOwned`, which needs that links point to rows (`LinksLive`);
that excluding a payment takes nothing from another transfer needs `LinksInjective`. The lemmas go operator by operator
(`Link`, `upsert_unlinked`, `deactivate_payment`, `settle`), then action by action. Assumptions: `ConstantsAssumption`, and
that NULLs are no values (`NullsAssumption`).

What the queue, the page and the decisions rest on is a second invariant, `FollowInv`, which adds to the first one what the
row of each transfer says about the rules, the blacklist and its payment (`AllRowsOK`): `QueueIsNotBlocked`, `QueueIsOfTheRules`,
`CountsUnderItsType`, `AcceptedIsCounted`, and from it the action property `DecisionsStay` (`ManualDecisionsStand`).
`QueueIsOfTheRules` is proved for a single account, which is also what the run has: rules are learned for all accounts, but
an assignment rematches what waits in its own account only (`rematch_pending`), so that with two the claim is false.

*The same module, for `ZenMoneyRaces`*: `RaceTypesCorrect`, `CreatedOnceInRaces` (`CreatedAtMostOnce`: one payment is
created per transfer, which no run checks), `UndisturbedRepairs` (`UndisturbedHeals`). `RaceInv` says what is left of a request's reads when it commits: no row of a transaction ever goes
away; a request that writes no payment was made with the payment it still has, or with one that is gone and that the
transaction cannot get back; a payment it does write agrees with the transaction it writes and keeps the source key it was
read with. One made with stale reads may contradict other rows, never itself, which is why one undisturbed request
repairs what a race left (`RaceAssumption`: there is a type to create payments of, and idle is no work).

`SourceKeyOwned` is false when requests overlap (section 6). What is left of it is `OnlyStaleLinksPart`
(`OnlyRelinkingParts`): only a request that read a transfer before it had its payment, and adopts another or unlinks it,
parts the two; two approvals never make a payment each.
It needs a second invariant, `LinkInv`, about the link a request is going to write: it is the one it read, or the payment it
read is gone and no row comes in its place; a new payment gets the key of its transfer; and a transfer that was read as
missing is missing, because synchronisations wait for each other (`Lone`). `LinksStayApartInRaces` is `LinksInjective` for
overlapping requests.

*SyncCursorProofs*: `TypeCorrect`, `CursorsAreHonest` (`ChangesArrive`), `LocksCoverTheFirst` (`FirstIsExact`). A cursor may
move because a transfer the answer does not mention had not changed since the old cursor, and was stored under that one;
and because what the answer does mention is stored by the same commit. Both rest on reads that may be old. The invariant
therefore says of every synchronisation at work that each transfer that changed in time is still to be received, or
received, or has not changed since the cursor it asked with (`AnswerOK`), that the rows it read are those of the table while
it has been alone or has the row locks, and what the cursors it is going to replace promise (`SinceOK`). `OthersOK` says that
no two are alone or have the locks, `StaysOK` that what never left the first account is in it on both sides. Assumptions:
there is some amount of money, and NULLs are no values.

*BalancesProofs*: `TypeCorrect`, `BooksAgainstTheBalance` (`BookedBalanceIsTrue`), `RetriesAdjustOnce`
(`RetryAdjustsOnce`), `ClosingLeavesZero` (`ClosedIsZero`). The invariant follows the four queries of each request: what it has
added up so far is the balance of the tables it has read, as long as nobody disturbs it (`ReadsOK`), what it asks for lies in
its own range (`RequestOK`), and once its row is there, the balance is not the expected one (`AppliedOK`): so a retry
does not come to insert. There are finitely many payments (`IsFiniteSet(PaymentIds)`), and any editors, amounts and dates.

*CookEditingProofs*: `TypeCorrect`, `CooksUnique` (the unique dates and the version, in the type), `ReadsAreWhole`
(`CurrentViewIsTrue`), `UpdatesLoseNothing` (`NoLostUpdate`), and `EditingIsAStore`: `Spec => Store!Spec`, the refinement. The
invariant is `TypeOK /\ CooksOK /\ \A c \in Clients : ClientOK(c)`. `ClientOK` says what a client has
in hand wherever its request is: its version is not newer than the cook's, and when they are equal, what it has read is
what there is (`ViewOK`); between the row lock and the commit they stay equal (`LockOK`); a date in the index is nobody else's
(`ClaimOK`), and neither is the identifier of a new cook (`CreateOK`). From it every step of a request is one of `CookStore` (create, replace,
learn, forget) or a stutter, action by action: a commit is the replacement, the last statement of a read is where a
client learns. `CookAssumption` asks that no set of members is the value for "nothing".

*CatalogProofs*: `TypeCorrect`, `NumbersStayOwn` (`NumbersAreOwn`), `SavesDoNotMix` (`ListsOfOneSave`), `ImportsAreWhole`
(`ImportIsWhole`), `ImportsMeetNobody` (`ImportsIntoEmpty`). `SessionsOK` says what requests cannot
both have (`Apart`: numbers, the dish, the advisory lock, a receipt, rows inserted into the same list), that a save which is
inserting has seen every row of its lists and deletes it (`Sound`), and that what an import has counted is still so as long
as nobody commits (`CountsStand`).

*CookRecordsProofs*: of the renumbering `RenumberingIsAccepted` (`NeverCollides`) and `RenumberingIsWhole`
(`RequestedWhenIdle`), for any number of variants and any order of rows: the invariant adds to the types (`StateOK`) where the
rows already flushed are (`RowsWhereTheyBelong`), parked ones above everything old and new, at distances that tell them
apart, placed ones at their new positions. `RecordsRenumber` carries them over to `CookRecords` (the refinement `RecordSpec =>
Spec`). Of the numbers: `RecordsSound` (the cached total is what the products add up to; one row per user), `PreviewHolds`
(`PreviewIsSaved`), `ShownCharges` (`ShownIsCharged`), `ChargesPayForTheCook` (`ChargesCoverTotal`), `SavesCanBeCharged`
(`SavesKeepBalances`), for any rosters, receipts, vote values and discounts that are finite. The page sums votes by their
places, the balances by their rows: the sums agree because ordering by position is one to one (`SumRenamed`). The charges
cover the total up to a unit per member because each is above the member's share less one and at most four above it
(`ShareIsCovered`): the shares add up to the total by an induction over the members. `RoundingBounds` and `RoundingKeepsOrder` say what rounding to five does.

*The same module, for `Expressions`*: `ExpressionsMeanWhatTheySay`, for every text of tokens but the empty one (which is 0
by a case of its own, where `Meaning` has none), of any length, and `PricesAreReadAsWritten` (`EvaluatesAsWritten`). Two
programs that share no idea are compared: the parser goes from left to right and evaluates as it reads, the meaning splits
a text at the operator that is applied last. The argument:

1. *Numbers.* Each operation of the four kinds is refused or gives the quotient of arithmetic (`CheckedIs`, `LiteralIs`,
   `UnaryIs`, `BinaryIs`), and it is refused only if the quotient does not fit Int32. Nothing is claimed of what divides by
   zero, where infinities and NaN go on to count.
2. *The parser answers.* A call depends on calls that have less of the text before them, or as much and a method further
   down (`Measure`), so that there is a function that answers all calls at once (`ParserExists`, `ParserIs`); likewise for
   the meanings of the parts of a text (`TableExists`, `MeaningEquations`).
3. *What it reads is right* (`ParserSound`, `ReadAsMeant`). Wherever a method has read from i to j, it `Vouches` for the
   value: the part from i to j is an expression, of the form the method is for (`Term`, `Factor`), and the value stands for
   what the part means. The loops keep this for what they have read so far: the operator before the operand they read last
   is the last one outside parentheses, which are counted by `Open` (`SplitsJoined`, `WellShaped`).
4. *Nothing modest is refused* (`PartReads`, `ReadWhenModest`), by an induction over the parts of a text (`PartInduction`):
   a part that means something, with partial results that fit Int32, and no deeper than what is left of `MaxDepth`, is read
   to its end by the method of its form. `Nested` counts the signs and parentheses that go deeper.

The assumption is `RangesAssumption`: the ranges and the limit are natural numbers, each range larger than the one before.

*LegacyWeeksProofs*: `IntervalsAreWeeks`, `WeeksFitContract`, `ProgramsAgree`, `WeeksInOrder`, for any number of years: the
type invariant and integer arithmetic. That the week numbers fit the contract (`WeeksFitContract`) is proved only; no run
checks it. `StatementsAddUp` (`WeeksAddUp`), for any amounts and any number of rows: the invariant is that nothing is dated
after today and that the dates of a year agree on the weekday it begins with, so that weeks are in the order of their days;
among the weeks before one there is a last, and what is dated up to the end of that one is all that is dated before.

*Sums*: `SumFunctionOnSet` of the library adds up by a recursive function that picks an element of each set. That there is
such a function (`SumTableExists`), that it does not depend on what is summed besides (`TablesAgree`), and the laws: one more
row (`SumAdds`), two disjoint sets (`SumUnion`), rows under other names (`SumRenamed`), signs and types. The induction
over subsets is used in the form the provers can take, as a minimal counterexample of a well-founded order (`SubsetInduction`).
An induction is stated with a set, `Good`, of the things that are to be shown, instead of a predicate: over subsets, over
counts (`CountInduction`) and over anything that is measured by a natural number (`MeasureInduction`).

Only model-checked:

- `EveryRequestAnswered` and `EventuallyShown`: liveness under fairness is out of the prover's reach.
- The three runs that expect a violation (section 6), of which there is nothing to prove, with `CookForm` and `Confirmation`.

## 6 Findings

Three runs state what the code says of itself; TLC finds a behaviour of the code that breaks it.

1. `unconfirmed`: "Сначала загрузите и проверьте поступления. Баланс изменится только после отдельного подтверждения
   операции" (`PaymentsPage.tsx:87`). A synchronisation adopts a payment entered by hand for a matched transfer nobody
   decided about, and what ZenMoney says later of the transfer changes or excludes that payment.
2. `over_a_change`: "balance changed while the adjustment was being confirmed" (`balances.py:418`, `459`). Nothing
   is locked between the comparison and the insert. `BookedBalanceIsTrue` and `RetryAdjustsOnce` say what does hold.
3. `cook_form`: "Готовка была изменена в другом окне. Обновите страницу и повторите." (`NewCookPage.tsx:257`). The
   form is filled once, the version is that of the query's data, which may be fetched anew behind the form: the
   save names the new version with the old contents and reverts the other change unseen. `NoLostUpdate` says
   that a client which sends what it read is protected.

Met on the way, without a run:

- A linked transfer whose amount becomes fractional goes to review with its old payment still counted
  (`zenmoney.py:554`): the exception in `CountedAgrees`. No view of the payments page shows such an operation
  (`PaymentsPage.tsx:83`).
- The page says "Учтено в балансе" of a rejected operation that is still linked (`PaymentsPage.tsx:125`), although
  its payment is excluded (`zenmoney.py:536`).
- "Match the transaction to a participant before approval" (`zenmoney.py:887`): `decide` reads the transaction without a
  lock; a synchronisation that commits in between may reject it, and the approval still makes a counted payment of it.
  `UndisturbedHeals` says how long the damage lasts: until the transfer is looked at again.
- Of two approvals of one transfer that overlap (two clicks, or one and the bulk approval), the first may find no payment
  and make one, and the second find one that was entered by hand in between and link it instead (`zenmoney.py:606`). When
  the second commits last, the transfer counts twice: its link is overwritten, and the payment made of it stays counted
  without any transaction until somebody deletes it. A synchronisation in place of the second approval does the
  same. `OnlyRelinkingParts` says that nothing else does.
- Of two synchronisations that overlap, the one with the older answer may store it last, for any account but the first
  (whose locks last until it is committed): an income that was moved may be left "deleted" behind a newer cursor until it changes
  again. This is the exception by `overlap` in `ChangesArrive`; `FirstIsExact` is what the locks do save. Likewise a new
  token, which sets the cursors to 0, is undone for an account whose turn is under way.
- A cook whose total is negative is accepted (`cooks.py:208`, `351`), but the contract of a week refuses to show a negative
  charge (`api/contracts/balances.py:108`, `116`): the list of balances fails for everyone. The exception in
  `SavesKeepBalances`.
- An expression that divides by an infinity has a value: `1/(1/0)` is 0. `EvaluatesAsWritten` leaves out texts that divide
  by zero somewhere.
- The button that updates a dish with the rows of the cook's form (`NewCookPage.tsx:215`) also writes back the name and the
  portions the form has loaded, over what the catalog's page saved since. A form whose dish is loaded again behind it keeps
  votes for portions that are no longer there, whose ids were made anew (`catalog.py:242`).
- The balances page sends the balance of the row that was clicked (`BalancesPage.tsx:78`), so the advice "Balance changed;
  refresh and retry." (`api/routes/balances.py:197`) does not help before the row is clicked again. The range it sends is
  the present one, not that of the row; `BookedBalanceIsTrue` says that nothing wrong is booked all the same.
- Two saves of a dish that overlap can leave portions of one and ingredients of the other, when one of the saves has an
  empty list: the exception in `ListsOfOneSave`. With rows in both lists of both saves one of them is refused, with the
  message that the name is taken (`catalog.py:209`), which it is not.
- A dish renamed to a name that exists is not answered with that message: the name is flushed by the first DELETE
  (`catalog.py:202`), outside of `_commit_or_conflict`.
- An import counts table by table without a lock: a request that commits a row of a table already counted is not
  noticed unless it meets a unique key. `ImportsIntoEmpty` holds for an import nobody committed beside.
- `CatalogPage.tsx` caches a dish under `['templates', id]`, the form of cooks under `['template', id]`: a saved dish
  does not reach a form that is open, whose votes name portions by position.

## 7 What is abstracted or not modelled

- ZenMoney: date and amount are one value (`Money`); payee, original payee and comment are one (`Senders`); matching by
  contacts and names is given by constants. The token is a fact, its encryption is left out. `SyncCursor` leaves out status
  and payment, `ZenMoneyPayments` the cursors. Settings, assignment, blacklisting and retrying do not overlap
  with others in `ZenMoneyRaces`. The order in which row locks are taken is not modelled: an aborted request is `Fail`.
- Cooks: float32 in the calculation is left out. The limit of the sum of charges is checked on the final sum. The list of
  cooks and the summary of selected ones only read.
- Expressions: rounding to 29 digits, to double and to float32, and how a text is cut into tokens.
- Balances: one user; users do not meet in these rows. The list of users filters and sorts. `WeekTotals` has no
  requests: what others commit between the queries of a statement is the subject of `Balances`.
- Catalog: one dish; users without name and contacts, which are replaced as the lists of a dish are. An update that only
  switches the multiple vote waits for others in the database, not in the model, which so has more behaviours.
  Import: two of twelve tables.
- Cook form: a server that answers at once; `CookEditing` has the overlapping requests.
- Authentication is not modelled: whether the accounts are right does not rest on it, and it belongs in a security
  review. Deployment is not: a shell script of one operator, beside which nothing runs.
- Not modelled either: rendering, parsing and validation of files, password
  hashing, TLS, logging, health checks, request ids, container images, the migrations of the schema.

## 8 The plan

The order is that of what would cost most when wrong: money counted twice or not at all, work lost, numbers that
disagree. Done, in this order: `ZenMoneyPayments` with its proofs; `ZenMoneyRaces`; `CookEditing`; `Balances`;
`VariantPositions` and `LegacyWeeks` with proofs; `CookForm`; `CookCharges` and `CookRecords` with proofs;
`Catalog` and `Import`; `SyncCursor`; `Confirmation`; `CookStore` and the refinement; `WeekTotals`; `Expressions`; the page of
balances in `Balances`.

Next, to model: a dish that is replaced between a client's read and `create_cook`, which names votes by position
(`Catalog` with `CookEditing`); assignment and blacklisting in `ZenMoneyRaces`, whose rules others read.

Proved, in this order: types, links, source keys and flags of ZenMoney; the renumbering and the calendar; charges, previews
and rounding; then everything else a run checks but liveness, beginning with what money rests on: the queue and the
decisions, overlapping requests, the cursors, balances and adjustments, the refinement of `CookStore`, the catalog and the
import, statements; and what the texts of prices mean.

Next, to prove: with assignment and blacklisting in `ZenMoneyRaces`, how far `QueueIsNotBlocked` and `QueueIsOfTheRules` hold
for requests that overlap.
