# TLA+ models of OpenShelf

OpenShelf is a library service: a FastAPI application over PostgreSQL, with a
small web client. This directory holds TLA+ models of its core, TLC
configurations that check them on small instances, and TLAPS proofs of their
most important invariants for instances of every size. Paths below are relative
to the repository; `book_use_cases.py` and the like are under
`src/application/use_cases/`, the repositories under
`src/infrastructure/repositories/`.

## The system

### Components

| Component | State | Operations | Status |
|---|---|---|---|
| Checkout and return (`book_use_cases.py`) | `books.available_instances`, `users.books_on_hand`, `book_loans` | `issue_book`, `return_book` | `Circulation` |
| Deletion of users and books, change of copies | the same rows, and the rows that go by `ON DELETE CASCADE` | `delete_user`, `delete_book`, `update_book(available_instances)` | `Circulation`; each module has the deletions that concern its rows |
| Refresh sessions (`auth_use_cases.py`, `auth/refresh_sessions.py`, `services/jwt.py`) | `refresh_sessions`, the tokens that clients hold | `login`, `refresh`, `logout` | `Sessions` |
| Catalogue of authors and books (`author_use_cases.py`, `book_use_cases.py`) | `authors`, `books`, `authors_books`, the unique indexes on the lower-cased names | create, update, delete of authors and of books | `Catalog` |
| Accounts (`auth_use_cases.py`, `user_use_cases.py`, `sqlalchemy_user_repository.py`) | `users.username`, `users.email`, their unique indexes | register, profile update, deletion, the look-up of a login | `Accounts` |
| Web client (`static/app.js`) | stored session, refresh in progress of each tab, loan list, edit form | refresh on 401, login, logout, checkout, return | session handling: `WebClient` |
| Database manager, pool, transactions (`database_manager.py`, `dependencies/database.py`) | engine, pooled connections | start, session, commit, rollback, health check, shutdown | `Service` |
| Logging middleware, error handlers (`logging/middleware.py`) | context of each request | bind, log, answer | `Service` |
| Wiring, health endpoint, life of the process (`dependencies/`, `interfaces/api/main.py`) | - | `lifespan`, `/health` | `Service` |
| Schema migrations (`src/alembic`) | tables, indexes and checks, `alembic_version` | upgrade and downgrade of three revisions | `Migrations` |
| Settings, log formatting (`logging/config.py`), password hashing | none that changes after start | - | not modelled |

### How they interact

Every write request runs in one session, opened by `get_transactional_session`
(`dependencies/database.py:39-50`): the handler executes its SQL statements,
returns, and the session is committed after the `yield`; an exception rolls it
back. Nothing is kept in the server's memory between requests, so components
interact through the rows of the database only, and several requests of the
same or of different kinds interleave at every statement. The pairs that meet:

- issue and return meet on the user's counter and on the book's copies;
- the deletion of a user or book meets issues and returns through foreign keys
  and cascades, and refresh sessions in the same way;
- creation, renaming and deletion of authors and books meet on unique indexes
  and on the association table, registrations and profile updates on those of
  `users`;
- all requests meet in the connection pool, which each of them occupies from its
  first statement until after its answer;
- migrations run beside the application and beside each other, and meet both in
  the catalogue of the database.

The web client keeps its session in `localStorage`, which all tabs of a browser
share, and its `refreshPromise` in the memory of each tab. It meets the server in
`login`, `refresh`, `logout` and in the 401 of every protected endpoint.

### What is hard here

- **Check then act.** `issue_book` looks for overdue loans and for an open loan
  of the book before it locks anything; `create_author`, `create_book` and the
  updates look for the name before they write it; `login` and `refresh` look the
  user up two statements before the insert. What keeps these right is a
  conditional `UPDATE`, a unique index or a foreign key further down.
- **A counter beside the rows it counts.** `books_on_hand` and
  `available_instances` are written by statements other than those that make
  and close loans, in two handlers, with error paths in between.
- **Lock order.** Issue locks user, then book. Return locks loan, book, user.
  Cascades lock the parent, then its rows. A renaming locks its row, then waits
  for the name. Deadlocks are possible; the questions are which, and whether
  every request still ends.
- **The answer before the commit.** The client has the answer while its
  transaction is still to be committed, so it can act on rows that nobody else
  sees yet, or that a fault may undo.
- **Whole seconds.** Tokens of one user made in the same second are equal.
- **Errors on their way out.** An exception passes the session, the error handler
  of the framework, the logging middleware and a second error handler, and may
  come after the answer was sent.
- **A migration that is not atomic.** The last revision builds its five indexes
  outside of any transaction, and can end between them.
- **Answers in any order.** A tab acts on the answer to a refresh or a call after
  other tabs, or the user, have changed the stored session; answers get lost after
  the server has acted.

### What makes each component correct

- Checkout: a user never has more than `MAX_BOOKS_ON_HAND` open loans or two of
  one book; no loan is made while one is overdue; counter, copies and loans stay
  in step; a return closes the loan, puts the copy back and lowers the counter or
  does none of it; a refusal tells the truth; every request ends.
- Sessions: a refresh token is exchanged at most once, for one other of the same
  user; none outlives its user; a token that was given out is stored in the end;
  after a logout the token is not valid.
- Catalogue: names of authors and titles of books are distinct; the authors of a
  book exist; what was answered is what the commit does.
- Accounts: usernames and addresses are distinct; every refusal and internal error
  has its reason in a committed row, so whoever registered can be found at login.
- Service: whoever waits for a connection or a row waits for somebody who can go
  on; every request ends; the log tells what the client was told; no request meets
  a database manager without engine.
- Migrations: an upgrade that reaches the head leaves the schema that `models.py`
  declares, whatever failed before.
- Web client: the stored session works; a tab does not get itself refused by its
  own refreshes; a good session is not thrown away by a failed request; no call
  waits for ever.

## The models

### Modules

| Module | What it is |
|---|---|
| `Circulation` | issue, return, deletion and edit of copies, one action per SQL statement |
| `Lending` | the lending desk: what those requests amount to, each one atomic step |
| `Sessions` | login, refresh, logout and the deletion of a user |
| `Tickets` | refresh tokens as tickets used at most once |
| `Catalog` | create, update and delete of authors and books |
| `Bibliography` | the catalogue: names, titles and credits, each request one atomic step |
| `Accounts` | register, profile update, deletion, and the look-up of a login |
| `Directory` | who has which name and address, each request one atomic step |
| `Service` | the way of a request through middleware, session, pool and error handlers; the life of the process |
| `Migrations` | alembic runs, the schema, and the rows that may be in their way |
| `WebClient` | tabs of one browser, the calls they make, and the server between its answers and its commits |
| `MCCirculation`, `MCSessions`, `MCCatalog`, `MCAccounts`, `MCService`, `MCMigrations`, `MCWebClient` | small instances for TLC, and their symmetry |
| `CirculationProofs`, `SessionsProofs`, `CatalogProofs`, `AccountsProofs`, `ServiceProofs`, `MigrationsProofs`, `WebClientProofs` | the proofs |
| `Waits` | lemmas about who waits for whom, for the proofs of the first four |

### From the code to the state

`Circulation`, `Sessions`, `Catalog` and `Accounts` share one shape. A *slot* `r \in Requests` is a
request in progress; the number of slots bounds the requests that run at the same
time. `pc[r]` names the statement the request executes next, `req[r]` holds its
parameters and local variables, `reply[r]` what the client has been told. Every
action executes one SQL statement, with everything Python does up to the next
one: its early returns and exceptions are disjuncts. The last action of a request
is its commit. `"answered"` is a request whose answer is out and whose commit is
not; `"closed"` is one that was refused and rolled back.

The tables (`users`, `books`, `book_loans`, `refresh_sessions`, `rows`,
`authors_books`) hold **committed** rows. PostgreSQL runs at READ COMMITTED, its
default, which the code does not change, so a plain `SELECT` reads these. An
`UPDATE`, `DELETE` or cascade locks its row until the transaction ends
(`lock`), waits while another one holds it, and evaluates its `WHERE` clause on
the committed row once it has the lock. A row that is locked cannot change, so
what the holder has written follows from the row and the statements passed, and
it is put into the tables by the commit action. A refusal, a fault or an abort
releases the locks and writes nothing.

The other waits of PostgreSQL that the code relies on are modelled where they
matter, and marked as external in `PROJECT.json`:

- an insert into a unique index waits for every transaction with an equal entry
  in progress, and fails if that one commits (`ux_open_book_loans_user_book`,
  `token_hash`, `ux_authors_name_lower`, `ux_books_title_lower`, `ix_users_email`,
  `ix_users_username`);
- an insert with a foreign key locks the parent `FOR KEY SHARE`: it waits for a
  deletion, the deletion waits for it, an update of other columns does not
  (`sharing` in `Sessions`, `Sharers` in `Catalog`);
- a cycle of waits is broken by aborting one of its transactions
  (`DeadlockVictim`); its error is translated by nothing and is answered as an
  internal server error.

Names, titles and usernames are model values after what the validators do to
them: the strip and `lower()` are abstracted into the identity of a value, and a
name of spaces is the distinguished value `Blank`, because the length is checked
before the strip. A refresh token is the pair of its user and the second of its
creation, because that is all its claims contain; its expiry follows from it. The
calendar counts days (`Midnight`), the clock of `Sessions` counts seconds
(`Tick`), and each query takes the time at which the code reads the clock
(`as_of`).

In `Accounts` names and addresses are two sets of strings that may overlap, since
`RegisterRequest` takes any username of 3 to 50 characters and a login takes
either. `TooLong` is an address that `EmailStr` accepts and `String(50)` does not,
`Null` a field that is given as null, `None` one that is not given. An entry goes
into `ix_users_email` before `ix_users_username`, the order in which the indexes
were created.

`Service` leaves out what the statements do and keeps the way around them. `pc[r]`
is the place a request has reached between `Receive` and `Close`; some handlers
lock one row that all want. `pool` is the set of requests with a connection
(`Connections` is `pool_size + max_overflow`), taken with the first statement and
given back after the commit or rollback. `error` is the exception on its way out:
the session is rolled back first (`Rollback`), `ExceptionMiddleware` turns a
refusal into a 4xx inside the logging middleware (`HandleRefusal`), that
middleware logs and clears the context in its `finally` clause (`Complete`), and
anything unexpected is answered and logged outside of it (`ServerError`). The
order of Starlette's middleware, the pool's queue and its timeout, and uvicorn,
which stops accepting and waits for the last requests before `lifespan` goes on,
are external. All 4xx codes are one, which one is a table (`_domain_error_status`).

`Migrations` has the objects of the database by name: tables, indexes, checks, the
one altered column, the extension. `Initial`, `Hardened` and `Indexes` are what the
three scripts create, `Declared` is what `models.py` declares, and the two are
written down separately, so that the equality at the head is a result.
A run reads the version once (`Begin`); the scripts of the first two revisions and
their version numbers are one transaction, and every statement of
`autocommit_block` is two actions, because an index is in the catalogue before it
is valid and not valid any more before it is gone. `unfit` are the constraints
that stored rows violate, which the application may bring about while nothing
enforces them. A run ends at a failed statement, or anywhere when it is killed. One
thing is assumed of the operator: a downgrade runs alone. Upgrades overlap freely.

`WebClient` has the shape of `Circulation` on the other side. A slot `c \in Calls` is a call of
`apiRequest`; its `state` says which `fetch` it awaits or which answer has come:
`sent`, then `done` or `denied` (401), `waiting` for `refreshPromise`, `refresh`
in `doRefresh`, then `renewed`, `refused` or `failed` (any other error of the
server). JavaScript runs undisturbed between two awaits, so an action is one answer
with all that follows from it up to the next `fetch`, the calls that wait for the
same promise included. A session (access token, refresh token, user) is stored
and cleared as a whole, and is named by its ticket. Access tokens
expire at any time: a request that carries one may be denied, one without is. What
a page shows of the answer is left out, `view` is whether it asks to log in. `heir`
is a history variable: to which tab the server sent the successor of a token.

The server of `WebClient` has the rows (`valid`, `used`) and what is between an
answer and its commit. A login or refresh is answered with its transaction in
`pending` (`Owe`), the old row locked (`Held`) and the new one seen by nobody; later
it is committed (`Commit`) or lost (`CommitFails`, the token goes to the history
variable `lost`). Until then a refresh with the new token finds no row and is
refused, which the state `early` tells apart from other refusals. Nobody looks at the
answer to a logout or to a refresh whose page is gone, so these take effect at their
commit, or not at all. How a request gets as far as its answer is left to
`Sessions`. Left out here: the deletion of an account, the expiry of refresh tokens,
a login that is served after its page is gone, which leaves a token nobody knows,
and the repetition of a token whose commit failed, which takes another login or
refresh in the very same second.

### Faults

`Fault(r)` is the loss of the connection or process at any statement: the
transaction is rolled back, and the client gets an error unless it had its answer
already. Nothing but the database survives a restart, so there is no recovery
action; what a restart can do is drop requests, each of them by `Fault`.

In `Service` a statement, the connection, or the commit after the answer may fail,
the wait for the pool may end without a connection, and the process may be killed
(`Kill`) or stopped (`Stop`) at any time and started again. In `Migrations` every
run may be killed at any statement, and what was committed before stays.

In `WebClient` every `fetch` may be rejected, before the server has acted or after
(`Lose`), and a tab may be reloaded (`Reload`); a refresh nobody waits for any more
may still reach the server (`abandoned`), and so may a logout, which nobody waits
for (`logouts`). The commit that follows an answer may fail (`CommitFails`), and the
browser never learns of it.

### Abstract specifications

`Lending`, `Tickets`, `Bibliography` and `Directory` have no requests, locks or counters. The
refinement mappings are in the detailed modules: `Desk` in `Circulation` (a pair
user/book is on loan when a committed loan row is open, the shelf is
`available_instances`), `Desk` in `Sessions` (valid and used tokens are the
active and revoked rows), `Listing` in `Catalog` (names of committed rows, and
the association table), `Members` in `Accounts` (names and addresses of committed
rows). Each commit is one abstract step, every other action a
stutter. The abstract steps also say what the requests do *not* promise:
`Leave` and `Withdraw` in `Lending` never bring copies back, and `AddBook`
accepts a book without authors.

## The runs

Bounds are constants of the configurations: identities of rows bound the rows ever
made (identifiers are never reused), `LastDay`, `LastSecond` and `MaxCopies` bound
the calendar, the clock and what an administrator may set. `Events` selects the
requests of an instance, so that each run spends its states on one question.
Deadlock checking is on everywhere; a system at rest can always accept or tick,
or read an identifier that is gone.

| Run | Instance | Question |
|---|---|---|
| `lend` | 2 users, 3 books of 2 copies, 3 loans, 2 requests, limit 2, days 0 to 2; issue, return, midnight, fault | do counter and loans stay in step; can checks made at the start of an issue be stale when the loan is made; are the refusals true |
| `remove` | 2 users, 1 book of one copy, 2 loans, 3 requests, limit 1; everything but midnight | is every committed request one step of `Lending`; who can deadlock; is there always one that can go on; what happens to copies |
| `progress` | 2 users, 1 book, 2 loans, 2 requests, fair; issue, return, deletions | does every request end; is a loan that was answered stored |
| `sessions` | 1 user, seconds 0 and 1, 3 requests; everything with faults | is each token used once, and never without its user |
| `sign_in_again` | 1 user, seconds 0 to 2, 2 requests, fair | does every request end; is every token that was given out stored |
| `catalog` | 2 authors, 2 books, 2 names, 2 requests; everything with faults | are names distinct and credits whole; does the commit do what was answered, while others commit and fail; who can deadlock |
| `accounts` | 3 users, 2 names and 2 addresses with one string in common, 2 requests; everything with faults | are accounts distinct; is every refusal and internal error founded; who can deadlock |
| `serve` | 3 requests of every kind, 2 connections; faults, stop, kill | does a waiting request wait for one that can go on; does the log tell the answer |
| `serve_ends` | 3 requests for users, 2 connections, fair | does every request end |
| `upgrade` | 3 alembic runs, all versions, 3 constraints that rows may violate; faults | what is the schema at the head; can a failed run be repeated |
| `web` | 1 user, 2 tabs, 2 calls, 2 tokens; answers before commits, commits that fail | does the stored session work; what can make a tab throw it away; does a call wait for nothing |
| `taken` | the least instance that shows it | see *Disagreements* |

Why these are enough. A race over a row needs two requests; the third slot in
`sessions` lets one finish, or a third one see what the others did, while two are
in progress; in `remove` it makes a cycle of issue, return and cascade possible.
In `lend` two slots suffice, because what a third would have done before is in the
rows: 3 books against a limit of 2 are one loan too many, 2 copies are two issues
of one book by one user, and the last copy is still taken from under an issue. One user suffices for
sessions because no statement
of one user's requests reads or locks a row of another's. Two authors and two
books give renamings that exchange names, books of two authors, and an author
deleted under a book. Three users are a registration beside two accounts that
share a string or exchange their names. Three requests on two connections are one
that waits for the pool while one waits for the row; three migrations are an upgrade that
overtakes another, and a third that finds what they left. Two seconds are an equal
and a different second of
creation with `Lifetime` 1; three, in `sign_in_again`, let a token expire. Three
days let a loan become overdue while another is being made. Two tabs race for one
exchange, two calls share a refresh, and two tokens are the one exchanged and its
successor, or two logins. The proofs below
remove the bounds for the safety invariants.

`IInv` of a run is its type invariant with the strengthening that the proofs need,
and contains the named invariants of its module that are not listed by
themselves: `TypeOK` everywhere, `OneOpenLoanPerBook` in `Circulation`, `NoSessionWithoutUser` in `Sessions`, `UniqueNames`
and `CreditsExist` in `Catalog`, `UniqueAccounts` in `Accounts`.

What each property is about is in the comment above it. The ones that say most:

- `LoanLimit`, `CounterCoversLoans`: the limit is enforced on a counter before
  the loan exists, and the counter equals the number of open loans as long as no
  book is deleted.
- `NoLoanWhileOverdue`, `OneOpenLoanPerBook` (in `IInv`): the early checks of `issue_book`
  still hold when the loan is inserted.
- `ReturnAllOrNothing`: the result of `decrement_books_on_hand` is ignored by
  the code, and never needs to be looked at.
- `CopiesConserved`: copies change only by an edit or by the deletion of a user
  who holds one.
- `LimitRefusalDeserved`, `AllCopiesOnLoan`: the reason given for a refusal is read
  by a statement after the one that failed, and is true all the same, as long as no
  book is deleted (the limit) or no copies are edited or lost with a user (the shelf).
- `DeadlockNeedsReturnOrCascades`, `DeadlockNeedsDeletion`,
  `DeadlockNeedsTwoRenamings`, `DeadlockNeedsUpdate`: exactly which requests can be
  in a cycle of waits.
- `WorkGoesOn`: whoever waits, waits in the end for a request that can execute its
  next statement, or for one on a cycle that PostgreSQL breaks. Nobody waits for a
  lock that was forgotten, for a row that is gone or for a request that is over.
- `OneTokenForAnother`, `AnnouncedTokenIsSafe`: what a refresh verified four
  statements before still holds at its commit; a token announced early is nobody
  else's.
- `AnswersComeTrue`: after its answer nothing but a fault takes a request away from
  the commit that was promised; in `Catalog`, that names and linked authors are still
  there when it comes.
- `RefusalIsReal`: the complete list of reasons for the internal errors of
  registration, profile update and login.
- `HoldersGoOn`: nobody waits for the pool with a lock or a connection in hand,
  because all dependencies of a request share one session; with a session per
  dependency the pool would be a deadlock.
- `LogTellsAnswer`: an error after the answer, or one that is answered outside of
  the logging middleware, still leaves a trace in the log.
- `LatestIsDeclared`, `RepetitionDoesNotRepair`: an upgrade either reaches the
  declared schema or leaves something that running it again does not repair. The
  way out is by hand: drop the indexes that are there (or, after a downgrade that
  was cut short, create those that are not) and run again.
- `StoredTokenWorks`: the session in `localStorage` can be refreshed, now or as soon
  as its commit is done, with three exceptions: that commit failed, the answer with the
  successor is on its way to a tab, or it was lost.
- `OwnRefreshNeverRefused`: sharing `refreshPromise` is enough to keep a tab from using
  its token up twice. What remains is the race of two tabs, which does end the
  session, and a refresh that comes before the commit of its own token.
- `KeepsGoodSession`: the complete list of what clears a session that the server
  still honours, or will. Three of its five cases are worth knowing: the refusal of a
  tab that came second clears what the first has stored, so does an error of the
  server that is no refusal, and so does a refresh that is faster than the commit of
  the token it presents.

### Fairness

`FairSpec` assumes strong fairness of `Serve(r)` for every slot and weak fairness
of `DeadlockVictim(r)`. The event loop goes on with every accepted request.
Strong fairness is needed for statements that wait: a row may be locked again and
again between two looks of a waiter, but PostgreSQL queues the waiters of a row
and hands it to them in turn, so a statement that is enabled again and again is
executed. PostgreSQL looks for deadlocks whenever a wait lasts
(`deadlock_timeout`). Nothing is assumed of arrivals, faults, midnight or the
clock. `AnsweredLoanIsStored` and `AnsweredTokenIsStored` are stated for
instances without faults: a fault between answer and commit does lose the row.

In `Service` each request has weak fairness of its steps and strong fairness of
`LockRow`, for the same reasons; that a connection becomes free for everybody in the
end is not assumed, since the wait for the pool has a limit (`NoConnection`).

### Disagreements between the code and what it says

One run has to end in a violation of its one property:

- `taken`: the second of two registrations of one name that run side by side, and
  every profile update to a name that is taken, end as an internal error. The
  repository "Translates known IntegrityError constraints into domain conflicts"
  (`sqlalchemy_user_repository.py:26`), but looks for the names
  `users_username_key` and `users_email_key`, and the indexes are
  `ix_users_username` and `ix_users_email` (`models.py:45-46`).

The others have a configuration each that TLC ends with a violation in seconds,
and that are no part of the runs above (`tlc -config devices.cfg MCSessions`, and so on):

- `limit_message` (`MCCirculation`): `delete_book` removes the loans of a book by cascade and leaves
  `books_on_hand` of the borrowers; from then on they are refused with "You have
  reached the maximum number of books allowed for loan"
  (`src/domain/exceptions/loan.py:23`) with fewer loans than that
  (`LimitMessageIsTrue`; `LimitRefusalDeserved` is what is left of it).
- `devices` (`MCSessions`): two logins of one user in the same second make the same token; the
  second one meets the unique index and ends as an internal error, though the
  table is there for "multi-device sessions" (`models.py:68`).
- `log_out` (`MCSessions`): the login answers before it commits; a logout with that token
  finds no row, is answered with 204, and the token stays active, against
  "logout (server-side revocation)" (`models.py:66`).
- `no_author` (`MCCatalog`): `create_book` selects the authors twice and takes those that the
  second look finds; the book may be stored without an author, against
  `min_length=1` (`dtos/book/main.py:12`).
- `server_error` (`MCService`): a request that ends in an unexpected error is answered 500
  outside of the logging middleware, whose entry has status 0 and level info, against
  "only 5xx counts as a server error" (`middleware.py:101`).

Three more have no configuration of their own:
`delete_user` removes open loans without putting the copies back, so that others
are told "All copies of this book are currently on loan" (`loan.py:30`) when none
is (`CopiesConserved` names this case, and `AllCopiesOnLoan` holds without
deletions); a refresh answered after a logout stores a session again
(`Logout`, then `Renewed`); and a late 401 to another call starts a refresh with a
token that was just stored and whose row is not committed, is refused, and the
client clears a session that is good a moment later (`KeepsGoodSession` names it).

## The proofs

All theorems are of the form `Spec => []P`, or an action property or refinement
of the same `Spec`, for every value of the constants that the `ASSUME`s allow:
identities of different kinds are different, the limits are natural numbers,
the pool has a connection, and for the four modules of requests that the slots
are finite (each request occupies a connection of a bounded pool,
`database_manager.py:62`) and, except in `Sessions`, the identities of rows too (so
that they can be counted). TLC evaluates these assumptions in every run.

Safety invariants are not inductive by themselves: that an issue in
progress keeps a user within the limit depends on its having locked the user
several statements ago. Each module ends with the strengthening `IInv`, which
runs also check. It says, for the statement each slot has reached,
which rows it has locked and what is known about them (`SlotInv`, by operation:
`IssueInv`, `ReturnInv`, ...), that new rows are reserved once, and in `Catalog`
what the unique indexes guarantee while entries are in progress (`EntryInv`).

The argument is the same for `Circulation`, `Sessions`, `Catalog` and `Accounts`. A step of slot `r` leaves
the other slots alone (a frame lemma: it takes no lock from them, and changes no
row they have locked or reserved). A step that is not a commit writes no table and has
only to re-establish the `SlotInv` of `r`. A commit changes tables, and there the locks do the
work: the rows written are locked by `r`, so no other slot has claims on them.

| Module | Theorems |
|---|---|
| `CirculationProofs` | `InductiveInvariant`, `TypeCorrect`, `LoanLimitHolds`, `OneOpenLoanPerBookHolds`, `NoOrphanLoanHolds`, `ReturnAllOrNothingHolds`, `NoLoanWhileOverdueHolds`, `LoanHistoryHolds`, `CounterCoversLoansHolds`, `CopiesConservedHolds`, `LimitRefusalDeservedHolds`, `AllCopiesOnLoanHolds`, `AnswersComeTrueHolds`, `DeadlockNeedsReturnOrCascadesHolds`, `WorkGoesOnHolds`, `ImplementsLendingHolds` |
| `SessionsProofs` | `InductiveInvariant`, `TypeCorrect`, `NoSessionWithoutUserHolds`, `AnnouncedTokenIsSafeHolds`, `OneTokenForAnotherHolds`, `AnswersComeTrueHolds`, `DeadlockNeedsDeletionHolds`, `WorkGoesOnHolds`, `ImplementsTicketsHolds` |
| `CatalogProofs` | `InductiveInvariant`, `UniqueNamesHolds`, `CreditsExistHolds`, `AnswersComeTrueHolds`, `DeadlockNeedsTwoRenamingsHolds`, `WorkGoesOnHolds`, `ImplementsBibliographyHolds` |
| `AccountsProofs` | `InductiveInvariant`, `UniqueAccountsHolds`, `RefusalIsRealHolds`, `AnswersComeTrueHolds`, `DeadlockNeedsUpdateHolds`, `WorkGoesOnHolds`, `ImplementsDirectoryHolds` |
| `ServiceProofs` | `InductiveInvariant`, `LogTellsAnswerHolds`, `HoldersGoOnHolds` |
| `MigrationsProofs` | `InductiveInvariant`, `LatestIsDeclaredHolds`, `RepetitionDoesNotRepairHolds` |
| `WebClientProofs` | `InductiveInvariant`, `StoredTokenWorksHolds`, `OwnRefreshNeverRefusedHolds`, `NobodyWaitsInVainHolds`, `KeepsGoodSessionHolds`, `MeetsTicketsHolds` |

In `WebClient` the strengthening says of the server that what a pending transaction
will commit is still to be done: its old token is valid, its new one has no row, and
no two of them share either (`PendingInv`). Of the client it says that a refresh in
progress is the one its tab's `refreshPromise` names (`PromiseInv`, `CallInv`), that
the exchange a call was told of is made or pending (`RenewedInv`), and that a token on
its way to the browser is valid, announced or lost, is locked by nobody, and was
seen by nobody (`SecretInv`): neither stored, nor presented, nor in a logout. So the
step that stores it stores a token that works as soon as its commit is done, if that
does not fail, and the token a tab finds when it begins a refresh was not exchanged
for that tab. The safety properties of `web` follow; no bound on tokens remains.

`DeadlockNeedsUpdateHolds` rests on `WaitedFor`: whoever is waited for waits for
nobody, is a profile update, or is a registration that has come to the second index.
So there is an update within two waits of a request on a cycle, and it is on that
cycle itself (`BlockedIsDeadlocked`).

In `Service` the places tell everything: who has a connection or the row
(`PlaceInv`), which error is on its way (`OutcomeInv`), what the middleware and the
client have seen (`AnswerInv`) and which entries there are (`LogInv`). `HoldersGoOn`
follows because nobody who is `connecting` has anything.

In `Migrations` the transactional objects agree with the version at every step, and
the indexes of the last revision are always a prefix of their list (`PrefixInv`),
because the upgrade adds at one end and the downgrade takes away from it. At most
one run is past its first index (`Inside`), since a second one finds that index
there. So the run that reaches the head has built all five itself.

The deadlock theorems of the other modules have the same form. An auxiliary
invariant says what a request may hold while it waits (`HeldInv` in `Circulation`
and `Sessions`, `LockInv` in `Catalog`), `WaitedFor` says what that makes of the
request waited for, and a set of requests closed under waiting without the one
in question shows that there is no circle. In `Circulation` a request that waits
for an issue waits for one that is further on in the order user, book; in
`Sessions` a refresh locks its old token before its new one, and new ones come
later; in `Catalog` only a renaming waits at an index while it holds a row.

The commits of `Circulation` are described row by row (`CommitIssueEffect`,
`CommitReturnEffect`, `CommitDeleteEffect`), and four kinds of step write tables
(`TablesChangeByCommit`). `CounterCoversLoansHolds` and `CopiesConservedHolds`
count what they do to the open loans of a user and of a book; where no book is
deleted the counter is exact (`ExactInv`). `ImplementsLendingHolds` maps each of
them to its step of `Lending`: the limit there is on books, here on the counter,
and `BooksOfBound` relates them by the map from a user's open loans onto the books.

`LimitRefusalDeservedHolds` and `AllCopiesOnLoanHolds` use the same counting: without
deletions of books the counter is the number of open loans (`ExactInv`), without
edits and deletions of users shelf and loans add up to the stock (`StockInv`).

`MeetsTicketsHolds` and `ImplementsTicketsHolds` join the two sides of a session at
`Tickets`: whatever the browser and the network do, and whichever commits come late or
fail, the rows of `WebClient` take a step of that specification or none, and those of
`Sessions` do the same. In `WebClient` the guards of `Tickets` are met when an answer is
given and needed when it is committed, after any number of other steps; `PendingInv`
bridges the two.

`WorkGoesOnHolds` is the safety part of `EveryRequestEnds`, in the four modules of
requests. `Ready(r)` is the guard of `Serve(r)`. Module `Waits` has the argument about
sets: a finite set that contains whom its members wait for has a smallest
non-empty such subset, which is one request that waits for nobody, or requests on
a cycle (`WaitsEnd`). What remains is about the code: a request that waits for
nobody is ready (`NobodyInTheWay`). For that a lock must be held by a request in
progress (`HoldersAreBusy`), what a request waits for must still be there (in
`Sessions` the user whose row is locked, in `Catalog` an author that is left to be
linked), and a bounded supply of row identities must last: a request that inserts
one begins only when one is left for it, and nobody takes that away
(`EnoughLoans`, `EnoughRows`).

`AnswersComeTrueHolds` is in the same way the safety part of `AnsweredLoanIsStored` and
`AnsweredTokenIsStored`, for every request of the four modules and with faults. A
request that has answered waits for nobody, so no deadlock can abort it
(`LeavesAnswered`); it leaves that state by its commit or by a fault, and the locks and
entries it has (`SlotInv`) keep what it is about to do possible: the new row is
still unused, the loan open, the name free, the token active. A logout that found
no row promises nothing (`log_out` above). The run `catalog` checks it; in the other
three modules it was checked on the instances of `lend`, `remove`, `sessions` and
`accounts` before it was proved.

Only model-checked: liveness under fairness, which is out of the prover's reach, and
with it what `WorkGoesOnHolds` and `AnswersComeTrueHolds` leave to fairness: that the
step which can be taken is taken in the end. That `Ready(r)` is
`ENABLED Serve(r)` is read off the actions; TLC found the two equal in every
reachable state of the instances `remove`, `sessions`, `catalog` and `accounts`, but
no run states it, because the equality says nothing about the code.

## What is not modelled

- Reads and lists (`GET`): they change nothing. Paging is in the plan.
- Fields no property is about: biography, birth and publication dates, genres,
  full names, the administrator flag. A date that validation refuses ends a request
  before its first statement and is the same as no request.
- Password hashing, signatures and claims other than subject, issue time and
  expiry: a call of a library without state. A wrong password or malformed token
  ends in the refusal that is modelled for an unknown user or row.
- Access tokens: the server does not store them and cannot revoke them; in
  `WebClient` they are part of the session.
- Settings, formatting and rotation of logs, the figures of the health endpoint: no
  state that changes after start.
- Definitions of indexes and checks in `Migrations`, beyond their names and what
  rows may violate; `alembic --sql` (offline mode).
- The loan list and the edit form of the web client: answers change the list in the
  order they come back, and the form writes back the copies it was loaded with.
  Nothing in the client guards either, so there is nothing it promises; what they
  get wrong reaches the server as a request that `Circulation` has.
- The queue inside the connection pool: who is served first, and when a wait is
  given up, is left open.
- A request over two midnights: `Midnight` waits for the issues that began the day before.

## Plan

Done, in the order of importance: `Circulation` with `Lending`, `Sessions` with
`Tickets`, `Catalog` with `Bibliography`, the sessions of `WebClient`, `Accounts`
with `Directory`, `Service`, `Migrations`, their runs, invariants and proofs.

All safety properties and refinements that the runs check are proved. Left: paging of
the loan and book lists under concurrent changes.
