---------------------------- MODULE Circulation ----------------------------
(***************************************************************************)
(* Book checkout and return: BookUseCases.issue_book and return_book, the  *)
(* deletion of users and books, and the administrator's change of a book's *)
(* available copies, each a request served by one database transaction.    *)
(*                                                                         *)
(* A request runs one SQL statement per action, so statements of different *)
(* requests interleave in every order.  The database is PostgreSQL at READ *)
(* COMMITTED as the code uses it (one session per request, committed at    *)
(* the end, src/dependencies/database.py:39-50):                           *)
(*   - the variables users, books and book_loans are the COMMITTED rows;   *)
(*   - an UPDATE, DELETE or cascade locks its row until the transaction    *)
(*     ends (lock), waits while another one holds it, and evaluates its    *)
(*     WHERE clause on the committed row once it has the lock;             *)
(*   - a row a transaction has written cannot change under it, so what it  *)
(*     wrote is determined by the row and the locks it holds, and becomes  *)
(*     visible to the others in the Commit action;                         *)
(*   - a cycle of waits is broken by aborting one of the transactions.     *)
(***************************************************************************)
EXTENDS Integers, FiniteSets

CONSTANTS
  Users, Books, Loans,  \* identities of rows; Loans bounds the loans ever made
  Requests,             \* slots for requests in progress at the same time
  None,                 \* no row, no holder, nothing to answer yet
  MaxBooksOnHand,       \* MAX_BOOKS_ON_HAND
  LoanDays,             \* DEFAULT_LOAN_DAYS
  Stock,                \* copies of each book in the library to begin with
  MaxCopies,            \* bound on the copies an administrator may set
  LastDay,              \* bound on the calendar
  Events                \* the kinds of event of this instance (see EventKinds)

EventKinds == {"issue", "return", "delete_user", "delete_book", "set_copies",
               "fault", "midnight"}

\* The answers of a request that fails.
Refusals == {"LoanOverdue", "AlreadyBorrowingBook", "LoanLimitExceeded", "UserNotFound",
             "NoAvailableInstances", "ConcurrencyConflict", "BookNotFound",
             "LoanNotFound", "AlreadyReturned", "InternalServerError"}

Rows == Users \cup Books \cup Loans

ASSUME DistinctIdentities ==
  /\ Users \cap Books = {} /\ Users \cap Loans = {} /\ Books \cap Loans = {}
  /\ None \notin Rows \cup Requests \cup EventKinds \cup Refusals
ASSUME FiniteRows == IsFiniteSet(Users) /\ IsFiniteSet(Books) /\ IsFiniteSet(Loans)
ASSUME FiniteRequests == IsFiniteSet(Requests)
ASSUME Limits ==
  /\ MaxBooksOnHand \in Nat \ {0} /\ LoanDays \in Nat \ {0}
  /\ LastDay \in Nat /\ MaxCopies \in Nat
  /\ Stock \in [Books -> Nat] /\ Events \subseteq EventKinds

VARIABLES
  today,       \* the UTC date
  users,       \* users table: does the row exist, and its books_on_hand
  books,       \* books table: does the row exist, and its available_instances
  book_loans,  \* book_loans table; a deleted row is "gone" (ids are never reused)
  pc,          \* the statement each request executes next
  req,         \* parameters and local variables of each request
  reply,       \* the answer its client has got, None until then
  lock         \* the request whose transaction holds each row's lock, or None

vars == <<today, users, books, book_loans, pc, req, reply, lock>>
tables == <<users, books, book_loans>>

Request(op, user, book, loan, as_of, copies) ==
  [op |-> op, user |-> user, book |-> book, loan |-> loan, as_of |-> as_of, copies |-> copies]

NoRequest == Request(None, None, None, None, 0, 0)

Statements == {"has_overdue_loans", "has_open_loan", "increment", "get_user",
               "take", "get_book", "create_loan",
               "get_loan", "mark_returned", "return_instance", "decrement",
               "delete_user", "delete_book", "cascade", "update_book"}

Ops == EventKinds \ {"fault", "midnight"}

RequestType == [op : Ops \cup {None}, user : Users \cup {None}, book : Books \cup {None},
                loan : Loans \cup {None}, as_of : 0 .. LastDay, copies : 0 .. MaxCopies]

LoanRow == [status : {"none", "open", "returned", "gone"},
            user : Users \cup {None}, book : Books \cup {None}, due : Nat]

NoLoan == [status |-> "none", user |-> None, book |-> None, due |-> 0]

TypeOK ==
  /\ today \in 0 .. LastDay
  /\ users \in [Users -> [live : BOOLEAN, books_on_hand : Nat]]
  /\ books \in [Books -> [live : BOOLEAN, available : Nat]]
  /\ book_loans \in [Loans -> LoanRow]
  /\ pc \in [Requests -> Statements \cup {"idle", "answered", "closed"}]
  /\ req \in [Requests -> RequestType]
  /\ reply \in [Requests -> Refusals \cup {None, "ok"}]
  /\ lock \in [Rows -> Requests \cup {None}]

-----------------------------------------------------------------------------
(* What the statements read, and what they change. *)

Stored(l) == book_loans[l].status \in {"open", "returned"}
Open(l) == book_loans[l].status = "open"

OpenLoansOf(u) == {l \in Loans : Open(l) /\ book_loans[l].user = u}
OpenLoansOn(b) == {l \in Loans : Open(l) /\ book_loans[l].book = b}
OpenLoansFor(u, b) == OpenLoansOf(u) \cap OpenLoansOn(b)

\* has_overdue_loans counts the days wrongly: a book due today blocks nothing,
\* and neither does one due yesterday.
OverdueLoans_DayLate(u, day) == {l \in OpenLoansOf(u) : book_loans[l].due + 1 < day}

\* WHERE user_id = u AND returned_at IS NULL AND due_date < as_of
OverdueLoans(u, day) == {l \in OpenLoansOf(u) : book_loans[l].due < day}

Locked(r, row) == lock[row] = r
Unlocked(row) == lock[row] = None
Lock(r, row) == lock' = [lock EXCEPT ![row] = r]

\* A session that goes back to the pool without the end of its transaction.
LocksWithout_Leak(r) == lock

LocksWithout(r) == [row \in Rows |-> IF Locked(r, row) THEN None ELSE lock[row]]

\* UPDATE ... WHERE id = u AND books_on_hand < max: the bound off by one.
CanIncrement_OffByOne(u) == users[u].live /\ users[u].books_on_hand <= MaxBooksOnHand

\* UPDATE users ... WHERE id = u AND books_on_hand < max_books_on_hand
CanIncrement(u) == users[u].live /\ users[u].books_on_hand < MaxBooksOnHand

\* take_available_instance without available_instances > 0 in its WHERE clause
\* (and without the CHECK constraint behind it).
CanTake_Unguarded(b) == books[b].live

\* UPDATE books ... WHERE id = b AND available_instances > 0
CanTake(b) == books[b].live /\ books[b].available > 0

\* UPDATE book_loans ... WHERE id = l AND returned_at IS NULL
CanMark(l) == Open(l)

\* UPDATE users ... WHERE id = u AND books_on_hand > 0
CanDecrement(u) == users[u].live /\ users[u].books_on_hand > 0

\* The loans that ON DELETE CASCADE removes with the user or book being deleted.
Cascaded(r) ==
  {l \in Loans : Stored(l) /\ (book_loans[l].user = req[r].user \/ book_loans[l].book = req[r].book)}

\* The rows the next statement of r has to lock, as the tables are now.
Wanted(r) ==
  CASE pc[r] = "increment" /\ CanIncrement(req[r].user) -> {req[r].user}
    [] pc[r] = "take" /\ CanTake(req[r].book) -> {req[r].book}
    [] pc[r] = "create_loan" -> OpenLoansFor(req[r].user, req[r].book)
    [] pc[r] = "mark_returned" /\ CanMark(req[r].loan) -> {req[r].loan}
    [] pc[r] = "return_instance" /\ books[req[r].book].live -> {req[r].book}
    [] pc[r] = "decrement" /\ CanDecrement(req[r].user) -> {req[r].user}
    [] pc[r] = "delete_user" /\ users[req[r].user].live -> {req[r].user}
    [] pc[r] \in {"delete_book", "update_book"} /\ books[req[r].book].live -> {req[r].book}
    [] pc[r] = "cascade" -> Cascaded(r)
    [] OTHER -> {}

WaitsFor(r) == {lock[row] : row \in Wanted(r)} \ {None, r}

\* r is on a cycle of the waits-for relation: every set of requests that holds
\* those r waits for, and those its own members wait for, holds r itself.
Deadlocked(r) ==
  \A S \in SUBSET Requests :
    WaitsFor(r) \subseteq S /\ (\A s \in S : WaitsFor(s) \subseteq S) => r \in S

-----------------------------------------------------------------------------
(* Ways in which any request goes on. *)

Goto(r, statement) == pc' = [pc EXCEPT ![r] = statement]

At(r, statement) == pc[r] = statement

\* A request comes in with its parameters.
Begin(r, statement, parameters) ==
  /\ At(r, "idle") /\ Goto(r, statement)
  /\ req' = [req EXCEPT ![r] = parameters]
  /\ UNCHANGED <<today, tables, reply, lock>>

\* A statement that reads and goes on to another one.
Continue(r, statement) ==
  /\ Goto(r, statement)
  /\ UNCHANGED <<today, tables, req, reply, lock>>

\* The handler raises: the session is rolled back, then the client gets the error.
Refuse(r, error) ==
  /\ Goto(r, "closed")
  /\ reply' = [reply EXCEPT ![r] = error]
  /\ lock' = LocksWithout(r)
  /\ UNCHANGED <<today, tables, req>>

\* A statement that writes row, once its lock is granted.
Write(r, row, statement) ==
  /\ lock[row] \in {None, r} /\ Lock(r, row)
  /\ Goto(r, statement)
  /\ UNCHANGED <<today, tables, req, reply>>

\* The handler returns.  FastAPI sends the response before it resumes the
\* session dependency, whose next line is the commit.
Answer(r) == Goto(r, "answered") /\ reply' = [reply EXCEPT ![r] = "ok"]

\* The transaction ends and the slot is free for another request.
Finish(r) ==
  /\ Goto(r, "idle")
  /\ req' = [req EXCEPT ![r] = NoRequest]
  /\ reply' = [reply EXCEPT ![r] = None]
  /\ lock' = LocksWithout(r)
  /\ UNCHANGED today

-----------------------------------------------------------------------------
(* POST /books/{id}/issue *)

UnusedLoans == {l \in Loans : book_loans[l].status = "none" /\ \A s \in Requests : req[s].loan # l}

\* get_current_user has found the user; issue_book takes today's date.
BeginIssue(r, u, b) ==
  /\ "issue" \in Events /\ users[u].live
  /\ Cardinality(UnusedLoans) >
       Cardinality({s \in Requests : req[s].op = "issue" /\ req[s].loan = None})
  /\ Begin(r, "has_overdue_loans", Request("issue", u, b, None, today, 0))

HasOverdueLoans(r) ==
  /\ At(r, "has_overdue_loans")
  /\ IF OverdueLoans(req[r].user, req[r].as_of) # {}
       THEN Refuse(r, "LoanOverdue")
       ELSE Continue(r, "has_open_loan")

HasOpenLoanForBook(r) ==
  /\ At(r, "has_open_loan")
  /\ IF OpenLoansFor(req[r].user, req[r].book) # {}
       THEN Refuse(r, "AlreadyBorrowingBook")
       ELSE Continue(r, "increment")

IncrementBooksOnHand(r) ==
  /\ At(r, "increment")
  /\ \/ CanIncrement(req[r].user) /\ Write(r, req[r].user, "take")
     \/ ~CanIncrement(req[r].user) /\ Continue(r, "get_user")

GetUser(r) ==
  /\ At(r, "get_user")
  /\ Refuse(r, IF users[req[r].user].live THEN "LoanLimitExceeded" ELSE "UserNotFound")

\* The copy is not reserved: the take goes ahead without the lock on the book.
TakeAvailableInstance_NoLock(r) ==
  /\ At(r, "take")
  /\ Continue(r, IF CanTake(req[r].book) THEN "create_loan" ELSE "get_book")

TakeAvailableInstance(r) ==
  /\ At(r, "take")
  /\ \/ CanTake(req[r].book) /\ Write(r, req[r].book, "create_loan")
     \/ ~CanTake(req[r].book) /\ Continue(r, "get_book")

GetBook(r) ==
  LET book == books[req[r].book] IN
  /\ At(r, "get_book")
  /\ Refuse(r, IF ~book.live THEN "BookNotFound"
               ELSE IF book.available <= 0 THEN "NoAvailableInstances"
               ELSE "ConcurrencyConflict")

\* INSERT INTO book_loans without the unique index on open loans.
CreateLoan_NoUniqueIndex(r) ==
  /\ At(r, "create_loan")
  /\ \E l \in UnusedLoans : req' = [req EXCEPT ![r].loan = l]
  /\ Answer(r) /\ UNCHANGED <<today, tables, lock>>

\* INSERT INTO book_loans.  The unique index on open loans of a user and book
\* makes it wait for a transaction that is closing such a loan, and fail while
\* there is one; that IntegrityError is not translated to a domain error.
CreateLoan(r) ==
  LET duplicates == OpenLoansFor(req[r].user, req[r].book) IN
  /\ At(r, "create_loan")
  /\ \A l \in duplicates : lock[l] = None
  /\ IF duplicates # {}
       THEN Refuse(r, "InternalServerError")
       ELSE /\ \E l \in UnusedLoans : req' = [req EXCEPT ![r].loan = l]
            /\ Answer(r) /\ UNCHANGED <<today, tables, lock>>

Committing(r, op) == At(r, "answered") /\ req[r].op = op

\* get_session without its commit: everything the request wrote is lost.
CommitIssue_NeverCommitted(r) ==
  /\ Committing(r, "issue") /\ Finish(r) /\ UNCHANGED tables

CommitIssue(r) ==
  LET u == req[r].user b == req[r].book IN
  /\ Committing(r, "issue")
  /\ users' = [users EXCEPT ![u].books_on_hand = @ + 1]
  /\ books' = [books EXCEPT ![b].available = @ - 1]
  /\ book_loans' = [book_loans EXCEPT ![req[r].loan] =
       [status |-> "open", user |-> u, book |-> b, due |-> req[r].as_of + LoanDays]]
  /\ Finish(r)

-----------------------------------------------------------------------------
(* POST /books/loans/{id}/return *)

\* A client knows the loans it has been told of, whether or not they are
\* committed yet, and those it has read from the database.
KnownLoans ==
  {l \in Loans : book_loans[l].status # "none"} \cup
  {req[s].loan : s \in {q \in Requests : Committing(q, "issue")}}

BeginReturn(r, l) ==
  /\ "return" \in Events /\ l \in KnownLoans
  /\ Begin(r, "get_loan", Request("return", None, None, l, 0, 0))

GetLoanById(r) ==
  LET loan == book_loans[req[r].loan] IN
  /\ At(r, "get_loan")
  /\ \/ ~Stored(req[r].loan) /\ Refuse(r, "LoanNotFound")
     \/ loan.status = "returned" /\ Refuse(r, "AlreadyReturned")
     \/ /\ loan.status = "open"
        /\ req' = [req EXCEPT ![r].user = loan.user, ![r].book = loan.book]
        /\ Goto(r, "mark_returned")
        /\ UNCHANGED <<today, tables, reply, lock>>

\* mark_loan_returned that relies on the check made when the loan was read.
MarkLoanReturned_NoRecheck(r) ==
  /\ At(r, "mark_returned")
  /\ Write(r, req[r].loan, "return_instance")

MarkLoanReturned(r) ==
  /\ At(r, "mark_returned")
  /\ \/ CanMark(req[r].loan) /\ Write(r, req[r].loan, "return_instance")
     \/ ~CanMark(req[r].loan) /\ Refuse(r, "ConcurrencyConflict")

ReturnInstance(r) ==
  /\ At(r, "return_instance")
  /\ \/ books[req[r].book].live /\ Write(r, req[r].book, "decrement")
     \/ ~books[req[r].book].live /\ Refuse(r, "BookNotFound")

\* The result is ignored: the handler returns whether or not a row was updated.
DecrementBooksOnHand(r) ==
  LET u == req[r].user IN
  /\ At(r, "decrement")
  /\ \/ CanDecrement(u) /\ lock[u] \in {None, r} /\ Lock(r, u)
     \/ ~CanDecrement(u) /\ UNCHANGED lock
  /\ Answer(r) /\ UNCHANGED <<today, tables, req>>

\* return_book without its return_instance.
CommitReturn_KeepCopy(r) ==
  LET u == req[r].user IN
  /\ Committing(r, "return")
  /\ book_loans' = [book_loans EXCEPT ![req[r].loan].status = "returned"]
  /\ users' = IF Locked(r, u) THEN [users EXCEPT ![u].books_on_hand = @ - 1] ELSE users
  /\ UNCHANGED books
  /\ Finish(r)

\* return_book without its decrement_books_on_hand.
CommitReturn_KeepCounter(r) ==
  /\ Committing(r, "return")
  /\ book_loans' = [book_loans EXCEPT ![req[r].loan].status = "returned"]
  /\ books' = [books EXCEPT ![req[r].book].available = @ + 1]
  /\ UNCHANGED users
  /\ Finish(r)

CommitReturn(r) ==
  LET u == req[r].user IN
  /\ Committing(r, "return")
  /\ book_loans' = [book_loans EXCEPT ![req[r].loan].status = "returned"]
  /\ books' = [books EXCEPT ![req[r].book].available = @ + 1]
  /\ users' = IF Locked(r, u) THEN [users EXCEPT ![u].books_on_hand = @ - 1] ELSE users
  /\ Finish(r)

-----------------------------------------------------------------------------
(* DELETE /users/me, /users/{id} and /books/{id}, PATCH /books/{id} with new copies *)

BeginDeleteUser(r, u) ==
  /\ "delete_user" \in Events
  /\ Begin(r, "delete_user", Request("delete_user", u, None, None, 0, 0))

BeginDeleteBook(r, b) ==
  /\ "delete_book" \in Events
  /\ Begin(r, "delete_book", Request("delete_book", None, b, None, 0, 0))

BeginSetCopies(r, b, n) ==
  /\ "set_copies" \in Events
  /\ Begin(r, "update_book", Request("set_copies", None, b, None, 0, n))

DeleteUser(r) ==
  /\ At(r, "delete_user")
  /\ \/ users[req[r].user].live /\ Write(r, req[r].user, "cascade")
     \/ ~users[req[r].user].live /\ Refuse(r, "UserNotFound")

DeleteBook(r) ==
  /\ At(r, "delete_book")
  /\ \/ books[req[r].book].live /\ Write(r, req[r].book, "cascade")
     \/ ~books[req[r].book].live /\ Refuse(r, "BookNotFound")

\* The foreign keys' cascade deletes the loans of the row one after the other,
\* each when its lock is free, in no order the code could rely on.
CascadeToLoan(r, l) ==
  /\ At(r, "cascade") /\ l \in Cascaded(r) /\ Unlocked(l)
  /\ Lock(r, l) /\ UNCHANGED <<today, tables, pc, req, reply>>

\* The cascade stops before the last of the loans.
CascadeDone_LeaveOne(r) ==
  /\ At(r, "cascade") /\ Cardinality({l \in Cascaded(r) : ~Locked(r, l)}) <= 1
  /\ Answer(r) /\ UNCHANGED <<today, tables, req, lock>>

CascadeDone(r) ==
  /\ At(r, "cascade") /\ \A l \in Cascaded(r) : Locked(r, l)
  /\ Answer(r) /\ UNCHANGED <<today, tables, req, lock>>

\* The copies lent to a deleted user do not go back to the shelf, and a deleted
\* book leaves the counters of the users who hold it as they are.
CommitDelete(r) ==
  /\ Committing(r, "delete_user") \/ Committing(r, "delete_book")
  /\ users' = IF req[r].op = "delete_book" THEN users
              ELSE [users EXCEPT ![req[r].user] = [live |-> FALSE, books_on_hand |-> 0]]
  /\ books' = IF req[r].op = "delete_user" THEN books
              ELSE [books EXCEPT ![req[r].book] = [live |-> FALSE, available |-> 0]]
  /\ book_loans' = [l \in Loans |-> IF l \in Cascaded(r) /\ Locked(r, l)
                                      THEN [book_loans[l] EXCEPT !.status = "gone"]
                                      ELSE book_loans[l]]
  /\ Finish(r)

UpdateBook(r) ==
  /\ At(r, "update_book")
  /\ \/ books[req[r].book].live /\ Lock(r, req[r].book) /\ Unlocked(req[r].book)
        /\ Answer(r) /\ UNCHANGED <<today, tables, req>>
     \/ ~books[req[r].book].live /\ Refuse(r, "BookNotFound")

CommitSetCopies(r) ==
  /\ Committing(r, "set_copies")
  /\ books' = [books EXCEPT ![req[r].book].available = req[r].copies]
  /\ UNCHANGED <<users, book_loans>>
  /\ Finish(r)

-----------------------------------------------------------------------------
(* The rest of a request's life, and the environment. *)

\* The client has read the error.
Close(r) ==
  /\ At(r, "closed") /\ Finish(r) /\ UNCHANGED tables

Running(r) == pc[r] \notin {"idle", "closed"}

\* The database connection or the process goes down: the transaction is rolled
\* back, and a client that was not answered before gets a server error.
Fault(r) ==
  /\ "fault" \in Events /\ Running(r)
  /\ IF At(r, "answered") THEN Finish(r) /\ UNCHANGED tables
                          ELSE Refuse(r, "InternalServerError")

\* PostgreSQL aborts a transaction of a cycle of waits; its error is not
\* translated by the repositories.
DeadlockVictim(r) == Deadlocked(r) /\ Refuse(r, "InternalServerError")

\* A request spans one midnight at most (the bound on a request's duration).
Midnight ==
  /\ "midnight" \in Events /\ today < LastDay
  /\ \A r \in Requests : req[r].op = "issue" => req[r].as_of = today
  /\ today' = today + 1
  /\ UNCHANGED <<tables, pc, req, reply, lock>>

Init ==
  /\ today = 0
  /\ users = [u \in Users |-> [live |-> TRUE, books_on_hand |-> 0]]
  /\ books = [b \in Books |-> [live |-> TRUE, available |-> Stock[b]]]
  /\ book_loans = [l \in Loans |-> NoLoan]
  /\ pc = [r \in Requests |-> "idle"]
  /\ req = [r \in Requests |-> NoRequest]
  /\ reply = [r \in Requests |-> None]
  /\ lock = [row \in Rows |-> None]

Arrive(r) ==
  \/ \E u \in Users, b \in Books : BeginIssue(r, u, b)
  \/ \E l \in Loans : BeginReturn(r, l)
  \/ \E u \in Users : BeginDeleteUser(r, u)
  \/ \E b \in Books : BeginDeleteBook(r, b)
  \/ \E b \in Books, n \in 0 .. MaxCopies : BeginSetCopies(r, b, n)

\* One step of the work on request r.
Serve(r) ==
  \/ HasOverdueLoans(r) \/ HasOpenLoanForBook(r) \/ IncrementBooksOnHand(r) \/ GetUser(r)
  \/ TakeAvailableInstance(r) \/ GetBook(r) \/ CreateLoan(r) \/ CommitIssue(r)
  \/ GetLoanById(r) \/ MarkLoanReturned(r) \/ ReturnInstance(r) \/ DecrementBooksOnHand(r)
  \/ CommitReturn(r)
  \/ DeleteUser(r) \/ DeleteBook(r) \/ (\E l \in Loans : CascadeToLoan(r, l)) \/ CascadeDone(r)
  \/ CommitDelete(r) \/ UpdateBook(r) \/ CommitSetCopies(r)
  \/ Close(r)

Next ==
  \/ \E r \in Requests : Arrive(r) \/ Serve(r) \/ Fault(r) \/ DeadlockVictim(r)
  \/ Midnight

Spec == Init /\ [][Next]_vars

\* The server goes on with every request it has accepted.  A statement that
\* waits for a row is not passed over for ever, because PostgreSQL queues the
\* transactions that wait for a lock; and it looks for deadlocks.
FairSpec ==
  Spec /\ \A r \in Requests : SF_vars(Serve(r)) /\ WF_vars(DeadlockVictim(r))

-----------------------------------------------------------------------------
(* Safety *)

\* No interleaving of issues, returns and deletions gives a user more open
\* loans than MAX_BOOKS_ON_HAND: the conditional increment, made before the loan
\* exists, bounds the loans through the counter (book_use_cases.py:107-115).
LoanLimit ==
  \A u \in Users : Cardinality(OpenLoansOf(u)) <= MaxBooksOnHand

\* books_on_hand never falls below the number of the user's open loans, and it
\* equals it as long as no book is deleted: three statements of two handlers
\* keep a counter and a set of rows in step (book_use_cases.py:107,127,137,145).
CounterCoversLoans ==
  \A u \in Users : users[u].live =>
    /\ users[u].books_on_hand >= Cardinality(OpenLoansOf(u))
    /\ "delete_book" \notin Events => users[u].books_on_hand = Cardinality(OpenLoansOf(u))

\* A user has at most one open loan of a book, although issue_book looks for one
\* in a statement of its own before it locks anything (book_use_cases.py:104).
OneOpenLoanPerBook ==
  \A k, l \in Loans :
    Open(k) /\ Open(l) /\ book_loans[k].user = book_loans[l].user
            /\ book_loans[k].book = book_loans[l].book => k = l

\* No loan outlives its user or its book: an issue in progress never inserts a
\* loan for a row whose deletion has passed it (models.py:173-184).
NoOrphanLoan ==
  \A l \in Loans : Stored(l) =>
    users[book_loans[l].user].live /\ books[book_loans[l].book].live

\* A return that closes a loan also puts the copy back and lowers the counter:
\* it never ends as BookNotFound, and its decrement, whose result nobody looks
\* at, always finds a row (book_use_cases.py:141-145).
ReturnAllOrNothing ==
  \A r \in Requests : req[r].op = "return" =>
    /\ reply[r] # "BookNotFound"
    /\ At(r, "answered") => Locked(r, req[r].user) /\ Locked(r, req[r].book)

\* Requests wait for each other in a circle only if one of them is a return
\* holding its loan, or two are deletions whose cascades meet: issues alone
\* always lock a user before a book (book_use_cases.py:107,117).
DeadlockNeedsReturnOrCascades ==
  (\E r \in Requests : Deadlocked(r)) =>
    \/ \E s \in Requests : pc[s] \in {"return_instance", "decrement"}
    \/ \E s, t \in Requests : s # t /\ At(s, "cascade") /\ At(t, "cascade")

\* The next statement of r can be executed: the guard of Serve(r).
Ready(r) ==
  LET u == req[r].user b == req[r].book
      Free(row) == lock[row] \in {None, r} IN
  CASE At(r, "idle") -> FALSE
    [] At(r, "increment") -> CanIncrement(u) => Free(u)
    [] At(r, "take") -> CanTake(b) => Free(b)
    [] At(r, "create_loan") -> IF OpenLoansFor(u, b) = {} THEN UnusedLoans # {}
                               ELSE \A l \in OpenLoansFor(u, b) : Unlocked(l)
    [] At(r, "mark_returned") -> CanMark(req[r].loan) => Free(req[r].loan)
    [] At(r, "return_instance") \/ At(r, "delete_book") -> books[b].live => Free(b)
    [] At(r, "decrement") -> CanDecrement(u) => Free(u)
    [] At(r, "delete_user") -> users[u].live => Free(u)
    [] At(r, "update_book") -> books[b].live => Unlocked(b)
    [] At(r, "cascade") -> \/ \E l \in Cascaded(r) : Unlocked(l)
                           \/ \A l \in Cascaded(r) : Locked(r, l)
    [] OTHER -> TRUE

\* No request is held up for nothing: among those it waits for, directly or
\* through others, there is one whose next statement can be executed, or one on
\* a circle of waits, which PostgreSQL breaks.  Every way out of a handler gives
\* back its locks (dependencies/database.py:39-50).
WorkGoesOn ==
  \A r \in Requests, S \in SUBSET Requests :
    ~At(r, "idle") /\ r \in S /\ (\A s \in S : WaitsFor(s) \subseteq S)
      => \E s \in S : Ready(s) \/ Deadlocked(s)

-----------------------------------------------------------------------------
(* What a step may never do *)

Copies(b) == books[b].available + Cardinality(OpenLoansOn(b))

\* The copies of a book (on the shelf and on loan) change only when an
\* administrator's edit of that book commits, or when a user is deleted who
\* holds one, however many issues, returns and aborts are in progress.
CopiesConserved ==
  [][\A b \in Books : books[b].live /\ books'[b].live /\ Copies(b)' # Copies(b) =>
       \E r \in Requests :
         \/ Committing(r, "set_copies") /\ req[r].book = b /\ At(r, "idle")'
         \/ Committing(r, "delete_user") /\ OpenLoansFor(req[r].user, b) # {} /\ At(r, "idle")']_vars

\* No loan is made for a user with a loan that was overdue on the day of the
\* request: the check precedes the insert by four statements, and the loans of
\* the same user made in between are not overdue yet (book_use_cases.py:101).
NoLoanWhileOverdue ==
  [][\A k, l \in Loans :
       Open(k) /\ ~Open(l) /\ Open(l)' /\ book_loans'[l].user = book_loans[k].user
         => book_loans[k].due >= book_loans'[l].due - LoanDays]_vars

\* A loan's history only goes forward: a closed loan is never open again and a
\* deleted one never comes back, whichever requests still hold its id.
LoanHistory ==
  [][\A l \in Loans : book_loans'[l].status # book_loans[l].status =>
       <<book_loans[l].status, book_loans'[l].status>> \in
         {<<"none", "open">>, <<"open", "returned">>, <<"open", "gone">>,
          <<"returned", "gone">>}]_vars

\* If the limit stops r, its user has that many loans open.
LimitIsReached(r) ==
  At(r, "increment") /\ At(r, "get_user")' =>
    ~users[req[r].user].live \/ Cardinality(OpenLoansOf(req[r].user)) = MaxBooksOnHand

\* A user is turned away at the limit only with that many loans open, unless
\* books are deleted (BookUseCases.issue_book, book_use_cases.py:107-115).
LimitRefusalDeserved ==
  [][\A r \in Requests : LimitIsReached(r) \/ "delete_book" \in Events]_vars

\* The same of every instance, as the message says (LoanLimitExceededError,
\* domain/exceptions/loan.py:23).  It is not so: the counter of a user who has
\* borrowed a book that is deleted stays too high for ever.
LimitMessageIsTrue == [][\A r \in Requests : LimitIsReached(r)]_vars

\* A request is told that all copies are on loan only when they are
\* (NoAvailableInstancesError, domain/exceptions/loan.py:30), unless copies are
\* set by hand or lost with a deleted user.
AllCopiesOnLoan ==
  [][\A r \in Requests : At(r, "get_book") /\ reply'[r] = "NoAvailableInstances" =>
       \/ Cardinality(OpenLoansOn(req[r].book)) = Stock[req[r].book]
       \/ {"set_copies", "delete_user"} \cap Events # {}]_vars

\* This step brings about what the answer of r said, and nothing had before it.
TakesEffect(r) ==
  LET u == req[r].user b == req[r].book l == req[r].loan IN
  \/ /\ req[r].op = "issue" /\ ~Stored(l) /\ book_loans'[l].status = "open"
     /\ book_loans'[l].user = u /\ book_loans'[l].book = b
  \/ req[r].op = "return" /\ Open(l) /\ book_loans'[l].status = "returned"
  \/ req[r].op = "delete_user" /\ users[u].live /\ ~users'[u].live
  \/ req[r].op = "delete_book" /\ books[b].live /\ ~books'[b].live
  \/ /\ req[r].op = "set_copies"
     /\ books[b].live /\ books'[b] = [live |-> TRUE, available |-> req[r].copies]

\* No two clients are told of one success: what a request has been answered before
\* its commit is still to be done when the commit comes, and is done by it.  Only
\* a fault in between undoes an answer (dependencies/database.py:45).
AnswersComeTrue ==
  [][\A r \in Requests : At(r, "answered") /\ ~At(r, "answered")' =>
       TakesEffect(r) \/ Fault(r)]_vars

-----------------------------------------------------------------------------
(* Liveness *)

\* Every request is answered and leaves its slot: row locks, circles of waits
\* and the statements of other requests hold none of them up for ever.
EveryRequestEnds ==
  \A r \in Requests : pc[r] # "idle" ~> pc[r] = "idle"

\* Without faults, a loan a client has been told of is in the database at last,
\* although the response goes out before the commit.
AnsweredLoanIsStored ==
  "fault" \notin Events =>
    \A r \in Requests, l \in Loans :
      Committing(r, "issue") /\ req[r].loan = l ~> book_loans[l].status # "none"

-----------------------------------------------------------------------------
(* The lending desk that these requests implement *)

Desk == INSTANCE Lending WITH
  Limit <- MaxBooksOnHand, Largest <- MaxCopies,
  members <- {u \in Users : users[u].live},
  catalogue <- {b \in Books : books[b].live},
  shelf <- [b \in Books |-> books[b].available],
  onLoan <- {<<book_loans[l].user, book_loans[l].book>> : l \in {k \in Loans : Open(k)}}

\* Each request that commits is one atomic step of the lending desk, all other
\* steps change nothing there: statements that interleave, locks that are waited
\* for, aborts and stale reads are invisible (book_use_cases.py:99-147).
ImplementsLending == Desk!Spec

-----------------------------------------------------------------------------
(* What makes the invariants inductive: the rows and locks behind each pc *)

IssueStatements == {"has_overdue_loans", "has_open_loan", "increment", "get_user",
                    "take", "get_book", "create_loan"}

IssueInv(r) ==
  LET u == req[r].user b == req[r].book l == req[r].loan IN
  req[r].op = "issue" =>
    /\ u \in Users /\ b \in Books
    /\ pc[r] \in IssueStatements \cup {"answered", "closed"}
    /\ today - 1 <= req[r].as_of /\ req[r].as_of <= today
    /\ pc[r] \notin {"has_overdue_loans", "closed"} => OverdueLoans(u, req[r].as_of) = {}
    /\ pc[r] \in {"take", "get_book", "create_loan", "answered"} =>
         Locked(r, u) /\ CanIncrement(u)
    /\ pc[r] \in {"create_loan", "answered"} => Locked(r, b) /\ CanTake(b)
    /\ pc[r] # "answered" => l = None
    /\ pc[r] = "answered" =>
         l \in Loans /\ book_loans[l].status = "none" /\ OpenLoansFor(u, b) = {}

ReturnInv(r) ==
  LET u == req[r].user b == req[r].book l == req[r].loan IN
  req[r].op = "return" =>
    /\ l \in Loans
    /\ pc[r] \in {"get_loan", "mark_returned", "return_instance", "decrement", "answered", "closed"}
    /\ pc[r] \in {"mark_returned", "return_instance", "decrement", "answered"} =>
         /\ u \in Users /\ book_loans[l].user = u
         /\ b \in Books /\ book_loans[l].book = b
         /\ book_loans[l].status # "none"
    /\ pc[r] \in {"return_instance", "decrement", "answered"} => Locked(r, l) /\ Open(l)
    /\ pc[r] \in {"decrement", "answered"} => Locked(r, b)
    /\ pc[r] = "answered" => Locked(r, u)
    /\ reply[r] # "BookNotFound"

DeleteInv(r) ==
  /\ req[r].op = "delete_user" =>
       /\ req[r].user \in Users /\ req[r].book = None
       /\ pc[r] \in {"delete_user", "cascade", "answered", "closed"}
       /\ pc[r] \in {"cascade", "answered"} => Locked(r, req[r].user) /\ users[req[r].user].live
  /\ req[r].op = "delete_book" =>
       /\ req[r].book \in Books /\ req[r].user = None
       /\ pc[r] \in {"delete_book", "cascade", "answered", "closed"}
       /\ pc[r] \in {"cascade", "answered"} => Locked(r, req[r].book) /\ books[req[r].book].live
  /\ req[r].op \in {"delete_user", "delete_book"} /\ At(r, "answered") =>
       \A l \in Cascaded(r) : Locked(r, l)

CopiesInv(r) ==
  req[r].op = "set_copies" =>
    /\ req[r].book \in Books
    /\ pc[r] \in {"update_book", "answered", "closed"}
    /\ At(r, "answered") => Locked(r, req[r].book) /\ books[req[r].book].live

SlotInv(r) ==
  /\ req[r].op = None <=> pc[r] = "idle"
  /\ pc[r] = "idle" => reply[r] = None
  /\ IssueInv(r) /\ ReturnInv(r) /\ DeleteInv(r) /\ CopiesInv(r)

RequestInv == \A r \in Requests : SlotInv(r)

\* Two issues never reserve the same new row.
ReservedOnce ==
  \A r, s \in Requests :
    req[r].op = "issue" /\ req[s].op = "issue" /\ req[r].loan = req[s].loan
      => r = s \/ req[r].loan = None

LoanRowsInv ==
  \A l \in Loans : Stored(l) =>
    /\ book_loans[l].user \in Users /\ users[book_loans[l].user].live
    /\ book_loans[l].book \in Books /\ books[book_loans[l].book].live

\* The counter covers the open loans and never passes the limit.
CounterInv ==
  \A u \in Users : users[u].live =>
    /\ Cardinality(OpenLoansOf(u)) <= users[u].books_on_hand
    /\ users[u].books_on_hand <= MaxBooksOnHand

IInv ==
  /\ TypeOK /\ RequestInv /\ ReservedOnce /\ LoanRowsInv /\ OneOpenLoanPerBook /\ CounterInv

=============================================================================
