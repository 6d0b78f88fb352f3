------------------------------ MODULE Catalog ------------------------------
(***************************************************************************)
(* The catalogue: create, update and delete of AuthorUseCases and          *)
(* BookUseCases, as far as names, titles, existence and the link between   *)
(* books and their authors go.  Authors and books follow the same pattern: *)
(* look for another row of the name, then write, with a unique index on    *)
(* the lower-cased name behind it.  A name here is what the validators     *)
(* leave, lower-cased: two names that differ in case or spaces are one.    *)
(*                                                                         *)
(* Concurrency is that of Circulation: one SQL statement per action, the   *)
(* tables hold committed rows, an UPDATE or DELETE locks its row until the *)
(* end, and what a transaction has written shows in its commit.  Two more  *)
(* waits of PostgreSQL matter here:                                        *)
(*   - a new entry of a unique index waits for every transaction that adds *)
(*     or takes away an equal entry, and fails if one is there afterwards; *)
(*   - a row of authors_books locks its author FOR KEY SHARE: it waits for *)
(*     the author's deletion and the deletion for it, an update does not.  *)
(***************************************************************************)
EXTENDS Naturals, FiniteSets

CONSTANTS
  Authors, Books,  \* identities of rows; they bound the rows ever made
  Names,           \* normalised names of authors and titles of books
  Blank,           \* what is left of a name of spaces: the empty string
  Null,            \* null in a PATCH that may also leave the field out
  Requests,        \* slots for requests in progress at the same time
  None,            \* no row, no holder, field not given, nothing to answer yet
  Events           \* the kinds of event of this instance (see EventKinds)

AuthorOps == {"create_author", "update_author", "delete_author"}
BookOps == {"create_book", "update_book", "delete_book"}
Ops == AuthorOps \cup BookOps
EventKinds == Ops \cup {"fault"}

Refusals == {"AuthorAlreadyExists", "AuthorNotFound", "BookAlreadyExists", "BookNotFound",
             "InternalServerError"}

Rows == Authors \cup Books
GivenNames == Names \cup {Blank, Null, None}

ASSUME DistinctIdentities ==
  /\ Authors \cap Books = {}
  /\ None \notin Rows \cup Requests \cup Ops \cup Refusals \cup {"ok"}
  /\ Blank \notin Names /\ Null \notin Names /\ None \notin Names
  /\ Blank # Null /\ Blank # None /\ Null # None
ASSUME KindsOfEvent == Events \subseteq EventKinds
\* A bound on the rows, and one session of the pool for each request in progress.
ASSUME FiniteInstance == IsFiniteSet(Rows) /\ IsFiniteSet(Requests)

VARIABLES
  rows,           \* authors and books: a row's status, its name or title
  authors_books,  \* the association table, as pairs <<book, author>>
  pc,             \* the statement each request executes next
  req,            \* parameters and local variables of each request
  reply,          \* the answer its client has got, None until then
  lock            \* the request whose transaction has locked each row, or None

vars == <<rows, authors_books, pc, req, reply, lock>>
tables == <<rows, authors_books>>

Request(op, row, name, authors) ==
  [op |-> op, row |-> row, name |-> name, authors |-> authors, linked |-> {}]

NoRequest == Request(None, None, None, {})

Statements == {"exists", "insert", "update", "index", "get_by_ids", "select_authors", "link",
               "delete", "restrict"}

NoRow == [status |-> "none", name |-> None]

TypeOK ==
  /\ rows \in [Rows -> [status : {"none", "live", "gone"}, name : Names \cup {Blank, None}]]
  /\ authors_books \subseteq Books \X Authors
  /\ pc \in [Requests -> Statements \cup {"idle", "answered", "closed"}]
  /\ req \in [Requests -> [op : Ops \cup {None}, row : Rows \cup {None}, name : GivenNames,
                           authors : SUBSET Authors, linked : SUBSET Authors]]
  /\ reply \in [Requests -> Refusals \cup {None, "ok"}]
  /\ lock \in [Rows -> Requests \cup {None}]

-----------------------------------------------------------------------------
(* What the statements read, and what they wait for. *)

Live(x) == rows[x].status = "live"
Table(r) == IF req[r].op \in AuthorOps THEN Authors ELSE Books

\* The request may leave a book or author with the name it was given.
Naming(r) ==
  req[r].op \in {"create_author", "update_author", "create_book", "update_book"}
    /\ req[r].name # None

\* WHERE lower(name) = lower(:name) AND id != :exclude_author_id
Namesakes(r) == {x \in Table(r) \ {req[r].row} : Live(x) /\ rows[x].name = req[r].name}

\* r has entered its name in the index and has not ended yet.
Entered(r) == Naming(r) /\ pc[r] \in {"link", "answered"}

\* Without the wait of ux_authors_name_lower and ux_books_title_lower.
IndexHolders_None(r) == {}

\* The transactions that add or take away an index entry equal to r's.
IndexHolders(r) ==
  {s \in Requests \ {r} :
     \/ Entered(s) /\ Table(s) = Table(r) /\ req[s].name = req[r].name
     \/ \E x \in Namesakes(r) : lock[x] = s}

WorksOf(a) == {b \in Books : Live(b) /\ <<b, a>> \in authors_books}

\* Books of a that are not being deleted.
KeptWorksOf(a) ==
  {b \in WorksOf(a) : \A s \in Requests : lock[b] = s => req[s].op # "delete_book"}

\* Requests with an uncommitted row of authors_books for a.
Sharers(a) == {s \in Requests : a \in req[s].linked}

BeingDeleted(a) == {s \in Requests : lock[a] = s /\ req[s].op = "delete_author"}

HolderOf(x) == {s \in Requests : lock[x] = s}

\* The requests that the next statement of r waits for.
WaitsFor(r) ==
  CASE pc[r] \in {"insert", "index"} -> IndexHolders(r)
    [] pc[r] = "update" /\ Live(req[r].row) -> HolderOf(req[r].row)
    [] pc[r] = "delete" /\ Live(req[r].row) -> HolderOf(req[r].row) \cup Sharers(req[r].row)
    [] pc[r] = "restrict" -> UNION {HolderOf(b) : b \in WorksOf(req[r].row) \ KeptWorksOf(req[r].row)}
    [] pc[r] = "link" -> UNION {BeingDeleted(a) : a \in req[r].authors \ req[r].linked}
    [] OTHER -> {}

\* r is on a cycle of the waits-for relation.
Deadlocked(r) ==
  WaitsFor(r) # {} /\ \A S \in SUBSET Requests :
    WaitsFor(r) \subseteq S /\ (\A s \in S : WaitsFor(s) \subseteq S) => r \in S

-----------------------------------------------------------------------------
(* Ways in which any request goes on. *)

Goto(r, statement) == pc' = [pc EXCEPT ![r] = statement]
At(r, statement) == pc[r] = statement
Serving(r, op, statement) == req[r].op = op /\ At(r, statement)

Begin(r, statement, parameters) ==
  /\ At(r, "idle") /\ Goto(r, statement)
  /\ req' = [req EXCEPT ![r] = parameters]
  /\ UNCHANGED <<tables, reply, lock>>

Continue(r, statement) == Goto(r, statement) /\ UNCHANGED <<tables, req, reply, lock>>

\* A session that goes back to the pool without the end of its transaction.
LocksWithout_Leak(r) == lock

LocksWithout(r) == [x \in Rows |-> IF lock[x] = r THEN None ELSE lock[x]]

\* The handler raises: the session is rolled back, then the client gets the error.
Refuse(r, error) ==
  /\ Goto(r, "closed")
  /\ req' = [req EXCEPT ![r] = NoRequest]
  /\ reply' = [reply EXCEPT ![r] = error]
  /\ lock' = LocksWithout(r)
  /\ UNCHANGED tables

\* The handler returns; its transaction is still to be committed.
Answer(r) == Goto(r, "answered") /\ reply' = [reply EXCEPT ![r] = "ok"]

\* An UPDATE or DELETE gets the lock of its row.
LockRow(r, statement) ==
  /\ HolderOf(req[r].row) = {}
  /\ lock' = [lock EXCEPT ![req[r].row] = r]
  /\ Goto(r, statement)
  /\ UNCHANGED <<tables, req, reply>>

\* The index takes the entry, or the row of the same name that is there is final.
IndexIsFree(r) == IndexHolders(r) = {} /\ Namesakes(r) = {}
IndexIsTaken(r) == IndexHolders(r) = {} /\ Namesakes(r) # {}

Finish(r) ==
  /\ Goto(r, "idle")
  /\ req' = [req EXCEPT ![r] = NoRequest]
  /\ reply' = [reply EXCEPT ![r] = None]
  /\ lock' = LocksWithout(r)

Committing(r, op) == Serving(r, op, "answered")

\* Rows a client can name: those it has read, and those it was told of.
Known == {x \in Rows : rows[x].status # "none" \/
                       \E s \in Requests : At(s, "answered") /\ req[s].row = x}

Unused(S) == {x \in S : rows[x].status = "none" /\ \A s \in Requests : req[s].row # x}

\* The bound on the rows ever made.
RoomFor(op, S) ==
  Cardinality(Unused(S)) >
    Cardinality({s \in Requests : req[s].op = op /\ req[s].row = None})

-----------------------------------------------------------------------------
(* POST /authors, PATCH and DELETE /authors/{id} *)

BeginCreateAuthor(r, n) ==
  /\ "create_author" \in Events /\ RoomFor("create_author", Authors)
  /\ Begin(r, "exists", Request("create_author", None, n, {}))

\* exists_by_name is asked only for a name that is neither missing nor empty
\* (an update of other fields has name None; one of no field only reads).
BeginUpdateAuthor(r, a, n) ==
  /\ "update_author" \in Events /\ a \in Known
  /\ Begin(r, IF n \in Names THEN "exists" ELSE "update", Request("update_author", a, n, {}))

BeginDeleteAuthor(r, a) ==
  /\ "delete_author" \in Events /\ a \in Known
  /\ Begin(r, "delete", Request("delete_author", a, None, {}))

ExistsByName(r) ==
  /\ At(r, "exists") /\ req[r].op \in AuthorOps
  /\ \/ Namesakes(r) # {} /\ Refuse(r, "AuthorAlreadyExists")
     \/ Namesakes(r) = {} /\ Continue(r, IF req[r].op = "create_author" THEN "insert" ELSE "update")

\* The CHECK constraint on blank names is not translated, the unique index is.
InsertAuthor(r) ==
  /\ Serving(r, "create_author", "insert")
  /\ \/ req[r].name = Blank /\ Refuse(r, "InternalServerError")
     \/ req[r].name # Blank /\ IndexIsTaken(r) /\ Refuse(r, "AuthorAlreadyExists")
     \/ /\ req[r].name # Blank /\ IndexIsFree(r)
        /\ \E a \in Unused(Authors) : req' = [req EXCEPT ![r].row = a]
        /\ Answer(r) /\ UNCHANGED <<tables, lock>>

\* The constraints on the new row are checked before its lock is asked for.
UpdateAuthor(r) ==
  LET a == req[r].row IN
  /\ Serving(r, "update_author", "update")
  /\ \/ ~Live(a) /\ Refuse(r, "AuthorNotFound")
     \/ Live(a) /\ req[r].name \in {Null, Blank} /\ Refuse(r, "InternalServerError")
     \/ Live(a) /\ req[r].name \notin {Null, Blank} /\ LockRow(r, "index")

\* The same statement goes on to the unique index; get_by_id then reads back
\* the row that r itself has locked.
IndexAuthorName(r) ==
  /\ Serving(r, "update_author", "index")
  /\ \/ IndexIsTaken(r) /\ Refuse(r, "AuthorAlreadyExists")
     \/ IndexIsFree(r) /\ Answer(r) /\ UNCHANGED <<tables, req, lock>>

\* A deletion that does not heed the rows of authors_books in progress.
DeleteAuthor_NoKeyShare(r) ==
  LET a == req[r].row IN
  /\ Serving(r, "delete_author", "delete")
  /\ \/ ~Live(a) /\ Refuse(r, "AuthorNotFound")
     \/ Live(a) /\ LockRow(r, "restrict")

DeleteAuthor(r) ==
  LET a == req[r].row IN
  /\ Serving(r, "delete_author", "delete")
  /\ \/ ~Live(a) /\ Refuse(r, "AuthorNotFound")
     \/ Live(a) /\ Sharers(a) = {} /\ LockRow(r, "restrict")

\* The foreign key of authors_books has no ON DELETE: an author with books
\* cannot be deleted, and nothing translates the error.  The check waits for a
\* book whose deletion is in progress.
RestrictAuthor(r) ==
  LET a == req[r].row IN
  /\ Serving(r, "delete_author", "restrict")
  /\ \/ KeptWorksOf(a) # {} /\ Refuse(r, "InternalServerError")
     \/ WorksOf(a) = {} /\ Answer(r) /\ UNCHANGED <<tables, req, lock>>

-----------------------------------------------------------------------------
(* POST /books, PATCH and DELETE /books/{id} *)

\* A publication date that is refused ends the request before its first statement.
BeginCreateBook(r, n, authors) ==
  /\ "create_book" \in Events /\ RoomFor("create_book", Books)
  /\ authors # {} /\ authors \subseteq Known
  /\ Begin(r, "exists", Request("create_book", None, n, authors))

BeginUpdateBook(r, b, n) ==
  /\ "update_book" \in Events /\ b \in Known
  /\ Begin(r, IF n \in Names THEN "exists" ELSE "update", Request("update_book", b, n, {}))

BeginDeleteBook(r, b) ==
  /\ "delete_book" \in Events /\ b \in Known
  /\ Begin(r, "delete", Request("delete_book", b, None, {}))

ExistsByTitle(r) ==
  /\ At(r, "exists") /\ req[r].op \in BookOps
  /\ \/ Namesakes(r) # {} /\ Refuse(r, "BookAlreadyExists")
     \/ Namesakes(r) = {} /\ Continue(r, IF req[r].op = "create_book" THEN "get_by_ids" ELSE "update")

GetByIds(r) ==
  /\ Serving(r, "create_book", "get_by_ids")
  /\ \/ (\A a \in req[r].authors : Live(a)) /\ Continue(r, "select_authors")
     \/ (\E a \in req[r].authors : ~Live(a)) /\ Refuse(r, "AuthorNotFound")

\* create selects the authors once more, and takes those it finds.
SelectAuthors(r) ==
  /\ Serving(r, "create_book", "select_authors")
  /\ req' = [req EXCEPT ![r].authors = {a \in @ : Live(a)}]
  /\ Goto(r, "insert") /\ UNCHANGED <<tables, reply, lock>>

\* A title has no CHECK constraint: an empty one is stored.
InsertBook(r) ==
  /\ Serving(r, "create_book", "insert")
  /\ \/ IndexIsTaken(r) /\ Refuse(r, "BookAlreadyExists")
     \/ /\ IndexIsFree(r)
        /\ \E b \in Unused(Books) : req' = [req EXCEPT ![r].row = b]
        /\ IF req[r].authors = {} THEN Answer(r) ELSE (Goto(r, "link") /\ UNCHANGED reply)
        /\ UNCHANGED <<tables, lock>>

\* INSERT INTO authors_books without its foreign key.
LinkAuthor_Unchecked(r) ==
  \E a \in req[r].authors \ req[r].linked :
    /\ Serving(r, "create_book", "link")
    /\ req' = [req EXCEPT ![r].linked = @ \cup {a}]
    /\ IF req[r].authors \ req[r].linked = {a} THEN Answer(r) ELSE UNCHANGED <<pc, reply>>
    /\ UNCHANGED <<tables, lock>>

\* INSERT INTO authors_books, one author after the other; each is locked
\* against deletion by its foreign key.
LinkAuthor(r) ==
  \E a \in req[r].authors \ req[r].linked :
    /\ Serving(r, "create_book", "link") /\ BeingDeleted(a) = {}
    /\ \/ ~Live(a) /\ Refuse(r, "InternalServerError")
       \/ /\ Live(a)
          /\ req' = [req EXCEPT ![r].linked = @ \cup {a}]
          /\ IF req[r].authors \ req[r].linked = {a} THEN Answer(r) ELSE UNCHANGED <<pc, reply>>
          /\ UNCHANGED <<tables, lock>>

UpdateBook(r) ==
  LET b == req[r].row IN
  /\ Serving(r, "update_book", "update")
  /\ \/ ~Live(b) /\ Refuse(r, "BookNotFound")
     \/ Live(b) /\ req[r].name = Null /\ Refuse(r, "InternalServerError")
     \/ Live(b) /\ req[r].name # Null /\ LockRow(r, "index")

IndexBookTitle(r) ==
  /\ Serving(r, "update_book", "index")
  /\ \/ IndexIsTaken(r) /\ Refuse(r, "BookAlreadyExists")
     \/ IndexIsFree(r) /\ Answer(r) /\ UNCHANGED <<tables, req, lock>>

\* The rows of authors_books and of book_loans go with the book (ON DELETE CASCADE).
DeleteBook(r) ==
  LET b == req[r].row IN
  /\ Serving(r, "delete_book", "delete")
  /\ \/ ~Live(b) /\ Refuse(r, "BookNotFound")
     \/ /\ Live(b) /\ HolderOf(b) = {}
        /\ lock' = [lock EXCEPT ![b] = r]
        /\ Answer(r) /\ UNCHANGED <<tables, req>>

-----------------------------------------------------------------------------
(* The commits, the rest of a request's life, and the environment. *)

Named(n) == [status |-> "live", name |-> n]

CommitCreateAuthor(r) ==
  /\ Committing(r, "create_author")
  /\ rows' = [rows EXCEPT ![req[r].row] = Named(req[r].name)]
  /\ UNCHANGED authors_books
  /\ Finish(r)

CommitCreateBook(r) ==
  /\ Committing(r, "create_book")
  /\ rows' = [rows EXCEPT ![req[r].row] = Named(req[r].name)]
  /\ authors_books' = authors_books \cup {req[r].row} \X req[r].authors
  /\ Finish(r)

CommitUpdate(r) ==
  /\ Committing(r, "update_author") \/ Committing(r, "update_book")
  /\ rows' = IF Naming(r) THEN [rows EXCEPT ![req[r].row].name = req[r].name] ELSE rows
  /\ UNCHANGED authors_books
  /\ Finish(r)

\* The rows of authors_books stay when their book goes.
CommitDelete_KeepLinks(r) ==
  /\ Committing(r, "delete_author") \/ Committing(r, "delete_book")
  /\ rows' = [rows EXCEPT ![req[r].row] = [status |-> "gone", name |-> None]]
  /\ UNCHANGED authors_books
  /\ Finish(r)

CommitDelete(r) ==
  /\ Committing(r, "delete_author") \/ Committing(r, "delete_book")
  /\ rows' = [rows EXCEPT ![req[r].row] = [status |-> "gone", name |-> None]]
  /\ authors_books' = {link \in authors_books : link[1] # req[r].row}
  /\ Finish(r)

\* The client has read the error.
Close(r) == At(r, "closed") /\ Finish(r) /\ UNCHANGED tables

\* The connection or the process goes down: the transaction is rolled back, and
\* a client that was not answered before gets a server error.
Fault(r) ==
  /\ "fault" \in Events /\ pc[r] \notin {"idle", "closed"}
  /\ IF At(r, "answered") THEN (Finish(r) /\ UNCHANGED tables)
                          ELSE Refuse(r, "InternalServerError")

\* PostgreSQL aborts a transaction of a cycle of waits; its error is not
\* translated by the repositories.
DeadlockVictim(r) == Deadlocked(r) /\ Refuse(r, "InternalServerError")

Init ==
  /\ rows = [x \in Rows |-> NoRow]
  /\ authors_books = {}
  /\ pc = [r \in Requests |-> "idle"]
  /\ req = [r \in Requests |-> NoRequest]
  /\ reply = [r \in Requests |-> None]
  /\ lock = [x \in Rows |-> None]

Arrive(r) ==
  \/ \E n \in Names \cup {Blank} :
       BeginCreateAuthor(r, n) \/ (\E authors \in SUBSET Authors : BeginCreateBook(r, n, authors))
  \/ \E a \in Authors, n \in GivenNames : BeginUpdateAuthor(r, a, n)
  \/ \E b \in Books, n \in GivenNames : BeginUpdateBook(r, b, n)
  \/ \E a \in Authors : BeginDeleteAuthor(r, a)
  \/ \E b \in Books : BeginDeleteBook(r, b)

\* One step of the work on request r.
Serve(r) ==
  \/ ExistsByName(r) \/ InsertAuthor(r) \/ UpdateAuthor(r) \/ IndexAuthorName(r)
  \/ DeleteAuthor(r) \/ RestrictAuthor(r)
  \/ ExistsByTitle(r) \/ GetByIds(r) \/ SelectAuthors(r) \/ InsertBook(r) \/ LinkAuthor(r)
  \/ UpdateBook(r) \/ IndexBookTitle(r) \/ DeleteBook(r)
  \/ CommitCreateAuthor(r) \/ CommitCreateBook(r) \/ CommitUpdate(r) \/ CommitDelete(r)
  \/ Close(r)

Next == \E r \in Requests : Arrive(r) \/ Serve(r) \/ Fault(r) \/ DeadlockVictim(r)

Spec == Init /\ [][Next]_vars

-----------------------------------------------------------------------------
(* Safety *)

\* No two authors have one name and no two books one title, whatever creations
\* and renamings run side by side: the look-up precedes the write by a
\* statement, and two that wait for each other's names must not both get them
\* (author_use_cases.py:33, book_use_cases.py:85).
UniqueNames ==
  \A x, y \in Rows :
    Live(x) /\ Live(y) /\ rows[x].name = rows[y].name /\ (x \in Authors <=> y \in Authors) => x = y

\* Every author of a book exists, while books are created and their authors are
\* deleted at the same time; delete_author looks at no book itself, and the look
\* of create_book is two statements before its insert (models.py:31-36).
CreditsExist ==
  \A link \in authors_books : Live(link[1]) /\ Live(link[2])

\* Requests wait for each other in a circle only when two renamings of one
\* table are each after the name that the other's row still has: no creation or
\* deletion is ever part of one.
DeadlockNeedsTwoRenamings ==
  \A r \in Requests : Deadlocked(r) =>
    /\ At(r, "index")
    /\ \E s \in Requests \ {r} : At(s, "index") /\ Table(s) = Table(r) /\ req[s].name # req[r].name

\* The next statement of r can be executed: the guard of Serve(r).
Ready(r) ==
  LET x == req[r].row IN
  CASE At(r, "idle") -> FALSE
    [] At(r, "insert") ->
         \/ req[r].op = "create_author" /\ req[r].name = Blank
         \/ IndexHolders(r) = {} /\ (Namesakes(r) = {} => Unused(Table(r)) # {})
    [] At(r, "link") -> \E a \in req[r].authors \ req[r].linked : BeingDeleted(a) = {}
    [] At(r, "update") ->
         Live(x) /\ req[r].name # Null /\ (x \in Authors => req[r].name # Blank) => HolderOf(x) = {}
    [] At(r, "index") -> IndexHolders(r) = {}
    [] At(r, "delete") -> Live(x) => HolderOf(x) = {} /\ (x \in Authors => Sharers(x) = {})
    [] At(r, "restrict") -> KeptWorksOf(x) # {} \/ WorksOf(x) = {}
    [] OTHER -> TRUE

\* No request is held up for nothing: among those it waits for, directly or
\* through others, there is one whose next statement can be executed, or one on
\* a circle of waits, which PostgreSQL breaks (dependencies/database.py:39-50).
WorkGoesOn ==
  \A r \in Requests, S \in SUBSET Requests :
    ~At(r, "idle") /\ r \in S /\ (\A s \in S : WaitsFor(s) \subseteq S)
      => \E s \in S : Ready(s) \/ Deadlocked(s)

\* This step brings about what the answer of r said, and nothing had before it.
TakesEffect(r) ==
  LET x == req[r].row IN
  \/ /\ req[r].op \in {"create_author", "create_book"}
     /\ rows[x].status = "none" /\ rows'[x] = Named(req[r].name)
     /\ req[r].op = "create_book" =>
          \A a \in Authors : <<x, a>> \in authors_books' <=> a \in req[r].authors
  \/ /\ req[r].op \in {"update_author", "update_book"} /\ Live(x) /\ rows'[x].status = "live"
     /\ req[r].name # None => rows'[x].name = req[r].name
  \/ /\ req[r].op \in {"delete_author", "delete_book"} /\ Live(x) /\ rows'[x].status = "gone"
     /\ \A link \in authors_books' : x \notin {link[1], link[2]}

\* What a request has been answered before its commit is still to be done when the
\* commit comes, and is done by it: nobody takes the name, deletes an author of the
\* new book or gives the deleted author a book; only a fault undoes an answer
\* (dependencies/database.py:45).
AnswersComeTrue ==
  [][\A r \in Requests : At(r, "answered") /\ ~At(r, "answered")' =>
       TakesEffect(r) \/ Fault(r)]_vars

\* Every book has an author, as the list its creation was given had
\* (min_length of author_ids, dtos/book/main.py:12).
EveryBookHasAnAuthor ==
  \A b \in Books : Live(b) => \E a \in Authors : <<b, a>> \in authors_books

-----------------------------------------------------------------------------
(* The catalogue that these requests implement *)

Listing == INSTANCE Bibliography WITH
  AuthorNames <- Names, Titles <- Names \cup {Blank},
  name <- [x \in Rows |-> rows[x].name],
  credits <- authors_books

\* Each request that commits is one atomic step of the catalogue in which names
\* stay distinct and authors with books stay; all other steps are invisible
\* there (author_use_cases.py:31-66, book_use_cases.py:46-97).
ImplementsBibliography == Listing!Spec

-----------------------------------------------------------------------------
(* What makes the invariants inductive: the rows, locks and index entries *)
(* behind each pc.                                                         *)

CreateInv(r) ==
  req[r].op \in {"create_author", "create_book"} =>
    /\ pc[r] \in {"exists", "get_by_ids", "select_authors", "insert", "link", "answered"}
    /\ req[r].name \in Names \cup {Blank}
    /\ pc[r] \notin {"link", "answered"} => req[r].row = None
    /\ pc[r] \in {"link", "answered"} =>
         /\ req[r].row \in Table(r) /\ rows[req[r].row].status = "none"
         /\ req[r].op = "create_author" => req[r].name \in Names
         /\ \A a \in req[r].linked : Live(a)
    /\ req[r].op = "create_author" => pc[r] # "link"
    /\ Committing(r, "create_book") => req[r].linked = req[r].authors

UpdateInv(r) ==
  req[r].op \in {"update_author", "update_book"} =>
    /\ req[r].row \in Table(r)
    /\ pc[r] \in {"exists", "update", "index", "answered"}
    /\ pc[r] \in {"index", "answered"} =>
         /\ lock[req[r].row] = r /\ Live(req[r].row)
         /\ req[r].name \in (IF req[r].op = "update_author" THEN Names ELSE Names \cup {Blank}) \cup {None}

DeleteInv(r) ==
  req[r].op \in {"delete_author", "delete_book"} =>
    /\ req[r].row \in Table(r)
    /\ pc[r] \in {"delete", "restrict", "answered"}
    /\ pc[r] \in {"restrict", "answered"} => lock[req[r].row] = r /\ Live(req[r].row)
    /\ req[r].op = "delete_author" =>
         /\ pc[r] \in {"restrict", "answered"} => Sharers(req[r].row) = {}
         /\ pc[r] = "answered" => WorksOf(req[r].row) = {}

SlotInv(r) ==
  /\ req[r].op = None <=> pc[r] \in {"idle", "closed"}
  /\ req[r].linked \subseteq req[r].authors
  /\ req[r].linked # {} => req[r].op = "create_book" /\ pc[r] \in {"link", "answered"}
  /\ CreateInv(r) /\ UpdateInv(r) /\ DeleteInv(r)

\* What the unique indexes guarantee while transactions are in progress.
EntryInv ==
  \A r \in Requests : Entered(r) =>
    /\ Namesakes(r) = {}
    /\ \A s \in Requests : Entered(s) /\ Table(s) = Table(r) /\ req[s].name = req[r].name => s = r

\* Two creations never get the same new row.
ReservedOnce ==
  \A r, s \in Requests :
    {req[r].op, req[s].op} \subseteq {"create_author", "create_book"}
      /\ Entered(r) /\ Entered(s) /\ req[r].row = req[s].row => r = s

RowsInv == \A x \in Rows : Live(x) <=> rows[x].name # None

IInv ==
  /\ TypeOK /\ (\A r \in Requests : SlotInv(r)) /\ EntryInv /\ ReservedOnce /\ RowsInv
  /\ UniqueNames /\ CreditsExist

=============================================================================
