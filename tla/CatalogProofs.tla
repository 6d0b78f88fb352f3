--------------------------- MODULE CatalogProofs ---------------------------
(***************************************************************************)
(* The invariants of Catalog, and its refinement of Bibliography, for      *)
(* every number of authors, books, names and concurrent requests.          *)
(***************************************************************************)
EXTENDS Catalog, Waits

-----------------------------------------------------------------------------
(* Operations and tables, and the end of a transaction *)

LEMMA OpFacts ==
  /\ AuthorOps \cap BookOps = {} /\ None \notin Ops
  /\ "create_author" \in AuthorOps /\ "update_author" \in AuthorOps /\ "delete_author" \in AuthorOps
  /\ "create_book" \in BookOps /\ "update_book" \in BookOps /\ "delete_book" \in BookOps
BY DistinctIdentities DEF AuthorOps, BookOps, Ops

\* What the end of the transaction of r releases, and what it leaves to others.
LEMMA Released ==
  ASSUME TypeOK, NEW r \in Requests
  PROVE  /\ LocksWithout(r) \in [Rows -> Requests \cup {None}]
         /\ \A s \in Requests \ {r}, x \in Rows : LocksWithout(r)[x] = s <=> lock[x] = s
BY DistinctIdentities DEF TypeOK, LocksWithout

LEMMA TableFacts ==
  ASSUME NEW r \in Requests
  PROVE  /\ Table(r) \in {Authors, Books} /\ Table(r) \subseteq Rows
         /\ req[r].op \in AuthorOps => Table(r) = Authors
         /\ req[r].op \in BookOps => Table(r) = Books
BY OpFacts DEF Table, Rows

-----------------------------------------------------------------------------
(* Requests other than the one that takes the step *)

\* What a step of r may do to another request s: it takes no lock from it,
\* changes no row that s has locked or is about to insert, deletes no author it
\* has linked, and links nothing to an author it is deleting.
Spares(r, s) ==
  /\ pc'[s] = pc[s] /\ req'[s] = req[s]
  /\ \A x \in Rows : lock'[x] = s <=> lock[x] = s
  /\ \A x \in Rows : lock[x] = s /\ Live(x) => rows'[x] = rows[x]
  /\ req[s].op \in {"create_author", "create_book"} /\ pc[s] \in {"link", "answered"} =>
       rows'[req[s].row] = rows[req[s].row]
  /\ \A a \in req[s].linked : Live(a) => Live(a)'
  /\ \A a \in Authors : lock[a] = s /\ req[s].op = "delete_author" =>
       /\ a \in req'[r].linked => a \in req[r].linked
       /\ Sharers(a) = {} /\ WorksOf(a) = {} => WorksOf(a)' = {}

Frame(r) == \A s \in Requests \ {r} : Spares(r, s)

LEMMA OthersKeepInv ==
  ASSUME TypeOK, NEW r \in Requests, NEW s \in Requests \ {r}, SlotInv(s), Frame(r)
  PROVE  SlotInv(s)'
<1>1. Spares(r, s) /\ pc'[s] = pc[s] /\ req'[s] = req[s] /\ Table(s)' = Table(s)
  BY DEF Frame, Spares, Table
<1>2. CreateInv(s)'
  BY <1>1 DEF SlotInv, CreateInv, Spares, Live, Committing, Serving, At
<1>3. UpdateInv(s)'
  <2>1. req[s].row \in Table(s) => req[s].row \in Rows
    BY TableFacts
  <2> QED BY <1>1, <2>1 DEF SlotInv, UpdateInv, Spares, Live
<1>4. DeleteInv(s)'
  <2> SUFFICES ASSUME req[s].op \in {"delete_author", "delete_book"} PROVE DeleteInv(s)'
    BY <1>1 DEF DeleteInv
  <2>1. req[s].row \in Table(s) /\ req[s].row \in Rows
    BY TableFacts DEF SlotInv, DeleteInv
  <2>2. pc[s] \in {"restrict", "answered"} => lock'[req[s].row] = s /\ Live(req[s].row)'
    BY <1>1, <2>1 DEF SlotInv, DeleteInv, Spares, Live
  <2>3. ASSUME req[s].op = "delete_author", pc[s] \in {"restrict", "answered"}
        PROVE  /\ Sharers(req[s].row)' = {}
               /\ pc[s] = "answered" => WorksOf(req[s].row)' = {}
    <3>1. /\ req[s].row \in Authors /\ lock[req[s].row] = s /\ Sharers(req[s].row) = {}
          /\ pc[s] = "answered" => WorksOf(req[s].row) = {}
      BY <2>1, <2>3, TableFacts, OpFacts DEF SlotInv, DeleteInv
    <3>2. req[s].row \notin req'[r].linked
      BY <1>1, <2>3, <3>1 DEF Spares, Sharers
    <3>3. \A q \in Requests \ {r} : req'[q] = req[q]
      BY DEF Frame, Spares
    <3>4. Sharers(req[s].row)' = {}
      BY <1>1, <3>1, <3>2, <3>3 DEF Sharers
    <3>5. pc[s] = "answered" => WorksOf(req[s].row)' = {}
      BY <1>1, <2>3, <3>1 DEF Spares
    <3> QED BY <3>4, <3>5
  <2> QED BY <1>1, <2>1, <2>2, <2>3 DEF SlotInv, DeleteInv
<1> QED BY <1>1, <1>2, <1>3, <1>4 DEF SlotInv

-----------------------------------------------------------------------------
(* The index entries of requests in progress *)

\* Whoever has an entry after the step had the same entry before.
NoNewEntry ==
  \A s \in Requests : Entered(s)' =>
    Entered(s) /\ req'[s].op = req[s].op /\ req'[s].name = req[s].name /\ req'[s].row = req[s].row

LEMMA EntriesKept ==
  ASSUME EntryInv, ReservedOnce, UNCHANGED rows, NoNewEntry
  PROVE  EntryInv' /\ ReservedOnce'
<1>1. \A s \in Requests : Entered(s)' => Table(s)' = Table(s) /\ Namesakes(s)' = Namesakes(s)
  BY DEF NoNewEntry, Table, Namesakes, Live
<1>2. EntryInv'
  BY <1>1 DEF EntryInv, NoNewEntry
<1>3. ReservedOnce'
  BY DEF ReservedOnce, NoNewEntry
<1> QED BY <1>2, <1>3

\* Steps of r that write no table and give r no new index entry.
QuietStep(r) == TypeOK' /\ Frame(r) /\ SlotInv(r)' /\ NoNewEntry /\ UNCHANGED tables

LEMMA QuietStepKeepsIInv ==
  ASSUME IInv, NEW r \in Requests, QuietStep(r)
  PROVE  IInv'
<1>1. \A s \in Requests : SlotInv(s)'
  BY OthersKeepInv DEF IInv, QuietStep
<1>2. EntryInv' /\ ReservedOnce'
  BY EntriesKept DEF IInv, QuietStep, tables
<1>3. RowsInv' /\ UniqueNames' /\ CreditsExist'
  BY DEF IInv, QuietStep, tables, RowsInv, UniqueNames, CreditsExist, Live
<1> QED BY <1>1, <1>2, <1>3 DEF IInv, QuietStep

-----------------------------------------------------------------------------
(* The ways in which a request goes on *)

\* A step of r that changes only the slot of r, and links nothing there.
LEMMA MoveFrame ==
  ASSUME NEW r \in Requests, UNCHANGED <<tables, lock>>, req'[r].linked \subseteq req[r].linked,
         \A s \in Requests \ {r} : pc'[s] = pc[s] /\ req'[s] = req[s]
  PROVE  Frame(r)
BY DEF Frame, Spares, tables, Live, WorksOf

LEMMA RefuseStep ==
  ASSUME IInv, NEW r \in Requests, NEW error \in Refusals, Refuse(r, error)
  PROVE  QuietStep(r)
<1> TypeOK
  BY DEF IInv
<1>1. /\ pc'[r] = "closed" /\ req'[r] = NoRequest /\ lock' = LocksWithout(r) /\ UNCHANGED tables
      /\ \A s \in Requests \ {r} : pc'[s] = pc[s] /\ req'[s] = req[s]
  BY DEF Refuse, Goto, TypeOK
<1>2. TypeOK'
  BY Released DEF TypeOK, Refuse, Goto, tables, NoRequest, Request, GivenNames
<1>3. Frame(r)
  BY <1>1, Released DEF Frame, Spares, tables, Live, WorksOf, NoRequest, Request
<1>4. SlotInv(r)'
  BY <1>1, OpFacts DEF SlotInv, CreateInv, UpdateInv, DeleteInv, NoRequest, Request, Ops, AuthorOps, BookOps
<1>5. NoNewEntry
  BY <1>1 DEF NoNewEntry, Entered, Naming
<1> QED BY <1>1, <1>2, <1>3, <1>4, <1>5 DEF QuietStep

\* The step changes the slot and the answer of r only; TypeOK and SlotInv of
\* the new values of that slot are what remains to be shown.
LEMMA MoveStep ==
  ASSUME IInv, NEW r \in Requests, UNCHANGED <<tables, lock>>, TypeOK', SlotInv(r)',
         req'[r].linked \subseteq req[r].linked, ~Entered(r)' \/ (Entered(r) /\ req'[r] = req[r]),
         \A s \in Requests \ {r} : pc'[s] = pc[s] /\ req'[s] = req[s]
  PROVE  QuietStep(r)
<1>1. Frame(r)
  BY MoveFrame
<1>2. NoNewEntry
  BY DEF NoNewEntry, Entered, Naming
<1> QED BY <1>1, <1>2 DEF QuietStep, tables

LEMMA BeginStep ==
  ASSUME IInv, NEW r \in Requests, NEW parameters, NEW statement,
         Begin(r, statement, parameters), parameters.linked = {},
         TypeOK', SlotInv(r)', statement \notin {"link", "answered"}
  PROVE  QuietStep(r)
<1>1. /\ pc'[r] = statement /\ req'[r] = parameters /\ UNCHANGED <<tables, lock>>
      /\ \A s \in Requests \ {r} : pc'[s] = pc[s] /\ req'[s] = req[s]
  BY DEF Begin, Goto, IInv, TypeOK
<1>2. ~Entered(r)'
  BY <1>1 DEF Entered
<1> QED BY <1>1, <1>2, MoveStep

\* The types after the arrival of a request.
LEMMA BeginType ==
  ASSUME TypeOK, NEW r \in Requests, NEW statement \in Statements, NEW op \in Ops,
         NEW row \in Rows \cup {None}, NEW n \in GivenNames, NEW authors \in SUBSET Authors,
         Begin(r, statement, Request(op, row, n, authors))
  PROVE  /\ TypeOK' /\ pc'[r] = statement /\ req'[r] = Request(op, row, n, authors)
         /\ Table(r)' = (IF op \in AuthorOps THEN Authors ELSE Books)
BY DEF TypeOK, Begin, Goto, Request, tables, Table

LEMMA ArriveKeepsIInv ==
  ASSUME IInv, NEW r \in Requests, Arrive(r)
  PROVE  IInv'
<1> TypeOK /\ None \notin Ops /\ Authors \subseteq Rows /\ Books \subseteq Rows
  BY OpFacts DEF IInv, Rows
<1> USE OpFacts DEF Statements, Ops, AuthorOps, BookOps
<1>0. /\ {} \in SUBSET Authors /\ None \in Rows \cup {None}
      /\ None \in GivenNames /\ \A n \in Names \cup {Blank} : n \in GivenNames
  BY DEF GivenNames
<1>1. ASSUME NEW n \in Names \cup {Blank}, BeginCreateAuthor(r, n)
      PROVE  QuietStep(r)
  <2>1. /\ TypeOK' /\ pc'[r] = "exists" /\ req'[r] = Request("create_author", None, n, {})
    BY <1>0, <1>1, BeginType DEF BeginCreateAuthor
  <2>2. SlotInv(r)'
    BY <2>1 DEF SlotInv, CreateInv, UpdateInv, DeleteInv, Request, Committing, Serving
  <2> QED BY <1>1, <2>1, <2>2, BeginStep DEF BeginCreateAuthor, Request
<1>2. ASSUME NEW n \in Names \cup {Blank}, NEW authors \in SUBSET Authors, BeginCreateBook(r, n, authors)
      PROVE  QuietStep(r)
  <2>0. "exists" \in Statements /\ "create_book" \in Ops /\ n \in GivenNames
        /\ Begin(r, "exists", Request("create_book", None, n, authors))
    BY <1>0, <1>2 DEF BeginCreateBook
  <2>1. /\ TypeOK' /\ pc'[r] = "exists" /\ req'[r] = Request("create_book", None, n, authors)
    <3> HIDE DEF Statements, Ops, AuthorOps, BookOps
    <3> QED BY ONLY TypeOK, <1>0, <2>0, BeginType
  <2>2. SlotInv(r)'
    BY <2>1 DEF SlotInv, CreateInv, UpdateInv, DeleteInv, Request, Committing, Serving, At
  <2> QED BY <1>2, <2>1, <2>2, BeginStep DEF BeginCreateBook, Request
<1>3. ASSUME NEW a \in Authors, NEW n \in GivenNames, BeginUpdateAuthor(r, a, n)
      PROVE  QuietStep(r)
  <2> DEFINE statement == IF n \in Names THEN "exists" ELSE "update"
  <2>1. /\ TypeOK' /\ pc'[r] = statement /\ req'[r] = Request("update_author", a, n, {})
        /\ Table(r)' = Authors
    BY <1>0, <1>3, BeginType DEF BeginUpdateAuthor
  <2>2. SlotInv(r)'
    BY <2>1 DEF SlotInv, CreateInv, UpdateInv, DeleteInv, Request
  <2> QED BY <1>3, <2>1, <2>2, BeginStep DEF BeginUpdateAuthor, Request
<1>4. ASSUME NEW b \in Books, NEW n \in GivenNames, BeginUpdateBook(r, b, n)
      PROVE  QuietStep(r)
  <2> DEFINE statement == IF n \in Names THEN "exists" ELSE "update"
  <2>1. /\ TypeOK' /\ pc'[r] = statement /\ req'[r] = Request("update_book", b, n, {})
        /\ Table(r)' = Books
    BY <1>0, <1>4, BeginType DEF BeginUpdateBook
  <2>2. SlotInv(r)'
    BY <2>1 DEF SlotInv, CreateInv, UpdateInv, DeleteInv, Request
  <2> QED BY <1>4, <2>1, <2>2, BeginStep DEF BeginUpdateBook, Request
<1>5. ASSUME NEW a \in Authors, BeginDeleteAuthor(r, a)
      PROVE  QuietStep(r)
  <2>1. /\ TypeOK' /\ pc'[r] = "delete" /\ req'[r] = Request("delete_author", a, None, {})
        /\ Table(r)' = Authors
    BY <1>0, <1>5, BeginType DEF BeginDeleteAuthor
  <2>2. SlotInv(r)'
    BY <2>1 DEF SlotInv, CreateInv, UpdateInv, DeleteInv, Request
  <2> QED BY <1>5, <2>1, <2>2, BeginStep DEF BeginDeleteAuthor, Request
<1>6. ASSUME NEW b \in Books, BeginDeleteBook(r, b)
      PROVE  QuietStep(r)
  <2>1. /\ TypeOK' /\ pc'[r] = "delete" /\ req'[r] = Request("delete_book", b, None, {})
        /\ Table(r)' = Books
    BY <1>0, <1>6, BeginType DEF BeginDeleteBook
  <2>2. SlotInv(r)'
    BY <2>1 DEF SlotInv, CreateInv, UpdateInv, DeleteInv, Request
  <2> QED BY <1>6, <2>1, <2>2, BeginStep DEF BeginDeleteBook, Request
<1> QED BY <1>1, <1>2, <1>3, <1>4, <1>5, <1>6, QuietStepKeepsIInv DEF Arrive

-----------------------------------------------------------------------------
(* Statements that read, lock, link or refuse *)

LEMMA ContinueStep ==
  ASSUME IInv, NEW r \in Requests, NEW statement \in Statements \ {"link"},
         Continue(r, statement), SlotInv(r)'
  PROVE  QuietStep(r)
<1>1. /\ pc'[r] = statement /\ UNCHANGED <<tables, lock, req>>
      /\ \A s \in Requests \ {r} : pc'[s] = pc[s] /\ req'[s] = req[s]
  BY DEF Continue, Goto, IInv, TypeOK
<1>2. TypeOK'
  BY DEF IInv, TypeOK, Continue, Goto, tables
<1>3. ~Entered(r)'
  BY <1>1 DEF Entered, Statements
<1> QED BY <1>1, <1>2, <1>3, MoveStep

\* The slot of r after a statement that only moves it on.
LEMMA ContinueSlot ==
  ASSUME IInv, NEW r \in Requests, NEW statement, Continue(r, statement)
  PROVE  /\ SlotInv(r) /\ pc'[r] = statement /\ req'[r] = req[r] /\ Table(r)' = Table(r)
         /\ lock' = lock /\ rows' = rows /\ authors_books' = authors_books
BY DEF IInv, TypeOK, Continue, Goto, Table, tables

LEMMA ReadKeepsIInv ==
  ASSUME IInv, NEW r \in Requests,
         ExistsByName(r) \/ ExistsByTitle(r) \/ GetByIds(r)
  PROVE  IInv'
<1> USE OpFacts DEF Statements, Refusals
<1>1. CASE ExistsByName(r)
  <2>1. CASE Refuse(r, "AuthorAlreadyExists")
    BY <2>1, RefuseStep, QuietStepKeepsIInv
  <2>2. CASE Continue(r, IF req[r].op = "create_author" THEN "insert" ELSE "update")
    <3> DEFINE statement == IF req[r].op = "create_author" THEN "insert" ELSE "update"
    <3>1. /\ SlotInv(r) /\ pc'[r] = statement /\ req'[r] = req[r] /\ Table(r)' = Table(r)
          /\ pc[r] = "exists" /\ req[r].op \in AuthorOps
      BY <1>1, <2>2, ContinueSlot DEF ExistsByName, At
    <3>2. SlotInv(r)'
      BY <3>1 DEF SlotInv, CreateInv, UpdateInv, DeleteInv, AuthorOps, Committing, Serving, At
    <3> QED BY <2>2, <3>2, ContinueStep, QuietStepKeepsIInv
  <2> QED BY <1>1, <2>1, <2>2 DEF ExistsByName
<1>2. CASE ExistsByTitle(r)
  <2>1. CASE Refuse(r, "BookAlreadyExists")
    BY <2>1, RefuseStep, QuietStepKeepsIInv
  <2>2. CASE Continue(r, IF req[r].op = "create_book" THEN "get_by_ids" ELSE "update")
    <3> DEFINE statement == IF req[r].op = "create_book" THEN "get_by_ids" ELSE "update"
    <3>1. /\ SlotInv(r) /\ pc'[r] = statement /\ req'[r] = req[r] /\ Table(r)' = Table(r)
          /\ pc[r] = "exists" /\ req[r].op \in BookOps
      BY <1>2, <2>2, ContinueSlot DEF ExistsByTitle, At
    <3>2. SlotInv(r)'
      BY <3>1 DEF SlotInv, CreateInv, UpdateInv, DeleteInv, BookOps, Committing, Serving, At
    <3> QED BY <2>2, <3>2, ContinueStep, QuietStepKeepsIInv
  <2> QED BY <1>2, <2>1, <2>2 DEF ExistsByTitle
<1>3. CASE GetByIds(r)
  <2>1. CASE Refuse(r, "AuthorNotFound")
    BY <2>1, RefuseStep, QuietStepKeepsIInv
  <2>2. CASE Continue(r, "select_authors")
    <3>1. /\ SlotInv(r) /\ pc'[r] = "select_authors" /\ req'[r] = req[r] /\ Table(r)' = Table(r)
          /\ pc[r] = "get_by_ids" /\ req[r].op = "create_book"
      BY <1>3, <2>2, ContinueSlot DEF GetByIds, Serving, At
    <3>2. SlotInv(r)'
      BY <3>1 DEF SlotInv, CreateInv, UpdateInv, DeleteInv, Committing, Serving, At
    <3> QED BY <2>2, <3>2, ContinueStep, QuietStepKeepsIInv
  <2> QED BY <1>3, <2>1, <2>2 DEF GetByIds
<1> QED BY <1>1, <1>2, <1>3

LEMMA SelectAuthorsKeepsIInv ==
  ASSUME IInv, NEW r \in Requests, SelectAuthors(r)
  PROVE  IInv'
<1> DEFINE found == {a \in req[r].authors : Live(a)}
<1> TypeOK /\ SlotInv(r) /\ req[r].op = "create_book" /\ pc[r] = "select_authors"
  BY DEF IInv, SelectAuthors, Serving, At
<1>1. /\ pc'[r] = "insert" /\ req'[r] = [req[r] EXCEPT !.authors = found] /\ UNCHANGED <<tables, lock, reply>>
      /\ \A s \in Requests \ {r} : pc'[s] = pc[s] /\ req'[s] = req[s]
  BY DEF SelectAuthors, Goto, TypeOK
<1>2. req[r] \in [op : Ops \cup {None}, row : Rows \cup {None}, name : GivenNames,
                  authors : SUBSET Authors, linked : SUBSET Authors]
  BY DEF TypeOK
<1>3. /\ req'[r].op = req[r].op /\ req'[r].name = req[r].name /\ req'[r].row = req[r].row
      /\ req'[r].linked = req[r].linked
  BY <1>1, <1>2
<1>4. TypeOK'
  <2>1. found \in SUBSET Authors
    BY <1>2
  <2>2. req' \in [Requests -> [op : Ops \cup {None}, row : Rows \cup {None}, name : GivenNames,
                               authors : SUBSET Authors, linked : SUBSET Authors]]
    <3> DEFINE slot == [req[r] EXCEPT !.authors = found]
    <3>1. slot \in [op : Ops \cup {None}, row : Rows \cup {None}, name : GivenNames,
                    authors : SUBSET Authors, linked : SUBSET Authors]
      <4> HIDE DEF found
      <4> QED BY <1>2, <2>1
    <3>2. req' = [req EXCEPT ![r] = slot]
      BY DEF SelectAuthors
    <3> HIDE DEF slot
    <3> QED BY <3>1, <3>2 DEF TypeOK
  <2>3. pc' \in [Requests -> Statements \cup {"idle", "answered", "closed"}]
    BY DEF TypeOK, SelectAuthors, Goto, Statements
  <2> QED BY <1>1, <2>2, <2>3 DEF TypeOK, tables
<1>5. SlotInv(r)'
  BY <1>1, <1>3, OpFacts DEF SlotInv, CreateInv, UpdateInv, DeleteInv, Committing, Serving, At, Ops
<1>6. ~Entered(r)'
  BY <1>1 DEF Entered
<1> QED BY <1>1, <1>3, <1>4, <1>5, <1>6, MoveStep, QuietStepKeepsIInv

LEMMA LockRowStep ==
  ASSUME IInv, NEW r \in Requests, NEW statement \in {"index", "restrict", "answered"},
         LockRow(r, statement), req[r].row \in Rows, SlotInv(r)',
         statement = "answered" => ~Naming(r)
  PROVE  QuietStep(r)
<1> TypeOK
  BY DEF IInv
<1>1. /\ pc'[r] = statement /\ UNCHANGED <<tables, req, reply>> /\ lock' = [lock EXCEPT ![req[r].row] = r]
      /\ \A s \in Requests \ {r} : pc'[s] = pc[s] /\ req'[s] = req[s]
      /\ lock[req[r].row] \notin Requests
  BY DEF LockRow, Goto, TypeOK, HolderOf
<1>2. TypeOK'
  BY <1>1 DEF TypeOK, LockRow, Goto, Statements, tables
<1>3. \A s \in Requests \ {r}, x \in Rows : lock'[x] = s <=> lock[x] = s
  BY <1>1 DEF TypeOK
<1>4. Frame(r)
  BY <1>1, <1>3 DEF Frame, Spares, tables, Live, WorksOf
<1>5. NoNewEntry
  BY <1>1 DEF NoNewEntry, Entered, Naming
<1> QED BY <1>1, <1>2, <1>4, <1>5 DEF QuietStep

\* The slot of r when it has locked its row.
LEMMA LockRowSlot ==
  ASSUME IInv, NEW r \in Requests, NEW statement, LockRow(r, statement), req[r].row \in Rows
  PROVE  /\ SlotInv(r) /\ pc'[r] = statement /\ req' = req /\ Table(r)' = Table(r)
         /\ lock'[req[r].row] = r /\ rows' = rows /\ authors_books' = authors_books
BY DEF IInv, TypeOK, LockRow, Goto, Table, tables

LEMMA UpdateKeepsIInv ==
  ASSUME IInv, NEW r \in Requests, UpdateAuthor(r) \/ UpdateBook(r)
  PROVE  IInv'
<1> SlotInv(r) /\ TypeOK
  BY DEF IInv
<1>0. req[r].row \in Table(r) /\ req[r].row \in Rows /\ req[r].name \in GivenNames
  BY TableFacts DEF UpdateAuthor, UpdateBook, Serving, SlotInv, UpdateInv, TypeOK
<1>1. CASE UpdateAuthor(r)
  <2>1. CASE \E error \in Refusals : Refuse(r, error)
    BY <2>1, RefuseStep, QuietStepKeepsIInv
  <2>2. CASE Live(req[r].row) /\ req[r].name \notin {Null, Blank} /\ LockRow(r, "index")
    <3>1. req[r].op = "update_author" /\ req[r].name \in Names \cup {None}
      BY <1>0, <1>1, <2>2 DEF UpdateAuthor, Serving, GivenNames
    <3>2. SlotInv(r)'
      BY <1>0, <2>2, <3>1, LockRowSlot, OpFacts
         DEF SlotInv, CreateInv, UpdateInv, DeleteInv, Live, Ops
    <3> QED BY <1>0, <2>2, <3>2, LockRowStep, QuietStepKeepsIInv
  <2> QED BY <1>1, <2>1, <2>2 DEF UpdateAuthor, Refusals
<1>2. CASE UpdateBook(r)
  <2>1. CASE \E error \in Refusals : Refuse(r, error)
    BY <2>1, RefuseStep, QuietStepKeepsIInv
  <2>2. CASE Live(req[r].row) /\ req[r].name # Null /\ LockRow(r, "index")
    <3>1. req[r].op = "update_book" /\ req[r].name \in Names \cup {Blank, None}
      BY <1>0, <1>2, <2>2 DEF UpdateBook, Serving, GivenNames
    <3>2. SlotInv(r)'
      BY <1>0, <2>2, <3>1, LockRowSlot, OpFacts
         DEF SlotInv, CreateInv, UpdateInv, DeleteInv, Live, Ops
    <3> QED BY <1>0, <2>2, <3>2, LockRowStep, QuietStepKeepsIInv
  <2> QED BY <1>2, <2>1, <2>2 DEF UpdateBook, Refusals
<1> QED BY <1>1, <1>2

LEMMA DeleteKeepsIInv ==
  ASSUME IInv, NEW r \in Requests, DeleteAuthor(r) \/ DeleteBook(r)
  PROVE  IInv'
<1> SlotInv(r) /\ TypeOK
  BY DEF IInv
<1>0. req[r].row \in Table(r) /\ req[r].row \in Rows
  BY TableFacts DEF DeleteAuthor, DeleteBook, Serving, SlotInv, DeleteInv
<1>1. CASE DeleteAuthor(r)
  <2>1. CASE Refuse(r, "AuthorNotFound")
    BY <2>1, RefuseStep, QuietStepKeepsIInv DEF Refusals
  <2>2. CASE Live(req[r].row) /\ Sharers(req[r].row) = {} /\ LockRow(r, "restrict")
    <3>1. req[r].op = "delete_author"
      BY <1>1 DEF DeleteAuthor, Serving
    <3>2. SlotInv(r)'
      BY <1>0, <2>2, <3>1, LockRowSlot, OpFacts
         DEF SlotInv, CreateInv, UpdateInv, DeleteInv, Live, Sharers, Ops
    <3> QED BY <1>0, <2>2, <3>2, LockRowStep, QuietStepKeepsIInv
  <2> QED BY <1>1, <2>1, <2>2 DEF DeleteAuthor
<1>2. CASE DeleteBook(r)
  <2>1. CASE Refuse(r, "BookNotFound")
    BY <2>1, RefuseStep, QuietStepKeepsIInv DEF Refusals
  <2>2. CASE /\ Live(req[r].row) /\ HolderOf(req[r].row) = {}
             /\ lock' = [lock EXCEPT ![req[r].row] = r]
             /\ Answer(r) /\ UNCHANGED <<tables, req>>
    <3>1. req[r].op = "delete_book" /\ ~Naming(r)
      BY <1>2 DEF DeleteBook, Serving, Naming
    <3>2. /\ pc'[r] = "answered" /\ lock'[req[r].row] = r /\ Table(r)' = Table(r)
          /\ \A s \in Requests \ {r} : pc'[s] = pc[s] /\ req'[s] = req[s]
      BY <1>0, <2>2 DEF Answer, Goto, TypeOK, Table
    <3>3. SlotInv(r)'
      BY <1>0, <2>2, <3>1, <3>2, OpFacts DEF SlotInv, CreateInv, UpdateInv, DeleteInv, Live, Ops, tables
    <3>4. TypeOK'
      BY <1>0, <2>2 DEF TypeOK, Answer, Goto, tables
    <3>5. \A s \in Requests \ {r}, x \in Rows : lock'[x] = s <=> lock[x] = s
      BY <1>0, <2>2 DEF TypeOK, HolderOf
    <3>6. Frame(r)
      BY <2>2, <3>2, <3>5 DEF Frame, Spares, tables, Live, WorksOf
    <3>7. NoNewEntry
      BY <2>2, <3>1, <3>2 DEF NoNewEntry, Entered, Naming
    <3> QED BY <2>2, <3>3, <3>4, <3>6, <3>7, QuietStepKeepsIInv DEF QuietStep
  <2> QED BY <1>2, <2>1, <2>2 DEF DeleteBook
<1> QED BY <1>1, <1>2

LEMMA RestrictKeepsIInv ==
  ASSUME IInv, NEW r \in Requests, RestrictAuthor(r)
  PROVE  IInv'
<1> SlotInv(r) /\ TypeOK /\ req[r].op = "delete_author" /\ pc[r] = "restrict"
  BY DEF IInv, RestrictAuthor, Serving, At
<1>1. CASE Refuse(r, "InternalServerError")
  BY <1>1, RefuseStep, QuietStepKeepsIInv DEF Refusals
<1>2. CASE WorksOf(req[r].row) = {} /\ Answer(r) /\ UNCHANGED <<tables, req, lock>>
  <2>1. /\ pc'[r] = "answered" /\ Table(r)' = Table(r) /\ WorksOf(req[r].row)' = {}
        /\ \A s \in Requests \ {r} : pc'[s] = pc[s] /\ req'[s] = req[s]
    BY <1>2 DEF Answer, Goto, TypeOK, Table, WorksOf, Live, tables
  <2>2. SlotInv(r)'
    BY <1>2, <2>1, OpFacts
       DEF SlotInv, CreateInv, UpdateInv, DeleteInv, Live, Ops, tables, Sharers
  <2>3. TypeOK'
    BY <1>2 DEF TypeOK, Answer, Goto, tables
  <2>4. ~Entered(r)'
    BY <1>2 DEF Entered, Naming
  <2> QED BY <1>2, <2>1, <2>2, <2>3, <2>4, MoveStep, QuietStepKeepsIInv
<1> QED BY <1>1, <1>2 DEF RestrictAuthor

LEMMA LinkKeepsIInv ==
  ASSUME IInv, NEW r \in Requests, LinkAuthor(r)
  PROVE  IInv'
<1> SlotInv(r) /\ TypeOK /\ req[r].op = "create_book" /\ pc[r] = "link"
  BY DEF IInv, LinkAuthor, Serving, At
<1>1. CASE Refuse(r, "InternalServerError")
  BY <1>1, RefuseStep, QuietStepKeepsIInv DEF Refusals
<1>2. ASSUME NEW a \in req[r].authors \ req[r].linked, BeingDeleted(a) = {}, Live(a),
             req' = [req EXCEPT ![r].linked = @ \cup {a}],
             IF req[r].authors \ req[r].linked = {a} THEN Answer(r) ELSE UNCHANGED <<pc, reply>>,
             UNCHANGED <<tables, lock>>
      PROVE  IInv'
  <2>1. req[r] \in [op : Ops \cup {None}, row : Rows \cup {None}, name : GivenNames,
                    authors : SUBSET Authors, linked : SUBSET Authors]
    BY DEF TypeOK
  <2>2. /\ a \in Authors
        /\ req'[r].op = req[r].op /\ req'[r].name = req[r].name /\ req'[r].row = req[r].row
        /\ req'[r].authors = req[r].authors /\ req'[r].linked = req[r].linked \cup {a}
        /\ \A s \in Requests \ {r} : pc'[s] = pc[s] /\ req'[s] = req[s]
    BY <1>2, <2>1 DEF TypeOK, Answer, Goto
  <2>3. \/ pc'[r] = "link"
        \/ pc'[r] = "answered" /\ req'[r].linked = req[r].authors
    BY <1>2, <2>2 DEF TypeOK, Answer, Goto, SlotInv
  <2>4. TypeOK'
    <3> DEFINE slot == [req[r] EXCEPT !.linked = @ \cup {a}]
    <3>1. slot \in [op : Ops \cup {None}, row : Rows \cup {None}, name : GivenNames,
                    authors : SUBSET Authors, linked : SUBSET Authors]
      <4>1. req[r].linked \cup {a} \in SUBSET Authors
        BY <2>1, <2>2
      <4> QED BY <2>1, <4>1
    <3>2. req' \in [Requests -> [op : Ops \cup {None}, row : Rows \cup {None}, name : GivenNames,
                                 authors : SUBSET Authors, linked : SUBSET Authors]]
      <4>1. req' = [req EXCEPT ![r] = slot]
        BY <1>2
      <4> HIDE DEF slot
      <4> QED BY <3>1, <4>1 DEF TypeOK
    <3>3. pc' \in [Requests -> Statements \cup {"idle", "answered", "closed"}]
          /\ reply' \in [Requests -> Refusals \cup {None, "ok"}]
      BY <1>2 DEF TypeOK, Answer, Goto
    <3> QED BY <1>2, <3>2, <3>3 DEF TypeOK, tables
  <2>5. SlotInv(r)'
    <3>1. Table(r)' = Table(r)
      BY <2>2 DEF Table
    <3> QED BY <1>2, <2>2, <2>3, <3>1, OpFacts
            DEF SlotInv, CreateInv, UpdateInv, DeleteInv, Committing, Serving, At, Live, Ops, tables
  <2>6. Frame(r)
    BY <1>2, <2>2 DEF Frame, Spares, tables, Live, WorksOf, BeingDeleted
  <2>7. NoNewEntry
    BY <2>2 DEF NoNewEntry, Entered, Naming
  <2> QED BY <1>2, <2>4, <2>5, <2>6, <2>7, QuietStepKeepsIInv DEF QuietStep
<1> QED BY <1>1, <1>2 DEF LinkAuthor

-----------------------------------------------------------------------------
(* Statements that enter a name in its index *)

\* Once the index is free of the name of r, nobody else has an equal entry, in
\* the table or in a transaction in progress.
LEMMA EntryAdded ==
  ASSUME IInv, NEW r \in Requests, IndexIsFree(r), UNCHANGED <<tables, lock>>, TypeOK', SlotInv(r)',
         req'[r].op = req[r].op, req'[r].name = req[r].name, req'[r].linked = req[r].linked,
         \A s \in Requests \ {r} : pc'[s] = pc[s] /\ req'[s] = req[s],
         \/ req'[r].row = req[r].row /\ req[r].op \in {"update_author", "update_book"}
         \/ req[r].row = None /\ req'[r].row \in Unused(Rows)
  PROVE  IInv'
<1>1. Frame(r)
  BY MoveFrame
<1>2. \A s \in Requests : SlotInv(s)'
  BY <1>1, OthersKeepInv DEF IInv
<1>3. \A s \in Requests : Table(s)' = Table(s) /\ req'[s].name = req[s].name /\ req'[s].op = req[s].op
  BY DEF Table
<1>4. \A s \in Requests \ {r} : (Entered(s)' <=> Entered(s)) /\ Namesakes(s)' = Namesakes(s)
  BY <1>3 DEF Entered, Naming, Namesakes, Live, tables
<1>5. Namesakes(r)' = {}
  <2>1. Namesakes(r) = {} /\ Table(r) \subseteq Rows
    BY TableFacts DEF IndexIsFree
  <2>2. req'[r].row = req[r].row \/ req[r].row = None
    OBVIOUS
  <2>3. None \notin Table(r)
    BY <2>1, DistinctIdentities
  <2> QED BY <1>3, <2>1, <2>2, <2>3 DEF Namesakes, Live, tables
<1>6. \A s \in Requests \ {r} : ~(Entered(s) /\ Table(s) = Table(r) /\ req[s].name = req[r].name)
  BY DEF IndexIsFree, IndexHolders
<1>7. EntryInv'
  BY <1>3, <1>4, <1>5, <1>6 DEF EntryInv, IInv
<1>8. ReservedOnce'
  <2>1. ASSUME NEW s \in Requests \ {r}, req[r].op \in {"create_author", "create_book"}
        PROVE  req'[s].row # req'[r].row
    BY <2>1 DEF Unused
  <2> QED BY <1>3, <1>4, <2>1 DEF ReservedOnce, IInv
<1>9. RowsInv' /\ UniqueNames' /\ CreditsExist'
  BY DEF IInv, tables, RowsInv, UniqueNames, CreditsExist, Live
<1> QED BY <1>2, <1>7, <1>8, <1>9 DEF IInv

\* The row that an INSERT makes, as the request remembers it.
LEMMA NewRow ==
  ASSUME TypeOK, NEW r \in Requests, NEW x \in Rows, req' = [req EXCEPT ![r].row = x]
  PROVE  /\ req' \in [Requests -> [op : Ops \cup {None}, row : Rows \cup {None}, name : GivenNames,
                                   authors : SUBSET Authors, linked : SUBSET Authors]]
         /\ req'[r].row = x /\ req'[r].op = req[r].op /\ req'[r].name = req[r].name
         /\ req'[r].authors = req[r].authors /\ req'[r].linked = req[r].linked
         /\ \A s \in Requests \ {r} : req'[s] = req[s]
<1> DEFINE slot == [req[r] EXCEPT !.row = x]
<1>1. req[r] \in [op : Ops \cup {None}, row : Rows \cup {None}, name : GivenNames,
                  authors : SUBSET Authors, linked : SUBSET Authors]
  BY DEF TypeOK
<1>2. slot \in [op : Ops \cup {None}, row : Rows \cup {None}, name : GivenNames,
                authors : SUBSET Authors, linked : SUBSET Authors]
  BY <1>1
<1>3. /\ slot.row = x /\ slot.op = req[r].op /\ slot.name = req[r].name
      /\ slot.authors = req[r].authors /\ slot.linked = req[r].linked
  BY <1>1
<1>4. req' = [req EXCEPT ![r] = slot]
  OBVIOUS
<1> HIDE DEF slot
<1> QED BY <1>2, <1>3, <1>4 DEF TypeOK

LEMMA InsertKeepsIInv ==
  ASSUME IInv, NEW r \in Requests, InsertAuthor(r) \/ InsertBook(r)
  PROVE  IInv'
<1> SlotInv(r) /\ TypeOK /\ pc[r] = "insert" /\ req[r].op \in {"create_author", "create_book"}
  BY DEF IInv, InsertAuthor, InsertBook, Serving, At
<1>0. /\ req[r].row = None /\ req[r].linked = {} /\ req[r].name \in Names \cup {Blank}
      /\ Authors \subseteq Rows /\ Books \subseteq Rows
  BY DEF SlotInv, CreateInv, Rows
<1>1. CASE InsertAuthor(r)
  <2>1. CASE \E error \in Refusals : Refuse(r, error)
    BY <2>1, RefuseStep, QuietStepKeepsIInv
  <2>2. ASSUME req[r].name # Blank, IndexIsFree(r), Answer(r), UNCHANGED <<tables, lock>>,
               NEW a \in Unused(Authors), req' = [req EXCEPT ![r].row = a]
        PROVE  IInv'
    <3>1. /\ a \in Rows /\ a \in Authors /\ a \in Unused(Rows) /\ rows[a].status = "none"
          /\ req[r].op = "create_author" /\ Table(r) = Authors
      BY <1>0, <1>1, <2>2, OpFacts DEF Unused, InsertAuthor, Serving, Table
    <3>2. /\ pc'[r] = "answered" /\ \A s \in Requests \ {r} : pc'[s] = pc[s]
          /\ Table(r)' = Authors
      BY <2>2, <3>1, NewRow, OpFacts DEF Answer, Goto, TypeOK, Table
    <3>3. TypeOK'
      BY <2>2, <3>1, NewRow DEF TypeOK, Answer, Goto, tables
    <3>4. SlotInv(r)'
      <4>1. /\ req'[r].row = a /\ req'[r].op = "create_author" /\ req'[r].name = req[r].name
            /\ req'[r].authors = req[r].authors /\ req'[r].linked = {} /\ rows' = rows
        BY <1>0, <2>2, <3>1, NewRow DEF tables
      <4>2. CreateInv(r)'
        BY <1>0, <2>2, <3>1, <3>2, <4>1 DEF CreateInv, Committing, Serving, At, Live
      <4>3. UpdateInv(r)' /\ DeleteInv(r)'
        BY <4>1 DEF UpdateInv, DeleteInv
      <4> QED BY <3>2, <4>1, <4>2, <4>3, OpFacts DEF SlotInv, Ops
    <3>5. /\ req'[r].op = req[r].op /\ req'[r].name = req[r].name /\ req'[r].linked = req[r].linked
          /\ req[r].row = None /\ req'[r].row \in Unused(Rows)
          /\ \A s \in Requests \ {r} : pc'[s] = pc[s] /\ req'[s] = req[s]
      BY <1>0, <2>2, <3>1, <3>2, NewRow
    <3> QED BY <2>2, <3>3, <3>4, <3>5, EntryAdded
  <2> QED BY <1>1, <2>1, <2>2 DEF InsertAuthor, Refusals
<1>2. CASE InsertBook(r)
  <2>1. CASE \E error \in Refusals : Refuse(r, error)
    BY <2>1, RefuseStep, QuietStepKeepsIInv
  <2>2. ASSUME IndexIsFree(r), UNCHANGED <<tables, lock>>,
               IF req[r].authors = {} THEN Answer(r) ELSE Goto(r, "link") /\ UNCHANGED reply,
               NEW b \in Unused(Books), req' = [req EXCEPT ![r].row = b]
        PROVE  IInv'
    <3>1. /\ b \in Rows /\ b \in Books /\ b \in Unused(Rows) /\ rows[b].status = "none"
          /\ req[r].op = "create_book" /\ Table(r) = Books
      BY <1>0, <1>2, <2>2, OpFacts DEF Unused, InsertBook, Serving, Table
    <3>2. /\ pc'[r] = (IF req[r].authors = {} THEN "answered" ELSE "link")
          /\ \A s \in Requests \ {r} : pc'[s] = pc[s]
          /\ Table(r)' = Books
      BY <2>2, <3>1, NewRow, OpFacts DEF Answer, Goto, TypeOK, Table
    <3>3. TypeOK'
      <4>1. /\ pc' \in [Requests -> Statements \cup {"idle", "answered", "closed"}]
            /\ reply' \in [Requests -> Refusals \cup {None, "ok"}]
        BY <2>2 DEF TypeOK, Answer, Goto, Statements
      <4>2. req' \in [Requests -> [op : Ops \cup {None}, row : Rows \cup {None}, name : GivenNames,
                                  authors : SUBSET Authors, linked : SUBSET Authors]]
        BY <2>2, <3>1, NewRow
      <4> QED BY <2>2, <4>1, <4>2 DEF TypeOK, tables
    <3>4. SlotInv(r)'
      <4>1. /\ req'[r].row = b /\ req'[r].op = "create_book" /\ req'[r].name = req[r].name
            /\ req'[r].authors = req[r].authors /\ req'[r].linked = {} /\ rows' = rows
        BY <1>0, <2>2, <3>1, NewRow DEF tables
      <4>2. CreateInv(r)'
        BY <1>0, <3>1, <3>2, <4>1, OpFacts DEF CreateInv, Committing, Serving, At, Live
      <4>3. UpdateInv(r)' /\ DeleteInv(r)'
        BY <4>1 DEF UpdateInv, DeleteInv
      <4> QED BY <3>2, <4>1, <4>2, <4>3, OpFacts DEF SlotInv, Ops
    <3>5. /\ req'[r].op = req[r].op /\ req'[r].name = req[r].name /\ req'[r].linked = req[r].linked
          /\ req[r].row = None /\ req'[r].row \in Unused(Rows)
          /\ \A s \in Requests \ {r} : pc'[s] = pc[s] /\ req'[s] = req[s]
      BY <1>0, <2>2, <3>1, <3>2, NewRow
    <3> QED BY <2>2, <3>3, <3>4, <3>5, EntryAdded
  <2> QED BY <1>2, <2>1, <2>2 DEF InsertBook, Refusals
<1> QED BY <1>1, <1>2

LEMMA IndexKeepsIInv ==
  ASSUME IInv, NEW r \in Requests, IndexAuthorName(r) \/ IndexBookTitle(r)
  PROVE  IInv'
<1> SlotInv(r) /\ TypeOK /\ pc[r] = "index" /\ req[r].op \in {"update_author", "update_book"}
  BY DEF IInv, IndexAuthorName, IndexBookTitle, Serving, At
<1>1. CASE \E error \in Refusals : Refuse(r, error)
  BY <1>1, RefuseStep, QuietStepKeepsIInv
<1>2. CASE IndexIsFree(r) /\ Answer(r) /\ UNCHANGED <<tables, req, lock>>
  <2>1. /\ pc'[r] = "answered" /\ Table(r)' = Table(r)
        /\ \A s \in Requests \ {r} : pc'[s] = pc[s] /\ req'[s] = req[s]
    BY <1>2 DEF Answer, Goto, TypeOK, Table
  <2>2. TypeOK'
    BY <1>2 DEF TypeOK, Answer, Goto, tables
  <2>3. SlotInv(r)'
    BY <1>2, <2>1, OpFacts DEF SlotInv, CreateInv, UpdateInv, DeleteInv, Live, Ops, tables
  <2> QED BY <1>2, <2>1, <2>2, <2>3, EntryAdded
<1> QED BY <1>1, <1>2 DEF IndexAuthorName, IndexBookTitle, Refusals

-----------------------------------------------------------------------------
(* Commits *)

\* What a commit of r must do to the tables for the invariants to hold again.
LEMMA FinishKeepsIInv ==
  ASSUME IInv, NEW r \in Requests, Finish(r),
         rows' \in [Rows -> [status : {"none", "live", "gone"}, name : Names \cup {Blank, None}]],
         authors_books' \subseteq Books \X Authors, Frame(r),
         \A s \in Requests \ {r} : Entered(s) => Namesakes(s)' = {},
         RowsInv', UniqueNames', CreditsExist'
  PROVE  IInv'
<1> TypeOK
  BY DEF IInv
<1>1. /\ pc'[r] = "idle" /\ req'[r] = NoRequest /\ lock' = LocksWithout(r)
      /\ \A s \in Requests \ {r} : pc'[s] = pc[s] /\ req'[s] = req[s]
  BY DEF Finish, Goto, TypeOK
<1>2. TypeOK'
  BY Released DEF TypeOK, Finish, Goto, NoRequest, Request, GivenNames
<1>3. SlotInv(r)'
  BY <1>1, OpFacts DEF SlotInv, CreateInv, UpdateInv, DeleteInv, NoRequest, Request, Ops, AuthorOps, BookOps
<1>4. \A s \in Requests : SlotInv(s)'
  BY <1>3, OthersKeepInv DEF IInv
<1>5. \A s \in Requests : Entered(s)' => s # r /\ Entered(s) /\ Table(s)' = Table(s)
  BY <1>1 DEF Entered, Naming, Table
<1>6. EntryInv'
  BY <1>1, <1>5 DEF EntryInv, IInv
<1>7. ReservedOnce'
  BY <1>1, <1>5 DEF ReservedOnce, IInv
<1> QED BY <1>2, <1>4, <1>6, <1>7 DEF IInv

\* What a request that ends leaves alone: the slots and locks of the others.
LEMMA FinishFrame ==
  ASSUME TypeOK, NEW r \in Requests, Finish(r)
  PROVE  /\ req'[r].linked = {} /\ req'[r].op = None
         /\ \A s \in Requests \ {r} : /\ pc'[s] = pc[s] /\ req'[s] = req[s]
                                      /\ \A x \in Rows : lock'[x] = s <=> lock[x] = s
BY Released DEF TypeOK, Finish, Goto, NoRequest, Request

\* A row that gets the name that r has entered in the index is the only one of
\* that name, and no other request waits to give the name to a second one.
LEMMA NameGiven ==
  ASSUME IInv, NEW r \in Requests, Entered(r), Finish(r),
         req[r].row \in Table(r), req[r].name \in Names \cup {Blank},
         rows' = [rows EXCEPT ![req[r].row] = Named(req[r].name)]
  PROVE  /\ rows' \in [Rows -> [status : {"none", "live", "gone"}, name : Names \cup {Blank, None}]]
         /\ RowsInv' /\ UniqueNames'
         /\ \A s \in Requests \ {r} : Entered(s) => Namesakes(s)' = {}
         /\ \A x \in Rows : Live(x) => Live(x)'
<1> TypeOK
  BY DEF IInv
<1>0. PICK w \in Rows : w = req[r].row
  BY TableFacts
<1>1. /\ rows'[w].status = "live" /\ rows'[w].name = req[r].name /\ Live(w)'
      /\ \A x \in Rows \ {w} : rows'[x] = rows[x] /\ (Live(x)' <=> Live(x))
  <2>1. rows'[w] = Named(req[r].name) /\ \A x \in Rows \ {w} : rows'[x] = rows[x]
    BY <1>0 DEF TypeOK
  <2> QED BY <2>1 DEF Named, Live
<1>2. rows' \in [Rows -> [status : {"none", "live", "gone"}, name : Names \cup {Blank, None}]]
  BY DEF TypeOK, Named
<1>3. RowsInv'
  <2>1. req[r].name # None
    BY DistinctIdentities
  <2> SUFFICES ASSUME NEW x \in Rows PROVE Live(x)' <=> rows'[x].name # None
    BY DEF RowsInv
  <2>2. CASE x = w
    BY <1>1, <2>1, <2>2
  <2>3. CASE x # w
    BY <1>1, <2>3 DEF RowsInv, IInv
  <2> QED BY <2>2, <2>3
<1>4. \A x \in Table(r) \ {w} : Live(x) => rows[x].name # req[r].name
  BY <1>0 DEF IInv, EntryInv, Namesakes
<1>5. UniqueNames'
  <2> SUFFICES ASSUME NEW x \in Rows, NEW y \in Rows, Live(x)', Live(y)',
                      rows'[x].name = rows'[y].name, x \in Authors <=> y \in Authors, x # y
               PROVE  FALSE
    BY DEF UniqueNames
  <2>1. CASE x # w /\ y # w
    BY <1>1, <2>1 DEF UniqueNames, IInv
  <2>2. x \in Table(r) <=> y \in Table(r)
    BY TableFacts, DistinctIdentities DEF Rows
  <2>3. CASE x = w
    BY <1>0, <1>1, <1>4, <2>2, <2>3
  <2>4. CASE y = w
    BY <1>0, <1>1, <1>4, <2>2, <2>4
  <2> QED BY <2>1, <2>3, <2>4
<1>6. ASSUME NEW s \in Requests \ {r}, Entered(s) PROVE Namesakes(s)' = {}
  <2>1. Table(s)' = Table(s) /\ req'[s] = req[s] /\ Table(s) \subseteq Rows
    BY FinishFrame, TableFacts DEF Table
  <2>2. Namesakes(s) = {} /\ ~(Table(r) = Table(s) /\ req[r].name = req[s].name)
    BY <1>6 DEF IInv, EntryInv
  <2>3. w \in Table(s) => Table(s) = Table(r)
    BY <1>0, TableFacts, DistinctIdentities
  <2> QED BY <1>1, <2>1, <2>2, <2>3 DEF Namesakes
<1>7. \A x \in Rows : Live(x) => Live(x)'
  BY <1>1
<1> QED BY <1>2, <1>3, <1>5, <1>6, <1>7

\* A commit that gives a name to a new row disturbs no other request.
LEMMA NewcomerFrame ==
  ASSUME IInv, NEW r \in Requests, Committing(r, "create_author") \/ Committing(r, "create_book"),
         Finish(r), rows' = [rows EXCEPT ![req[r].row] = Named(req[r].name)],
         \A x \in Rows : Live(x) => Live(x)',
         \A a \in Authors : Sharers(a) = {} /\ WorksOf(a) = {} => WorksOf(a)' = {}
  PROVE  Frame(r)
<1> TypeOK /\ SlotInv(r)
  BY DEF IInv
<1>1. /\ Entered(r) /\ rows[req[r].row].status = "none"
      /\ req[r].op \in {"create_author", "create_book"}
  BY DistinctIdentities DEF Committing, Serving, At, SlotInv, CreateInv, Entered, Naming
<1>2. \A x \in Rows \ {req[r].row} : rows'[x] = rows[x]
  BY DEF TypeOK
<1> SUFFICES ASSUME NEW s \in Requests \ {r} PROVE Spares(r, s)
  BY DEF Frame
<1>3. req'[r].linked = {} /\ pc'[s] = pc[s] /\ req'[s] = req[s]
      /\ \A x \in Rows : lock'[x] = s <=> lock[x] = s
  BY FinishFrame
<1>4. \A x \in Rows : Live(x) => rows'[x] = rows[x]
  BY <1>1, <1>2 DEF Live
<1>5. ASSUME req[s].op \in {"create_author", "create_book"}, pc[s] \in {"link", "answered"}
      PROVE  rows'[req[s].row] = rows[req[s].row]
  <2>1. SlotInv(s) /\ req[s].row \in Table(s) /\ Entered(s) /\ req[s].row \in Rows
    BY <1>5, TableFacts, DistinctIdentities DEF IInv, SlotInv, CreateInv, Entered, Naming
  <2>2. req[s].row # req[r].row
    BY <1>1, <1>5, <2>1 DEF IInv, ReservedOnce
  <2> QED BY <1>2, <2>1, <2>2
<1>6. \A a \in req[s].linked : Live(a) => Live(a)'
  BY DEF TypeOK, Rows
<1> QED BY <1>3, <1>4, <1>5, <1>6 DEF Spares

LEMMA CommitCreateAuthorKeepsIInv ==
  ASSUME IInv, NEW r \in Requests, CommitCreateAuthor(r)
  PROVE  IInv'
<1> TypeOK /\ SlotInv(r) /\ Finish(r) /\ Committing(r, "create_author") /\ authors_books' = authors_books
  BY DEF IInv, CommitCreateAuthor
<1>1. /\ req[r].row \in Table(r) /\ Table(r) = Authors /\ req[r].name \in Names /\ Entered(r)
      /\ rows' = [rows EXCEPT ![req[r].row] = Named(req[r].name)]
  BY OpFacts, DistinctIdentities
     DEF Committing, Serving, At, SlotInv, CreateInv, CommitCreateAuthor, Entered, Naming, Table
<1>2. /\ rows' \in [Rows -> [status : {"none", "live", "gone"}, name : Names \cup {Blank, None}]]
      /\ RowsInv' /\ UniqueNames' /\ \A x \in Rows : Live(x) => Live(x)'
      /\ \A s \in Requests \ {r} : Entered(s) => Namesakes(s)' = {}
  BY <1>1, NameGiven
<1>3. \A b \in Books : Live(b)' => Live(b)
  BY <1>1, DistinctIdentities DEF TypeOK, Live, Rows
<1>4. Frame(r)
  BY <1>1, <1>2, <1>3, NewcomerFrame DEF WorksOf
<1>5. CreditsExist'
  BY <1>2 DEF IInv, CreditsExist, TypeOK, Rows
<1> QED BY <1>2, <1>4, <1>5, FinishKeepsIInv DEF TypeOK

LEMMA CommitCreateBookKeepsIInv ==
  ASSUME IInv, NEW r \in Requests, CommitCreateBook(r)
  PROVE  IInv'
<1> TypeOK /\ SlotInv(r) /\ Finish(r) /\ Committing(r, "create_book")
  BY DEF IInv, CommitCreateBook
<1>0. PICK w : w = req[r].row
  OBVIOUS
<1>1. /\ w \in Table(r) /\ Table(r) = Books /\ req[r].name \in Names \cup {Blank} /\ Entered(r)
      /\ rows' = [rows EXCEPT ![w] = Named(req[r].name)]
      /\ authors_books' = authors_books \cup {w} \X req[r].linked
      /\ req[r].linked \subseteq Authors /\ \A a \in req[r].linked : Live(a)
  BY <1>0, OpFacts, DistinctIdentities
     DEF Committing, Serving, At, SlotInv, CreateInv, CommitCreateBook, Entered, Naming, Table, TypeOK
<1>2. /\ rows' \in [Rows -> [status : {"none", "live", "gone"}, name : Names \cup {Blank, None}]]
      /\ RowsInv' /\ UniqueNames' /\ \A x \in Rows : Live(x) => Live(x)'
      /\ \A s \in Requests \ {r} : Entered(s) => Namesakes(s)' = {}
  BY <1>0, <1>1, NameGiven
<1>3. w \in Rows /\ Live(w)' /\ \A b \in Books \ {w} : Live(b)' <=> Live(b)
  <2>1. w \in Rows /\ rows'[w] = Named(req[r].name) /\ \A b \in Books \ {w} : rows'[b] = rows[b]
    BY <1>1 DEF TypeOK, Rows
  <2> QED BY <2>1 DEF Named, Live
<1>4. ASSUME NEW a \in Authors, Sharers(a) = {}, WorksOf(a) = {} PROVE WorksOf(a)' = {}
  <2>1. a \notin req[r].linked
    BY <1>4 DEF Sharers
  <2>2. \A b \in Books : <<b, a>> \in authors_books' => <<b, a>> \in authors_books
    BY <1>1, <2>1
  <2>3. \A b \in Books : <<b, a>> \in authors_books => Live(b)
    BY DEF IInv, CreditsExist
  <2> QED BY <1>4, <2>2, <2>3 DEF WorksOf
<1>5. Frame(r)
  BY <1>0, <1>1, <1>2, <1>4, NewcomerFrame
<1>6. CreditsExist'
  <2> SUFFICES ASSUME NEW link \in authors_books' PROVE Live(link[1])' /\ Live(link[2])'
    BY DEF CreditsExist
  <2>1. CASE link \in authors_books
    BY <1>2, <2>1 DEF IInv, CreditsExist, TypeOK, Rows
  <2>2. CASE link \in {w} \X req[r].linked
    <3>1. link[1] = w /\ link[2] \in req[r].linked
      BY <2>2
    <3>2. link[2] \in Rows /\ Live(link[2])
      BY <1>1, <3>1 DEF Rows
    <3> QED BY <1>2, <1>3, <3>1, <3>2
  <2> QED BY <1>1, <2>1, <2>2
<1>7. authors_books' \subseteq Books \X Authors
  BY <1>1 DEF TypeOK
<1> QED BY <1>2, <1>5, <1>6, <1>7, FinishKeepsIInv

LEMMA CommitUpdateKeepsIInv ==
  ASSUME IInv, NEW r \in Requests, CommitUpdate(r)
  PROVE  IInv'
<1> TypeOK /\ SlotInv(r) /\ Finish(r) /\ authors_books' = authors_books
  BY DEF IInv, CommitUpdate
<1>0. PICK w : w = req[r].row
  OBVIOUS
<1>1. /\ w \in Table(r) /\ w \in Rows /\ lock[w] = r /\ Live(w) /\ pc[r] = "answered"
      /\ req[r].op \in {"update_author", "update_book"}
      /\ req[r].name \in Names \cup {Blank, None}
  BY <1>0, TableFacts DEF CommitUpdate, Committing, Serving, At, SlotInv, UpdateInv
<1>2. rows[w] \in [status : {"none", "live", "gone"}, name : Names \cup {Blank, None}]
  BY <1>1 DEF TypeOK
<1>3. \A x \in Rows \ {w} : rows'[x] = rows[x]
  BY <1>0, <1>1 DEF CommitUpdate, TypeOK
<1>4. \A x \in Rows : Live(x)' <=> Live(x)
  <2>1. rows'[w].status = rows[w].status
    BY <1>0, <1>1, <1>2 DEF CommitUpdate, TypeOK
  <2> QED BY <1>3, <2>1 DEF Live
<1>5. Frame(r)
  <2> SUFFICES ASSUME NEW s \in Requests \ {r} PROVE Spares(r, s)
    BY DEF Frame
  <2>1. req'[r].linked = {} /\ pc'[s] = pc[s] /\ req'[s] = req[s]
        /\ \A x \in Rows : lock'[x] = s <=> lock[x] = s
    BY FinishFrame
  <2>2. req[s].op \in {"create_author", "create_book"} /\ pc[s] \in {"link", "answered"} =>
          rows'[req[s].row] = rows[req[s].row]
    BY <1>1, <1>3, TableFacts DEF IInv, SlotInv, CreateInv, Live
  <2>3. \A a \in Authors : WorksOf(a)' = WorksOf(a)
    BY <1>4 DEF WorksOf, Rows
  <2>4. \A a \in req[s].linked : Live(a) => Live(a)'
    BY <1>4 DEF TypeOK, Rows
  <2> QED BY <1>1, <1>3, <2>1, <2>2, <2>3, <2>4 DEF Spares
<1>6. CreditsExist'
  BY <1>4 DEF IInv, CreditsExist, TypeOK, Rows
<1>7. /\ rows' \in [Rows -> [status : {"none", "live", "gone"}, name : Names \cup {Blank, None}]]
      /\ RowsInv' /\ UniqueNames'
      /\ \A s \in Requests \ {r} : Entered(s) => Namesakes(s)' = {}
  <2>1. CASE Naming(r)
    <3>1. Entered(r) /\ req[r].name \in Names \cup {Blank}
      BY <1>1, <2>1 DEF Entered, Naming
    <3>2. rows' = [rows EXCEPT ![w] = Named(req[r].name)]
      <4>1. [rows[w] EXCEPT !.name = req[r].name] = Named(req[r].name)
        BY <1>1, <1>2 DEF Live, Named
      <4> QED BY <1>0, <2>1, <4>1 DEF CommitUpdate
    <3> QED BY <1>0, <1>1, <3>1, <3>2, NameGiven
  <2>2. CASE ~Naming(r)
    <3>1. rows' = rows
      BY <2>2 DEF CommitUpdate
    <3>2. \A s \in Requests \ {r} : Entered(s) => Namesakes(s)' = {}
      BY <3>1, FinishFrame DEF IInv, EntryInv, Namesakes, Table, Live
    <3> QED BY <3>1, <3>2 DEF IInv, TypeOK, RowsInv, UniqueNames, Live
  <2> QED BY <2>1, <2>2
<1> QED BY <1>5, <1>6, <1>7, FinishKeepsIInv DEF TypeOK

LEMMA CommitDeleteKeepsIInv ==
  ASSUME IInv, NEW r \in Requests, CommitDelete(r)
  PROVE  IInv'
<1> TypeOK /\ SlotInv(r) /\ Finish(r)
  BY DEF IInv, CommitDelete
<1>0. PICK w : w = req[r].row
  OBVIOUS
<1>1. /\ w \in Table(r) /\ w \in Rows /\ lock[w] = r /\ Live(w) /\ pc[r] = "answered"
      /\ req[r].op \in {"delete_author", "delete_book"}
      /\ req[r].op = "delete_author" => Sharers(w) = {} /\ WorksOf(w) = {}
      /\ rows' = [rows EXCEPT ![w] = [status |-> "gone", name |-> None]]
      /\ authors_books' = {link \in authors_books : link[1] # w}
  BY <1>0, TableFacts DEF CommitDelete, Committing, Serving, At, SlotInv, DeleteInv
<1>2. /\ \A x \in Rows \ {w} : rows'[x] = rows[x]
      /\ rows'[w] = [status |-> "gone", name |-> None]
  BY <1>1 DEF TypeOK
<1>3. ~Live(w)' /\ \A x \in Rows \ {w} : Live(x)' <=> Live(x)
  BY <1>2 DEF Live
<1>4. \A s \in Requests : w \notin req[s].linked
  <2>1. CASE req[r].op = "delete_author"
    BY <1>1, <2>1 DEF Sharers
  <2>2. CASE req[r].op = "delete_book"
    <3>1. w \in Books
      BY <1>1, <2>2, TableFacts, OpFacts
    <3> QED BY <3>1, DistinctIdentities DEF TypeOK
  <2> QED BY <1>1, <2>1, <2>2
<1>5. Frame(r)
  <2> SUFFICES ASSUME NEW s \in Requests \ {r} PROVE Spares(r, s)
    BY DEF Frame
  <2>1. req'[r].linked = {} /\ pc'[s] = pc[s] /\ req'[s] = req[s]
        /\ \A x \in Rows : lock'[x] = s <=> lock[x] = s
    BY FinishFrame
  <2>2. req[s].op \in {"create_author", "create_book"} /\ pc[s] \in {"link", "answered"} =>
          rows'[req[s].row] = rows[req[s].row]
    BY <1>1, <1>2, TableFacts DEF IInv, SlotInv, CreateInv, Live
  <2>3. \A a \in Authors : WorksOf(a)' \subseteq WorksOf(a)
    BY <1>1, <1>3 DEF WorksOf, Rows
  <2>4. \A a \in req[s].linked : Live(a) => Live(a)'
    BY <1>3, <1>4 DEF TypeOK, Rows
  <2> QED BY <1>1, <1>2, <2>1, <2>2, <2>3, <2>4 DEF Spares
<1>6. CreditsExist'
  <2> SUFFICES ASSUME NEW link \in authors_books' PROVE Live(link[1])' /\ Live(link[2])'
    BY DEF CreditsExist
  <2>1. /\ link \in Books \X Authors /\ link \in authors_books /\ link[1] # w
        /\ Live(link[1]) /\ Live(link[2])
    BY <1>1 DEF TypeOK, IInv, CreditsExist
  <2>2. link[2] # w
    <3>1. CASE req[r].op = "delete_author"
      BY <1>1, <2>1, <3>1 DEF WorksOf
    <3>2. CASE req[r].op = "delete_book"
      BY <1>1, <2>1, <3>2, TableFacts, OpFacts, DistinctIdentities
    <3> QED BY <1>1, <3>1, <3>2
  <2> QED BY <1>3, <2>1, <2>2 DEF Rows
<1>7. RowsInv'
  BY <1>2, <1>3 DEF RowsInv, IInv
<1>8. UniqueNames'
  BY <1>2, <1>3 DEF UniqueNames, IInv
<1>9. \A s \in Requests \ {r} : Entered(s) => Namesakes(s)' = {}
  <2> SUFFICES ASSUME NEW s \in Requests \ {r}, Entered(s) PROVE Namesakes(s)' = {}
    OBVIOUS
  <2>1. Table(s)' = Table(s) /\ req'[s] = req[s] /\ Table(s) \subseteq Rows /\ Namesakes(s) = {}
    BY FinishFrame, TableFacts DEF Table, IInv, EntryInv
  <2> QED BY <1>2, <1>3, <2>1 DEF Namesakes
<1>10. /\ rows' \in [Rows -> [status : {"none", "live", "gone"}, name : Names \cup {Blank, None}]]
       /\ authors_books' \subseteq Books \X Authors
  BY <1>1 DEF TypeOK
<1> QED BY <1>5, <1>6, <1>7, <1>8, <1>9, <1>10, FinishKeepsIInv

\* The end of a request that writes nothing.
LEMMA EndKeepsIInv ==
  ASSUME IInv, NEW r \in Requests, Close(r) \/ Fault(r) \/ DeadlockVictim(r)
  PROVE  IInv'
<1>1. CASE Refuse(r, "InternalServerError")
  BY <1>1, RefuseStep, QuietStepKeepsIInv DEF Refusals
<1>2. CASE Finish(r) /\ UNCHANGED tables
  <2>1. Frame(r)
    BY <1>2, FinishFrame DEF IInv, Frame, Spares, tables, Live, WorksOf
  <2>2. \A s \in Requests \ {r} : Entered(s) => Namesakes(s)' = {}
    BY <1>2, FinishFrame DEF IInv, EntryInv, Namesakes, Table, Live, tables
  <2>3. RowsInv' /\ UniqueNames' /\ CreditsExist'
    BY <1>2 DEF IInv, tables, RowsInv, UniqueNames, CreditsExist, Live
  <2> QED BY <1>2, <2>1, <2>2, <2>3, FinishKeepsIInv DEF IInv, TypeOK, tables
<1> QED BY <1>1, <1>2 DEF Close, Fault, DeadlockVictim

-----------------------------------------------------------------------------
(* The invariants *)

LEMMA InitIInv == Init => IInv
<1> SUFFICES ASSUME Init PROVE IInv
  OBVIOUS
<1>1. TypeOK
  BY DEF Init, TypeOK, NoRow, NoRequest, Request, GivenNames
<1>2. \A r \in Requests : SlotInv(r) /\ ~Entered(r)
  BY OpFacts DEF Init, SlotInv, CreateInv, UpdateInv, DeleteInv, NoRequest, Request, Ops, AuthorOps,
                 BookOps, Entered
<1>3. RowsInv /\ UniqueNames /\ CreditsExist
  BY DEF Init, RowsInv, UniqueNames, CreditsExist, Live, NoRow
<1> QED BY <1>1, <1>2, <1>3 DEF IInv, EntryInv, ReservedOnce

LEMMA StutterKeepsIInv ==
  ASSUME IInv, UNCHANGED vars
  PROVE  IInv'
<1>1. TypeOK' /\ (\A r \in Requests : SlotInv(r)')
  BY DEF IInv, vars, TypeOK, SlotInv, CreateInv, UpdateInv, DeleteInv, Table, Live, Committing,
         Serving, At, Sharers, WorksOf
<1>2. EntryInv' /\ ReservedOnce'
  BY DEF IInv, vars, EntryInv, ReservedOnce, Entered, Naming, Table, Namesakes, Live
<1>3. RowsInv' /\ UniqueNames' /\ CreditsExist'
  BY DEF IInv, vars, RowsInv, UniqueNames, CreditsExist, Live
<1> QED BY <1>1, <1>2, <1>3 DEF IInv

\* The tables, locks and index entries always fit the statements that the
\* requests have reached (author_repository_impl.py, book_repository_impl.py).
THEOREM InductiveInvariant == Spec => []IInv
<1>1. ASSUME IInv, [Next]_vars PROVE IInv'
  <2>1. CASE UNCHANGED vars
    BY <1>1, <2>1, StutterKeepsIInv
  <2>2. ASSUME NEW r \in Requests, Arrive(r) \/ Serve(r) \/ Fault(r) \/ DeadlockVictim(r)
        PROVE  IInv'
    BY <1>1, <2>2, ArriveKeepsIInv, ReadKeepsIInv, SelectAuthorsKeepsIInv, UpdateKeepsIInv,
       DeleteKeepsIInv, RestrictKeepsIInv, LinkKeepsIInv, InsertKeepsIInv, IndexKeepsIInv,
       CommitCreateAuthorKeepsIInv, CommitCreateBookKeepsIInv, CommitUpdateKeepsIInv,
       CommitDeleteKeepsIInv, EndKeepsIInv
       DEF Serve
  <2> QED BY <1>1, <2>1, <2>2 DEF Next
<1> QED BY <1>1, InitIInv, PTL DEF Spec

\* No two authors ever have one name and no two books one title, for any number
\* of creations and renamings at the same time.
THEOREM UniqueNamesHolds == Spec => []UniqueNames
<1>1. IInv => UniqueNames
  BY DEF IInv
<1> QED BY <1>1, InductiveInvariant, PTL

\* An author with books is never deleted, not even one whose book is being
\* created at that time.
THEOREM CreditsExistHolds == Spec => []CreditsExist
<1>1. IInv => CreditsExist
  BY DEF IInv
<1> QED BY <1>1, InductiveInvariant, PTL

-----------------------------------------------------------------------------
(* The requests implement the catalogue *)

LEMMA TablesChangeByCommit ==
  ASSUME [Next]_vars, ~UNCHANGED tables
  PROVE  \E r \in Requests : \/ CommitCreateAuthor(r) \/ CommitCreateBook(r)
                             \/ CommitUpdate(r) \/ CommitDelete(r)
<1>1. ~UNCHANGED vars
  BY DEF vars, tables
<1>2. \A r \in Requests : ~Arrive(r) /\ ~Fault(r) /\ ~DeadlockVictim(r)
  BY DEF Arrive, BeginCreateAuthor, BeginUpdateAuthor, BeginDeleteAuthor, BeginCreateBook,
         BeginUpdateBook, BeginDeleteBook, Begin, Fault, DeadlockVictim, Refuse
<1>3. PICK r \in Requests : Serve(r)
  BY <1>1, <1>2 DEF Next
<1>4. ~ExistsByName(r) /\ ~InsertAuthor(r) /\ ~UpdateAuthor(r) /\ ~IndexAuthorName(r)
      /\ ~DeleteAuthor(r) /\ ~RestrictAuthor(r) /\ ~ExistsByTitle(r) /\ ~GetByIds(r)
  BY DEF ExistsByName, InsertAuthor, UpdateAuthor, IndexAuthorName, DeleteAuthor, RestrictAuthor,
         ExistsByTitle, GetByIds, Refuse, Continue, LockRow
<1>5. ~SelectAuthors(r) /\ ~InsertBook(r) /\ ~LinkAuthor(r) /\ ~UpdateBook(r)
      /\ ~IndexBookTitle(r) /\ ~DeleteBook(r) /\ ~Close(r)
  BY DEF SelectAuthors, InsertBook, LinkAuthor, UpdateBook, IndexBookTitle, DeleteBook, Close,
         Refuse, Continue, LockRow
<1> QED BY <1>3, <1>4, <1>5 DEF Serve

\* A commit that gives a new name to a row: nobody else of its kind has it.
LEMMA NameIsFree ==
  ASSUME IInv, NEW r \in Requests, Entered(r), req[r].name \in Names \cup {Blank},
         NEW x \in Table(r) \ {req[r].row}
  PROVE  rows[x].name # req[r].name
<1>1. Namesakes(r) = {} /\ x \in Rows /\ req[r].name # None
  BY TableFacts, DistinctIdentities DEF IInv, EntryInv
<1> QED BY <1>1 DEF Namesakes, RowsInv, IInv

\* The rows of the tables seen as the catalogue's names change as the rows do.
LEMMA NamesFollowRows ==
  ASSUME TypeOK, NEW x \in Rows, NEW row, rows' = [rows EXCEPT ![x] = row]
  PROVE  [y \in Rows |-> rows[y].name]' = [[y \in Rows |-> rows[y].name] EXCEPT ![x] = row.name]
BY DEF TypeOK

\* The behaviours of Catalog, seen through its tables, are behaviours of
\* Bibliography: each commit is one atomic step there, and nothing else shows.
THEOREM ImplementsBibliographyHolds == Spec => ImplementsBibliography
<1> DEFINE names == [x \in Rows |-> rows[x].name]
<1>1. Init => Listing!Init
  BY DEF Init, Listing!Init, NoRow, Rows
<1>2. ASSUME IInv, NEW r \in Requests, CommitCreateAuthor(r) PROVE Listing!Next
  <2>0. PICK w : w = req[r].row
    OBVIOUS
  <2>1. PICK n : n = req[r].name
    OBVIOUS
  <2>2. /\ w \in Authors /\ w \in Rows /\ n \in Names /\ Table(r) = Authors /\ Entered(r)
        /\ rows[w].status = "none" /\ TypeOK
    BY <1>2, <2>0, <2>1, TableFacts, OpFacts, DistinctIdentities
       DEF IInv, CommitCreateAuthor, Committing, Serving, At, SlotInv, CreateInv, Entered, Naming
  <2>3. names[w] = None /\ \A x \in Authors \ {w} : names[x] # n
    BY <1>2, <2>0, <2>1, <2>2, NameIsFree DEF IInv, RowsInv, Live, Rows
  <2>4. names' = [names EXCEPT ![w] = n] /\ authors_books' = authors_books
    <3>1. rows' = [rows EXCEPT ![w] = Named(n)] /\ Named(n).name = n /\ authors_books' = authors_books
      BY <1>2, <2>0, <2>1 DEF CommitCreateAuthor, Named
    <3>2. names' = [names EXCEPT ![w] = Named(n).name]
      BY <2>2, <3>1, NamesFollowRows
    <3> QED BY <3>1, <3>2
  <2>5. Listing!AddAuthor(w, n)
    BY <2>3, <2>4 DEF Listing!AddAuthor, Listing!Listed, Listing!Distinct
  <2> QED BY <2>2, <2>5 DEF Listing!Next
<1>3. ASSUME IInv, NEW r \in Requests, CommitCreateBook(r) PROVE Listing!Next
  <2>0. PICK w : w = req[r].row
    OBVIOUS
  <2>1. PICK n : n = req[r].name
    OBVIOUS
  <2>6. PICK authors : authors = req[r].authors
    OBVIOUS
  <2>2. /\ w \in Books /\ w \in Rows /\ n \in Names \cup {Blank} /\ Table(r) = Books /\ Entered(r)
        /\ rows[w].status = "none" /\ TypeOK
        /\ authors \in SUBSET Authors /\ \A a \in authors : Live(a)
    BY <1>3, <2>0, <2>1, <2>6, TableFacts, OpFacts, DistinctIdentities
       DEF IInv, CommitCreateBook, Committing, Serving, At, SlotInv, CreateInv, Entered, Naming, TypeOK
  <2>3. /\ names[w] = None /\ \A x \in Books \ {w} : names[x] # n
        /\ \A a \in authors : names[a] # None
    BY <1>3, <2>0, <2>1, <2>2, NameIsFree DEF IInv, RowsInv, Live, Rows
  <2>4. names' = [names EXCEPT ![w] = n] /\ authors_books' = authors_books \cup {w} \X authors
    <3>1. /\ rows' = [rows EXCEPT ![w] = Named(n)] /\ Named(n).name = n
          /\ authors_books' = authors_books \cup {w} \X authors
      BY <1>3, <2>0, <2>1, <2>6 DEF CommitCreateBook, Named
    <3>2. names' = [names EXCEPT ![w] = Named(n).name]
      BY <2>2, <3>1, NamesFollowRows
    <3> QED BY <3>1, <3>2
  <2>5. Listing!AddBook(w, n, authors)
    BY <2>3, <2>4 DEF Listing!AddBook, Listing!Listed, Listing!Distinct
  <2> QED BY <2>2, <2>5 DEF Listing!Next
<1>4. ASSUME IInv, NEW r \in Requests, CommitUpdate(r), ~UNCHANGED tables PROVE Listing!Next
  <2>0. PICK w : w = req[r].row
    OBVIOUS
  <2>1. PICK n : n = req[r].name
    OBVIOUS
  <2>2. /\ TypeOK /\ Naming(r) /\ authors_books' = authors_books /\ Entered(r)
        /\ w \in Table(r) /\ w \in Rows /\ Live(w)
        /\ \/ req[r].op = "update_author" /\ Table(r) = Authors /\ n \in Names
           \/ req[r].op = "update_book" /\ Table(r) = Books /\ n \in Names \cup {Blank}
    BY <1>4, <2>0, <2>1, TableFacts, OpFacts
       DEF IInv, CommitUpdate, Committing, Serving, At, SlotInv, UpdateInv, Entered, Naming, tables
  <2>3. names[w] # None /\ \A x \in Table(r) \ {w} : names[x] # n
    BY <1>4, <2>0, <2>1, <2>2, NameIsFree, TableFacts DEF IInv, RowsInv
  <2>4. names' = [names EXCEPT ![w] = n]
    <3> DEFINE row == [rows[w] EXCEPT !.name = n]
    <3>1. rows' = [rows EXCEPT ![w] = row]
      BY <1>4, <2>0, <2>1, <2>2 DEF CommitUpdate
    <3>2. row.name = n
      BY <2>2 DEF TypeOK
    <3>3. names' = [names EXCEPT ![w] = row.name]
      <4> HIDE DEF row
      <4> QED BY <2>2, <3>1, NamesFollowRows
    <3> QED BY <3>2, <3>3
  <2>5. CASE w \in Authors /\ Table(r) = Authors
    <3>1. Listing!RenameAuthor(w, n)
      BY <2>2, <2>3, <2>4, <2>5 DEF Listing!RenameAuthor, Listing!Listed, Listing!Distinct
    <3> QED BY <2>2, <2>5, <3>1, DistinctIdentities DEF Listing!Next
  <2>6. CASE w \in Books /\ Table(r) = Books
    <3>1. Listing!RenameBook(w, n)
      BY <2>2, <2>3, <2>4, <2>6 DEF Listing!RenameBook, Listing!Listed, Listing!Distinct
    <3> QED BY <2>2, <2>6, <3>1 DEF Listing!Next
  <2> QED BY <2>2, <2>5, <2>6
<1>5. ASSUME IInv, NEW r \in Requests, CommitDelete(r) PROVE Listing!Next
  <2>0. PICK w : w = req[r].row
    OBVIOUS
  <2>1. /\ TypeOK /\ w \in Rows /\ Live(w)
        /\ \/ w \in Authors /\ WorksOf(w) = {}
           \/ w \in Books
    BY <1>5, <2>0, TableFacts, OpFacts
       DEF IInv, CommitDelete, Committing, Serving, At, SlotInv, DeleteInv
  <2>2. names' = [names EXCEPT ![w] = None] /\ names[w] # None
    <3> DEFINE gone == [status |-> "gone", name |-> None]
    <3>1. rows' = [rows EXCEPT ![w] = gone] /\ gone.name = None
      BY <1>5, <2>0 DEF CommitDelete
    <3>2. names' = [names EXCEPT ![w] = gone.name]
      BY <2>1, <3>1, NamesFollowRows
    <3> QED BY <1>5, <2>1, <3>1, <3>2 DEF IInv, RowsInv
  <2>3. authors_books' = {link \in authors_books : link[1] # w} /\ authors_books \subseteq Books \X Authors
    BY <1>5, <2>0, <2>1 DEF CommitDelete, TypeOK
  <2>4. CASE w \in Authors /\ WorksOf(w) = {}
    <3>1. \A b \in Books : <<b, w>> \notin authors_books
      BY <1>5, <2>4 DEF IInv, CreditsExist, WorksOf
    <3>2. authors_books' = authors_books
      BY <2>3, <2>4, DistinctIdentities
    <3>3. Listing!RemoveAuthor(w)
      BY <2>2, <3>1, <3>2 DEF Listing!RemoveAuthor, Listing!Listed
    <3> QED BY <2>4, <3>3 DEF Listing!Next
  <2>5. CASE w \in Books
    <3>1. Listing!RemoveBook(w)
      BY <2>2, <2>3 DEF Listing!RemoveBook, Listing!Listed
    <3> QED BY <2>5, <3>1 DEF Listing!Next
  <2> QED BY <2>1, <2>4, <2>5
<1>6. ASSUME IInv, [Next]_vars PROVE [Listing!Next]_(Listing!catalogue)
  <2>1. CASE UNCHANGED tables
    BY <2>1 DEF tables, Listing!catalogue
  <2>2. CASE ~UNCHANGED tables
    BY <1>2, <1>3, <1>4, <1>5, <1>6, <2>2, TablesChangeByCommit
  <2> QED BY <2>1, <2>2
<1>7. IInv /\ [Next]_vars => [Listing!Next]_(Listing!catalogue)
  BY <1>6
<1> QED BY <1>1, <1>7, InductiveInvariant, PTL DEF Spec, ImplementsBibliography, Listing!Spec

-----------------------------------------------------------------------------
(* What an answer is worth *)

\* A step of one request leaves the others where they are.
LEMMA OthersStay ==
  ASSUME TypeOK, NEW s \in Requests, Arrive(s) \/ Serve(s) \/ Fault(s) \/ DeadlockVictim(s),
         NEW r \in Requests \ {s}
  PROVE  pc'[r] = pc[r]
<1>1. ASSUME \E statement : Goto(s, statement) PROVE pc'[r] = pc[r]
  BY <1>1 DEF Goto, TypeOK
<1>2. CASE Arrive(s) \/ Fault(s) \/ DeadlockVictim(s)
  BY <1>1, <1>2 DEF Arrive, BeginCreateAuthor, BeginUpdateAuthor, BeginDeleteAuthor, BeginCreateBook,
     BeginUpdateBook, BeginDeleteBook, Begin, Fault, DeadlockVictim, Refuse, Finish
<1>3. CASE ExistsByName(s) \/ InsertAuthor(s) \/ UpdateAuthor(s) \/ IndexAuthorName(s)
  BY <1>1, <1>3 DEF ExistsByName, InsertAuthor, UpdateAuthor, IndexAuthorName, Continue, Refuse,
     LockRow, Answer
<1>4. CASE DeleteAuthor(s) \/ RestrictAuthor(s) \/ ExistsByTitle(s) \/ GetByIds(s) \/ SelectAuthors(s)
  BY <1>1, <1>4 DEF DeleteAuthor, RestrictAuthor, ExistsByTitle, GetByIds, SelectAuthors, Continue,
     Refuse, LockRow, Answer
<1>5. CASE InsertBook(s) \/ LinkAuthor(s) \/ UpdateBook(s) \/ IndexBookTitle(s) \/ DeleteBook(s)
  BY <1>1, <1>5 DEF InsertBook, LinkAuthor, UpdateBook, IndexBookTitle, DeleteBook, Continue, Refuse,
     LockRow, Answer
<1>6. CASE CommitCreateAuthor(s) \/ CommitCreateBook(s) \/ CommitUpdate(s) \/ CommitDelete(s) \/ Close(s)
  BY <1>1, <1>6 DEF CommitCreateAuthor, CommitCreateBook, CommitUpdate, CommitDelete, Close, Finish
<1> QED BY <1>2, <1>3, <1>4, <1>5, <1>6 DEF Serve

\* A request that has answered waits for nobody and is stopped by nobody.
LEMMA LeavesAnswered ==
  ASSUME TypeOK, [Next]_vars, NEW r \in Requests, pc[r] = "answered", pc'[r] # "answered"
  PROVE  CommitCreateAuthor(r) \/ CommitCreateBook(r) \/ CommitUpdate(r) \/ CommitDelete(r) \/ Fault(r)
<1>1. Arrive(r) \/ Serve(r) \/ Fault(r) \/ DeadlockVictim(r)
  BY OthersStay DEF Next, vars
<1>2. ~Arrive(r)
  BY DEF Arrive, BeginCreateAuthor, BeginUpdateAuthor, BeginDeleteAuthor, BeginCreateBook,
         BeginUpdateBook, BeginDeleteBook, Begin, At
<1>3. ~DeadlockVictim(r)
  BY DEF DeadlockVictim, Deadlocked, WaitsFor
<1>4. ~ExistsByName(r) /\ ~InsertAuthor(r) /\ ~UpdateAuthor(r) /\ ~IndexAuthorName(r)
      /\ ~DeleteAuthor(r) /\ ~RestrictAuthor(r) /\ ~ExistsByTitle(r) /\ ~GetByIds(r)
  BY DEF ExistsByName, InsertAuthor, UpdateAuthor, IndexAuthorName, DeleteAuthor, RestrictAuthor,
         ExistsByTitle, GetByIds, Serving, At
<1>5. ~SelectAuthors(r) /\ ~InsertBook(r) /\ ~LinkAuthor(r) /\ ~UpdateBook(r)
      /\ ~IndexBookTitle(r) /\ ~DeleteBook(r) /\ ~Close(r)
  BY DEF SelectAuthors, InsertBook, LinkAuthor, UpdateBook, IndexBookTitle, DeleteBook, Close,
         Serving, At
<1> QED BY <1>1, <1>2, <1>3, <1>4, <1>5 DEF Serve

\* A client that reads its answer before the commit reads the truth, unless a fault
\* intervenes (dependencies/database.py:45).
THEOREM AnswersComeTrueHolds == Spec => AnswersComeTrue
<1>1. IInv /\ [Next]_vars =>
        [\A r \in Requests : At(r, "answered") /\ ~At(r, "answered")' =>
           TakesEffect(r) \/ Fault(r)]_vars
  <2> SUFFICES ASSUME IInv, [Next]_vars, NEW r \in Requests, pc[r] = "answered", pc'[r] # "answered"
               PROVE  TakesEffect(r) \/ Fault(r)
    BY DEF At
  <2> DEFINE x == req[r].row
  <2>1. TypeOK /\ CreateInv(r) /\ UpdateInv(r) /\ DeleteInv(r) /\ CreditsExist
    BY DEF IInv, SlotInv
  <2>2. CASE CommitCreateAuthor(r)
    <3>1. req[r].op = "create_author" /\ x \in Rows /\ rows[x].status = "none"
      BY <2>1, <2>2, TableFacts DEF CommitCreateAuthor, Committing, Serving, At, CreateInv
    <3> QED BY <2>1, <2>2, <3>1 DEF CommitCreateAuthor, TypeOK, TakesEffect
  <2>3. CASE CommitCreateBook(r)
    <3>1. req[r].op = "create_book" /\ x \in Rows /\ rows[x].status = "none"
      BY <2>1, <2>3, TableFacts DEF CommitCreateBook, Committing, Serving, At, CreateInv
    <3>2. ASSUME NEW a \in Authors PROVE <<x, a>> \in authors_books' <=> a \in req[r].authors
      <4>1. <<x, a>> \notin authors_books
        BY <2>1, <3>1 DEF CreditsExist, Live
      <4> QED BY <2>3, <4>1 DEF CommitCreateBook
    <3>3. rows'[x] = Named(req[r].name)
      BY <2>1, <2>3, <3>1 DEF CommitCreateBook, TypeOK
    <3> QED BY <3>1, <3>2, <3>3 DEF TakesEffect
  <2>4. CASE CommitUpdate(r)
    <3>1. req[r].op \in {"update_author", "update_book"} /\ x \in Rows /\ Live(x)
      BY <2>1, <2>4, TableFacts DEF CommitUpdate, Committing, Serving, At, UpdateInv
    <3> QED BY <2>1, <2>4, <3>1 DEF CommitUpdate, Naming, TypeOK, TakesEffect, Live
  <2>5. CASE CommitDelete(r)
    <3>1. /\ req[r].op \in {"delete_author", "delete_book"} /\ x \in Table(r) /\ Live(x)
          /\ req[r].op = "delete_author" => WorksOf(x) = {}
      BY <2>1, <2>5 DEF CommitDelete, Committing, Serving, At, DeleteInv
    <3>2. rows'[x].status = "gone"
      BY <2>1, <2>5, <3>1, TableFacts DEF CommitDelete, TypeOK
    <3>3. ASSUME NEW link \in authors_books' PROVE x \notin {link[1], link[2]}
      <4>1. link \in authors_books /\ link[1] # x
        BY <2>5, <3>3 DEF CommitDelete
      <4>2. link[1] \in Books /\ link[2] \in Authors /\ link = <<link[1], link[2]>> /\ Live(link[1])
        BY <2>1, <4>1 DEF TypeOK, CreditsExist
      <4>3. CASE req[r].op = "delete_author"
        BY <3>1, <4>1, <4>2, <4>3 DEF WorksOf
      <4>4. CASE req[r].op = "delete_book"
        BY <3>1, <4>1, <4>2, <4>4, TableFacts, OpFacts, DistinctIdentities
      <4> QED BY <3>1, <4>3, <4>4
    <3> QED BY <3>1, <3>2, <3>3 DEF TakesEffect
  <2> QED BY <2>1, <2>2, <2>3, <2>4, <2>5, LeavesAnswered
<1> QED BY <1>1, InductiveInvariant, PTL DEF Spec, AnswersComeTrue

-----------------------------------------------------------------------------
(* Deadlocks *)

\* A row is locked by the renaming or deletion of that row, once it has begun.
LockInv ==
  \A r \in Requests, x \in Rows : lock[x] = r =>
    /\ req[r].row = x
    /\ \/ /\ req[r].op \in {"update_author", "update_book"}
          /\ pc[r] \in {"index", "answered"}
       \/ /\ req[r].op = "delete_author"
          /\ pc[r] \in {"restrict", "answered"}
       \/ /\ req[r].op = "delete_book"
          /\ pc[r] = "answered"

LEMMA ReleaseKeepsLockInv ==
  ASSUME TypeOK, LockInv, NEW r \in Requests, lock' = LocksWithout(r),
         \A s \in Requests \ {r} : pc'[s] = pc[s] /\ req'[s] = req[s]
  PROVE  LockInv'
<1> SUFFICES ASSUME NEW s \in Requests, NEW x \in Rows, lock'[x] = s
             PROVE  s # r /\ lock[x] = s
  BY DEF LockInv
<1> QED BY DistinctIdentities DEF LocksWithout, TypeOK

LEMMA RefuseKeepsLockInv ==
  ASSUME TypeOK, LockInv, NEW r \in Requests, NEW e, Refuse(r, e)
  PROVE  LockInv'
BY ReleaseKeepsLockInv DEF Refuse, Goto, TypeOK

LEMMA FinishKeepsLockInv ==
  ASSUME TypeOK, LockInv, NEW r \in Requests, Finish(r)
  PROVE  LockInv'
BY ReleaseKeepsLockInv DEF Finish, Goto, TypeOK

\* A step of r that takes no lock, from a place where it has none.
LEMMA FreeKeepsLockInv ==
  ASSUME TypeOK, LockInv, NEW r \in Requests, lock' = lock,
         pc[r] \notin {"index", "restrict", "answered"},
         \A s \in Requests \ {r} : pc'[s] = pc[s] /\ req'[s] = req[s]
  PROVE  LockInv'
BY DEF LockInv, TypeOK

LEMMA LockRowKeepsLockInv ==
  ASSUME TypeOK, LockInv, NEW r \in Requests, NEW statement, LockRow(r, statement),
         req[r].row \in Rows, pc[r] \notin {"index", "restrict", "answered"},
         \/ (req[r].op \in {"update_author", "update_book"} /\ statement = "index")
         \/ (req[r].op = "delete_author" /\ statement = "restrict")
  PROVE  LockInv'
BY DEF LockInv, TypeOK, LockRow, Goto

LEMMA ArriveKeepsLockInv ==
  ASSUME TypeOK, LockInv, NEW r \in Requests, Arrive(r)
  PROVE  LockInv'
<1>1. PICK statement, parameters : Begin(r, statement, parameters)
  BY DEF Arrive, BeginCreateAuthor, BeginUpdateAuthor, BeginDeleteAuthor, BeginCreateBook,
         BeginUpdateBook, BeginDeleteBook
<1> QED BY <1>1, FreeKeepsLockInv DEF Begin, At, Goto, TypeOK

LEMMA ServeKeepsLockInv ==
  ASSUME IInv, LockInv, NEW r \in Requests, Serve(r)
  PROVE  LockInv'
<1> TypeOK /\ SlotInv(r)
  BY DEF IInv
<1>1. CASE ExistsByName(r) \/ ExistsByTitle(r) \/ GetByIds(r) \/ SelectAuthors(r)
  BY <1>1, RefuseKeepsLockInv, FreeKeepsLockInv
     DEF ExistsByName, ExistsByTitle, GetByIds, SelectAuthors, Continue, Goto, Serving, At, TypeOK
<1>2. CASE InsertAuthor(r) \/ InsertBook(r) \/ LinkAuthor(r)
  BY <1>2, RefuseKeepsLockInv, FreeKeepsLockInv
     DEF InsertAuthor, InsertBook, LinkAuthor, Answer, Goto, Serving, At, TypeOK
<1>3. CASE UpdateAuthor(r) \/ UpdateBook(r) \/ DeleteAuthor(r)
  <2>1. req[r].row \in Rows
    BY <1>3, TableFacts
       DEF UpdateAuthor, UpdateBook, DeleteAuthor, Serving, At, SlotInv, UpdateInv, DeleteInv
  <2> QED BY <1>3, <2>1, RefuseKeepsLockInv, LockRowKeepsLockInv
          DEF UpdateAuthor, UpdateBook, DeleteAuthor, Serving, At
<1>4. CASE DeleteBook(r)
  <2>1. req[r].row \in Rows /\ req[r].op = "delete_book" /\ pc[r] = "delete"
    BY <1>4, TableFacts DEF DeleteBook, Serving, At, SlotInv, DeleteInv
  <2> QED BY <1>4, <2>1, RefuseKeepsLockInv DEF DeleteBook, Answer, Goto, LockInv, TypeOK
<1>5. CASE IndexAuthorName(r) \/ IndexBookTitle(r) \/ RestrictAuthor(r)
  BY <1>5, RefuseKeepsLockInv
     DEF IndexAuthorName, IndexBookTitle, RestrictAuthor, Answer, Goto, Serving, At, LockInv, TypeOK
<1>6. CASE CommitCreateAuthor(r) \/ CommitCreateBook(r) \/ CommitUpdate(r) \/ CommitDelete(r) \/ Close(r)
  BY <1>6, FinishKeepsLockInv
     DEF CommitCreateAuthor, CommitCreateBook, CommitUpdate, CommitDelete, Close
<1> QED BY <1>1, <1>2, <1>3, <1>4, <1>5, <1>6 DEF Serve

LEMMA NextKeepsLockInv ==
  ASSUME IInv, LockInv, [Next]_vars
  PROVE  LockInv'
<1>1. CASE UNCHANGED vars
  BY <1>1 DEF vars, LockInv
<1>2. ASSUME NEW r \in Requests, Arrive(r) \/ Serve(r) \/ Fault(r) \/ DeadlockVictim(r)
      PROVE  LockInv'
  BY <1>2, ArriveKeepsLockInv, ServeKeepsLockInv, RefuseKeepsLockInv, FinishKeepsLockInv
     DEF Fault, DeadlockVictim, IInv
<1> QED BY <1>1, <1>2 DEF Next

LEMMA OpRow ==
  ASSUME IInv, NEW r \in Requests, pc[r] \in {"update", "delete"}
  PROVE  req[r].row \in Rows /\ req[r].op # "create_book"
<1>1. SlotInv(r) /\ TypeOK
  BY DEF IInv
<1> QED BY <1>1, TableFacts DEF SlotInv, CreateInv, UpdateInv, DeleteInv, TypeOK, Ops, AuthorOps, BookOps

\* Those that a request of each place waits for.
LEMMA WaitedFor ==
  ASSUME IInv, LockInv, NEW r \in Requests, NEW w \in WaitsFor(r)
  PROVE  /\ w \in Requests /\ w # r /\ pc[w] \in {"link", "restrict", "index", "answered"}
         /\ pc[r] = "restrict" => pc[w] = "answered"
         /\ pc[r] = "link" => pc[w] \in {"restrict", "answered"}
<1> TypeOK /\ SlotInv(r)
  BY DEF IInv
<1>1. ASSUME NEW x \in Rows, lock[x] = w
      PROVE  w \in Requests => w # r \/ pc[r] \in {"restrict", "index", "answered"}
  BY <1>1 DEF LockInv
<1>2. ASSUME NEW x \in Rows, w \in Requests, lock[x] = w
      PROVE  pc[w] \in {"restrict", "index", "answered"}
  BY <1>2 DEF LockInv
<1>3. CASE pc[r] \in {"insert", "index"}
  <2>1. w \in IndexHolders(r)
    BY <1>3 DEF WaitsFor
  <2>2. \A x \in Namesakes(r) : x \in Rows
    BY TableFacts DEF Namesakes
  <2> QED BY <1>2, <1>3, <2>1, <2>2 DEF IndexHolders, Entered
<1>4. CASE pc[r] \in {"update", "delete"}
  <2>1. /\ w \in HolderOf(req[r].row) \cup Sharers(req[r].row)
        /\ Live(req[r].row)
    BY <1>4 DEF WaitsFor
  <2>2. req[r].row \in Rows /\ req[r].op # "create_book"
    BY <1>4, TableFacts, OpRow
  <2>3. CASE w \in HolderOf(req[r].row)
    BY <1>2, <1>1, <1>4, <2>2, <2>3 DEF HolderOf
  <2>4. CASE w \in Sharers(req[r].row)
    BY <1>4, <2>2, <2>4 DEF Sharers, SlotInv, IInv
  <2> QED BY <2>1, <2>3, <2>4
<1>5. CASE pc[r] = "restrict"
  <2>1. PICK b \in WorksOf(req[r].row) \ KeptWorksOf(req[r].row) : w \in HolderOf(b)
    BY <1>5 DEF WaitsFor
  <2>2. b \in Rows /\ w \in Requests /\ lock[b] = w /\ req[w].op = "delete_book"
    BY <2>1 DEF WorksOf, KeptWorksOf, HolderOf, Rows
  <2>3. pc[w] = "answered"
    BY <2>2 DEF LockInv
  <2> QED BY <1>5, <2>2, <2>3
<1>6. CASE pc[r] = "link"
  <2>1. PICK a \in req[r].authors \ req[r].linked : w \in BeingDeleted(a)
    BY <1>6 DEF WaitsFor
  <2>2. a \in Rows /\ w \in Requests /\ lock[a] = w /\ req[w].op = "delete_author"
    BY <2>1 DEF BeingDeleted, Rows, TypeOK
  <2>3. pc[w] \in {"restrict", "answered"}
    BY <2>2 DEF LockInv
  <2> QED BY <1>6, <2>2, <2>3
<1> QED BY <1>3, <1>4, <1>5, <1>6 DEF WaitsFor

\* A renaming to the name that its row already has waits for creations and
\* renamings that are about to commit only.
LEMMA SameNameWaits ==
  ASSUME IInv, LockInv, NEW r \in Requests, NEW w \in WaitsFor(r), NEW v \in WaitsFor(w),
         pc[r] = "index", pc[w] = "index"
  PROVE  /\ Table(w) = Table(r)
         /\ req[w].name = req[r].name => pc[v] \in {"link", "answered"}
<1> TypeOK /\ UniqueNames /\ w \in Requests /\ w # r /\ SlotInv(w)
  BY WaitedFor DEF IInv
<1>1. w \in IndexHolders(r) /\ ~Entered(w) /\ v \in IndexHolders(w)
  BY DEF WaitsFor, Entered
<1>2. PICK x \in Namesakes(r) : lock[x] = w
  BY <1>1 DEF IndexHolders
<1>3. x \in Table(r) /\ Live(x) /\ rows[x].name = req[r].name /\ x \in Rows
  BY <1>2, TableFacts DEF Namesakes
<1>4. req[w].row = x /\ req[w].op \in {"update_author", "update_book"}
  BY <1>2, <1>3 DEF LockInv
<1>5. x \in Table(w)
  BY <1>4 DEF SlotInv, UpdateInv
<1>6. Table(w) = Table(r)
  BY <1>3, <1>5, TableFacts, DistinctIdentities
<1>7. ASSUME req[w].name = req[r].name, NEW y \in Namesakes(w) PROVE FALSE
  <2>1. y \in Table(r) /\ y # x /\ Live(y) /\ rows[y].name = rows[x].name /\ y \in Rows
    BY <1>3, <1>4, <1>6, <1>7, TableFacts DEF Namesakes
  <2>2. x \in Authors <=> y \in Authors
    BY <1>3, <2>1, TableFacts, DistinctIdentities
  <2> QED BY <1>3, <2>1, <2>2 DEF UniqueNames
<1> QED BY <1>1, <1>6, <1>7 DEF IndexHolders, Entered

LEMMA OnlyRenamingsDeadlock ==
  ASSUME IInv, LockInv, NEW r \in Requests, Deadlocked(r)
  PROVE  /\ At(r, "index")
         /\ \E s \in Requests \ {r} :
              At(s, "index") /\ Table(s) = Table(r) /\ req[s].name # req[r].name
<1> DEFINE in(places) == {t \in Requests : pc[t] \in places}
<1>1. \A t \in Requests : WaitsFor(t) \subseteq in({"link", "restrict", "index", "answered"})
  BY WaitedFor
<1>2. \A t \in Requests : pc[t] = "answered" => WaitsFor(t) = {}
  BY DEF WaitsFor
<1>3. \A t \in Requests : pc[t] = "restrict" => WaitsFor(t) \subseteq in({"answered"})
  BY WaitedFor
<1>4. \A t \in Requests : pc[t] = "link" => WaitsFor(t) \subseteq in({"restrict", "answered"})
  BY WaitedFor
<1>5. At(r, "index")
  <2> SUFFICES ASSUME pc[r] # "index" PROVE FALSE
    BY DEF At
  <2>1. CASE pc[r] \notin {"link", "restrict", "answered"}
    BY <1>1, <2>1 DEF Deadlocked
  <2>2. CASE pc[r] = "link"
    <3>1. \A t \in in({"restrict", "answered"}) : WaitsFor(t) \subseteq in({"restrict", "answered"})
      BY <1>2, <1>3
    <3> QED BY <1>4, <2>2, <3>1 DEF Deadlocked
  <2>3. CASE pc[r] = "restrict"
    <3>1. \A t \in in({"answered"}) : WaitsFor(t) \subseteq in({"answered"})
      BY <1>2
    <3> QED BY <1>3, <2>3, <3>1 DEF Deadlocked
  <2> QED BY <1>2, <2>1, <2>2, <2>3 DEF Deadlocked
<1>6. SUFFICES ASSUME \A s \in Requests \ {r} :
                        At(s, "index") /\ Table(s) = Table(r) => req[s].name = req[r].name
               PROVE  FALSE
  BY <1>5
<1> DEFINE S == in({"link", "restrict", "answered"}) \cup WaitsFor(r)
<1>7. ASSUME NEW t \in WaitsFor(r), pc[t] = "index", NEW v \in WaitsFor(t)
      PROVE  v \in in({"link", "restrict", "answered"})
  <2>1. t \in Requests \ {r} /\ v \in Requests
    BY <1>1, WaitedFor
  <2>2. req[t].name = req[r].name
    BY <1>5, <1>6, <1>7, <2>1, SameNameWaits DEF At
  <2> QED BY <1>5, <1>7, <2>1, <2>2, SameNameWaits DEF At
<1>8. \A t \in S : WaitsFor(t) \subseteq S
  <2> SUFFICES ASSUME NEW t \in S, NEW v \in WaitsFor(t) PROVE v \in in({"link", "restrict", "answered"})
    OBVIOUS
  <2>1. t \in Requests /\ pc[t] \in {"link", "restrict", "index", "answered"}
    BY <1>1
  <2>2. CASE pc[t] = "index"
    BY <1>7, <2>2
  <2> QED BY <1>2, <1>3, <1>4, <2>1, <2>2
<1>9. S \in SUBSET Requests /\ WaitsFor(r) \subseteq S /\ r \notin S
  BY <1>1, <1>5, WaitedFor DEF At
<1> QED BY <1>8, <1>9 DEF Deadlocked

\* No creation and no deletion is ever part of a deadlock: only renamings of one
\* table are, of which two are after different names.
THEOREM DeadlockNeedsTwoRenamingsHolds == Spec => []DeadlockNeedsTwoRenamings
<1>1. Init => LockInv
  BY DistinctIdentities DEF Init, LockInv
<1>2. IInv /\ LockInv => DeadlockNeedsTwoRenamings
  BY OnlyRenamingsDeadlock DEF DeadlockNeedsTwoRenamings
<1>3. IInv /\ LockInv /\ [Next]_vars => LockInv'
  BY NextKeepsLockInv
<1> QED BY <1>1, <1>2, <1>3, InductiveInvariant, PTL DEF Spec

-----------------------------------------------------------------------------
(* Work goes on *)

\* A creation that links authors has one left to link.
LinkInv == \A r \in Requests : pc[r] = "link" => req[r].authors \ req[r].linked # {}

LEMMA NextKeepsLinkInv ==
  ASSUME IInv, LinkInv, [Next]_vars
  PROVE  LinkInv'
<1> TypeOK
  BY DEF IInv
<1>1. CASE UNCHANGED vars
  BY <1>1 DEF vars, LinkInv
<1>2. ASSUME NEW r \in Requests, pc'[r] # "link",
             \A s \in Requests \ {r} : pc'[s] = pc[s] /\ req'[s] = req[s]
      PROVE  LinkInv'
  BY <1>2 DEF LinkInv
<1>3. ASSUME NEW r \in Requests, (\E e : Refuse(r, e)) \/ Finish(r) PROVE LinkInv'
  <2>1. pc'[r] # "link" /\ \A s \in Requests \ {r} : pc'[s] = pc[s] /\ req'[s] = req[s]
    BY <1>3 DEF Refuse, Finish, Goto, TypeOK
  <2> QED BY <1>2, <2>1
<1>4. ASSUME NEW r \in Requests, Arrive(r) PROVE LinkInv'
  <2>1. PICK statement, parameters : Begin(r, statement, parameters) /\ statement # "link"
    BY <1>4 DEF Arrive, BeginCreateAuthor, BeginUpdateAuthor, BeginDeleteAuthor, BeginCreateBook,
                BeginUpdateBook, BeginDeleteBook
  <2>2. pc'[r] # "link" /\ \A s \in Requests \ {r} : pc'[s] = pc[s] /\ req'[s] = req[s]
    BY <2>1 DEF Begin, Goto, TypeOK
  <2> QED BY <1>2, <2>2
<1>5. ASSUME NEW r \in Requests, Fault(r) \/ DeadlockVictim(r) PROVE LinkInv'
  BY <1>3, <1>5 DEF Fault, DeadlockVictim
<1>6. ASSUME NEW r \in Requests, Serve(r) PROVE LinkInv'
  <2>1. CASE InsertBook(r)
    <3>1. \/ Refuse(r, "BookAlreadyExists")
          \/ /\ \E b \in Unused(Books) : req' = [req EXCEPT ![r].row = b]
             /\ \A s \in Requests \ {r} : pc'[s] = pc[s]
             /\ pc'[r] = "link" => req[r].authors # {}
      BY <2>1 DEF InsertBook, Answer, Goto, TypeOK
    <3>2. req[r].linked = {}
      BY <2>1 DEF InsertBook, Serving, At, IInv, SlotInv
    <3>3. ASSUME NEW b, req' = [req EXCEPT ![r].row = b], \A s \in Requests \ {r} : pc'[s] = pc[s],
                 pc'[r] = "link" => req[r].authors # {}
          PROVE  LinkInv'
      <4>1. /\ req'[r].authors = req[r].authors /\ req'[r].linked = {}
            /\ \A s \in Requests \ {r} : req'[s] = req[s]
        BY <3>2, <3>3 DEF TypeOK
      <4> QED BY <3>3, <4>1 DEF LinkInv
    <3> QED BY <1>3, <3>1, <3>3
  <2>2. CASE LinkAuthor(r)
    <3>1. PICK a \in req[r].authors \ req[r].linked :
            \/ Refuse(r, "InternalServerError")
            \/ /\ req' = [req EXCEPT ![r].linked = @ \cup {a}]
               /\ IF req[r].authors \ req[r].linked = {a} THEN Answer(r) ELSE UNCHANGED <<pc, reply>>
      BY <2>2 DEF LinkAuthor
    <3>2. CASE req' = [req EXCEPT ![r].linked = @ \cup {a}]
      <4>0. IF req[r].authors \ req[r].linked = {a} THEN Answer(r) ELSE UNCHANGED <<pc, reply>>
        <5>1. NoRequest.op # "create_book" /\ req'[r].op = "create_book"
          BY <2>2, <3>2, OpFacts DEF NoRequest, Request, LinkAuthor, Serving, TypeOK, Ops
        <5>2. ~Refuse(r, "InternalServerError")
          BY <5>1 DEF Refuse, TypeOK
        <5> QED BY <3>1, <5>2
      <4>1. /\ req'[r].authors = req[r].authors /\ req'[r].linked = req[r].linked \cup {a}
            /\ \A s \in Requests \ {r} : req'[s] = req[s]
        BY <3>2 DEF TypeOK
      <4>2. \A s \in Requests \ {r} : pc'[s] = pc[s]
        BY <4>0 DEF Answer, Goto, TypeOK
      <4>3. CASE req[r].authors \ req[r].linked = {a}
        BY <1>2, <4>0, <4>1, <4>2, <4>3 DEF Answer, Goto, TypeOK
      <4>4. CASE req[r].authors \ req[r].linked # {a}
        BY <3>1, <4>1, <4>2, <4>4 DEF LinkInv
      <4> QED BY <4>3, <4>4
    <3> QED BY <1>3, <3>1, <3>2
  <2>3. CASE ExistsByName(r) \/ ExistsByTitle(r) \/ GetByIds(r) \/ SelectAuthors(r)
    <3>1. (\E e : Refuse(r, e)) \/ (pc'[r] # "link" /\ \A s \in Requests \ {r} : pc'[s] = pc[s] /\ req'[s] = req[s])
      BY <2>3 DEF ExistsByName, ExistsByTitle, GetByIds, SelectAuthors, Continue, Goto, TypeOK
    <3> QED BY <1>2, <1>3, <3>1
  <2>4. CASE InsertAuthor(r) \/ IndexAuthorName(r) \/ IndexBookTitle(r) \/ RestrictAuthor(r) \/ DeleteBook(r)
    <3>1. (\E e : Refuse(r, e)) \/ (pc'[r] # "link" /\ \A s \in Requests \ {r} : pc'[s] = pc[s] /\ req'[s] = req[s])
      BY <2>4 DEF InsertAuthor, IndexAuthorName, IndexBookTitle, RestrictAuthor, DeleteBook, Answer, Goto, TypeOK
    <3> QED BY <1>2, <1>3, <3>1
  <2>5. CASE UpdateAuthor(r) \/ UpdateBook(r) \/ DeleteAuthor(r)
    <3>1. (\E e : Refuse(r, e)) \/ (pc'[r] # "link" /\ \A s \in Requests \ {r} : pc'[s] = pc[s] /\ req'[s] = req[s])
      BY <2>5 DEF UpdateAuthor, UpdateBook, DeleteAuthor, LockRow, Goto, TypeOK
    <3> QED BY <1>2, <1>3, <3>1
  <2>6. CASE CommitCreateAuthor(r) \/ CommitCreateBook(r) \/ CommitUpdate(r) \/ CommitDelete(r) \/ Close(r)
    BY <1>3, <2>6 DEF CommitCreateAuthor, CommitCreateBook, CommitUpdate, CommitDelete, Close
  <2> QED BY <1>6, <2>1, <2>2, <2>3, <2>4, <2>5, <2>6 DEF Serve
<1> QED BY <1>1, <1>4, <1>5, <1>6 DEF Next

\* Every creation that is yet to insert its row will find an unused one: the
\* bound on the rows ever made never holds up a request that has begun.
Creating(op) == {s \in Requests : req[s].op = op /\ req[s].row = None}

EnoughRows(op, S) == Cardinality(Unused(S)) >= Cardinality(Creating(op))

\* op is the creation of rows of S.
Makes(op, S) ==
  \/ op = "create_author" /\ S = Authors
  \/ op = "create_book" /\ S = Books

LEMMA UnusedFinite ==
  ASSUME NEW op, NEW S \in SUBSET Rows
  PROVE  /\ IsFiniteSet(Unused(S)) /\ Cardinality(Unused(S)) \in Nat
         /\ IsFiniteSet(Creating(op)) /\ Cardinality(Creating(op)) \in Nat
<1>1. Unused(S) \subseteq Rows /\ Creating(op) \subseteq Requests
  BY DEF Unused, Creating
<1> QED BY <1>1, FiniteInstance, FS_Subset, FS_CardinalityType

\* A step of r that uses no unused row and begins no creation.
LEMMA SpendsNoRow ==
  ASSUME NEW op, NEW S \in SUBSET Rows, EnoughRows(op, S), NEW r \in Requests,
         \A s \in Requests \ {r} : req'[s] = req[s],
         \A x \in Unused(S) : rows'[x].status = "none" /\ req'[r].row # x,
         r \in Creating(op)' => r \in Creating(op)
  PROVE  EnoughRows(op, S)'
<1>1. Unused(S) \subseteq Unused(S)' /\ Unused(S)' \subseteq Rows
  BY DEF Unused
<1>2. Creating(op)' \subseteq Creating(op)
  BY DEF Creating
<1>3. Cardinality(Unused(S)) <= Cardinality(Unused(S)') /\ Cardinality(Unused(S)') \in Nat
  BY <1>1, FiniteInstance, FS_Subset, FS_CardinalityType
<1>4. Cardinality(Creating(op)') <= Cardinality(Creating(op)) /\ Cardinality(Creating(op)') \in Nat
  BY <1>2, UnusedFinite, FS_Subset, FS_CardinalityType
<1> QED BY <1>3, <1>4, UnusedFinite DEF EnoughRows

\* A step of r after which its slot is free, or it is for the same row as before.
LEMMA KeepsEnough ==
  ASSUME TypeOK, NEW op \in Ops, NEW S \in SUBSET Rows, EnoughRows(op, S), NEW r \in Requests,
         \A x \in Unused(S) : rows'[x].status = "none",
         \A s \in Requests \ {r} : req'[s] = req[s],
         req'[r] = NoRequest \/ (req'[r].op = req[r].op /\ req'[r].row = req[r].row)
  PROVE  EnoughRows(op, S)'
<1>1. NoRequest.row = None /\ NoRequest.op = None
  BY DEF NoRequest, Request
<1>2. \A x \in Unused(S) : req'[r].row # x
  BY <1>1, DistinctIdentities DEF Unused
<1>3. r \in Creating(op)' => r \in Creating(op)
  BY <1>1, OpFacts DEF Creating
<1> QED BY <1>2, <1>3, SpendsNoRow

LEMMA ArriveKeepsEnough ==
  ASSUME IInv, NEW op \in Ops, NEW S \in SUBSET Rows, Makes(op, S), EnoughRows(op, S),
         NEW r \in Requests, Arrive(r)
  PROVE  EnoughRows(op, S)'
<1> TypeOK
  BY DEF IInv
<1>1. PICK statement, p :
        /\ Begin(r, statement, p)
        /\ p.op = op => p.row = None /\ RoomFor(op, S)
        /\ p.row \in Known \cup {None}
  <2>1. ASSUME NEW o, NEW x, NEW n, NEW authors
        PROVE  Request(o, x, n, authors).op = o /\ Request(o, x, n, authors).row = x
    BY DEF Request
  <2> DEFINE Fits(p) == /\ p.op = op => p.row = None /\ RoomFor(op, S)
                        /\ p.row \in Known \cup {None}
  <2>2. op \in {"create_author", "create_book"}
    BY DEF Makes
  <2>3. ASSUME NEW n, BeginCreateAuthor(r, n) PROVE \E statement, p : Begin(r, statement, p) /\ Fits(p)
    BY <2>1, <2>3 DEF BeginCreateAuthor, Makes
  <2>4. ASSUME NEW n, NEW authors, BeginCreateBook(r, n, authors)
        PROVE  \E statement, p : Begin(r, statement, p) /\ Fits(p)
    BY <2>1, <2>4 DEF BeginCreateBook, Makes
  <2>5. ASSUME NEW a, NEW n, BeginUpdateAuthor(r, a, n) \/ BeginUpdateBook(r, a, n)
        PROVE  \E statement, p : Begin(r, statement, p) /\ Fits(p)
    BY <2>1, <2>2, <2>5 DEF BeginUpdateAuthor, BeginUpdateBook
  <2>6. ASSUME NEW a, BeginDeleteAuthor(r, a) \/ BeginDeleteBook(r, a)
        PROVE  \E statement, p : Begin(r, statement, p) /\ Fits(p)
    BY <2>1, <2>2, <2>6 DEF BeginDeleteAuthor, BeginDeleteBook
  <2> QED BY <2>3, <2>4, <2>5, <2>6 DEF Arrive
<1>2. /\ req'[r] = p /\ rows' = rows /\ req[r].op = None
      /\ \A s \in Requests \ {r} : req'[s] = req[s]
  BY <1>1 DEF Begin, At, tables, IInv, SlotInv, TypeOK
<1>3. Known \cap Unused(S) = {} /\ None \notin Unused(S)
  BY DistinctIdentities DEF Known, Unused
<1>4. CASE p.op # op
  <2>1. \A x \in Unused(S) : rows'[x].status = "none" /\ req'[r].row # x
    BY <1>1, <1>2, <1>3 DEF Unused
  <2>2. r \notin Creating(op)'
    BY <1>2, <1>4 DEF Creating
  <2> QED BY <1>2, <2>1, <2>2, SpendsNoRow
<1>5. CASE p.op = op
  <2>1. Cardinality(Unused(S)) > Cardinality(Creating(op))
    BY <1>1, <1>5 DEF RoomFor, Creating
  <2>2. Unused(S) \subseteq Unused(S)' /\ Unused(S)' \subseteq Rows
    BY <1>1, <1>2, <1>5, DistinctIdentities DEF Unused
  <2>3. Creating(op)' = Creating(op) \cup {r} /\ r \notin Creating(op)
    BY <1>1, <1>2, <1>5, OpFacts DEF Creating
  <2>4. Cardinality(Creating(op)') = Cardinality(Creating(op)) + 1
    BY <2>3, UnusedFinite, FS_AddElement
  <2>5. Cardinality(Unused(S)') >= Cardinality(Unused(S)) /\ Cardinality(Unused(S)') \in Nat
    BY <2>2, FiniteInstance, FS_Subset, FS_CardinalityType
  <2> QED BY <2>1, <2>4, <2>5, UnusedFinite DEF EnoughRows
<1> QED BY <1>4, <1>5

\* A creation gets its row.
LEMMA RowTaken ==
  ASSUME IInv, NEW op \in Ops, NEW S \in SUBSET Rows, Makes(op, S), EnoughRows(op, S), UNCHANGED rows,
         NEW r \in Requests, NEW T, NEW x \in Unused(T), Makes(req[r].op, T), pc[r] = "insert",
         req' = [req EXCEPT ![r].row = x]
  PROVE  EnoughRows(op, S)'
<1> TypeOK /\ SlotInv(r)
  BY DEF IInv
<1>1. /\ req'[r].row = x /\ req'[r].op = req[r].op
      /\ \A s \in Requests \ {r} : req'[s] = req[s]
  BY DEF TypeOK
<1>2. x \in T /\ x # None /\ x \in Rows
  BY DistinctIdentities DEF Unused, Makes, Rows
<1>3. CASE req[r].op # op
  <2>1. x \notin S
    BY <1>2, <1>3, DistinctIdentities DEF Makes
  <2>2. \A y \in Unused(S) : rows'[y].status = "none" /\ req'[r].row # y
    BY <1>1, <2>1 DEF Unused
  <2>3. r \notin Creating(op)'
    BY <1>1, <1>3 DEF Creating
  <2> QED BY <1>1, <2>2, <2>3, SpendsNoRow
<1>4. CASE req[r].op = op
  <2>1. S = T
    BY <1>4 DEF Makes
  <2>2. r \in Creating(op)
    BY <1>4 DEF SlotInv, CreateInv, Makes, Creating
  <2>3. Creating(op)' = Creating(op) \ {r}
    BY <1>1, <1>2 DEF Creating
  <2>4. Cardinality(Creating(op)') = Cardinality(Creating(op)) - 1
    BY <2>2, <2>3, UnusedFinite, FS_RemoveElement
  <2>5. Unused(S) \ {x} \subseteq Unused(S)' /\ Unused(S)' \subseteq Rows
    BY <1>1 DEF Unused
  <2>6. Cardinality(Unused(S) \ {x}) <= Cardinality(Unused(S)') /\ Cardinality(Unused(S)') \in Nat
    BY <2>5, FiniteInstance, FS_Subset, FS_CardinalityType
  <2>7. Cardinality(Unused(S) \ {x}) = Cardinality(Unused(S)) - 1
    BY <2>1, UnusedFinite, FS_RemoveElement
  <2> QED BY <2>4, <2>6, <2>7, UnusedFinite DEF EnoughRows
<1> QED BY <1>3, <1>4

LEMMA NextKeepsEnough ==
  ASSUME IInv, NEW op \in Ops, NEW S \in SUBSET Rows, Makes(op, S), EnoughRows(op, S), [Next]_vars
  PROVE  EnoughRows(op, S)'
<1> TypeOK
  BY DEF IInv
<1>1. CASE UNCHANGED vars
  BY <1>1 DEF vars, EnoughRows, Unused, Creating
<1>2. ASSUME NEW r \in Requests, (\E e : Refuse(r, e)) \/ UNCHANGED <<rows, req>> PROVE EnoughRows(op, S)'
  <2>1. \A x \in Unused(S) : rows'[x].status = "none"
    BY <1>2 DEF Refuse, tables, Unused
  <2>2. req'[r] = NoRequest \/ req'[r] = req[r]
    BY <1>2 DEF Refuse, TypeOK
  <2>3. \A s \in Requests \ {r} : req'[s] = req[s]
    BY <1>2 DEF Refuse, TypeOK
  <2> QED BY <2>1, <2>2, <2>3, KeepsEnough
<1>3. ASSUME NEW r \in Requests, Finish(r), \A x \in Unused(S) : rows'[x].status = "none"
      PROVE  EnoughRows(op, S)'
  <2>1. req'[r] = NoRequest /\ \A s \in Requests \ {r} : req'[s] = req[s]
    BY <1>3 DEF Finish, TypeOK
  <2> QED BY <1>3, <2>1, KeepsEnough
<1>4. ASSUME NEW r \in Requests, Fault(r) \/ DeadlockVictim(r) \/ Close(r) PROVE EnoughRows(op, S)'
  <2>1. \A x \in Unused(S) : UNCHANGED tables => rows'[x].status = "none"
    BY DEF Unused, tables
  <2> QED BY <1>2, <1>3, <1>4, <2>1 DEF Fault, DeadlockVictim, Close
<1>5. ASSUME NEW r \in Requests,
             CommitCreateAuthor(r) \/ CommitCreateBook(r) \/ CommitUpdate(r) \/ CommitDelete(r)
      PROVE  EnoughRows(op, S)'
  <2>1. ASSUME NEW x \in Unused(S) PROVE rows'[x].status = "none"
    <3>1. x \in Rows /\ x # req[r].row /\ rows[x].status = "none"
      BY DEF Unused
    <3>2. rows'[x] = rows[x]
      BY <1>5, <3>1 DEF CommitCreateAuthor, CommitCreateBook, CommitUpdate, CommitDelete, TypeOK
    <3> QED BY <3>1, <3>2
  <2> QED BY <1>3, <1>5, <2>1 DEF CommitCreateAuthor, CommitCreateBook, CommitUpdate, CommitDelete
<1>6. ASSUME NEW r \in Requests, Serve(r) PROVE EnoughRows(op, S)'
  <2>1. CASE ExistsByName(r) \/ ExistsByTitle(r) \/ GetByIds(r) \/ IndexAuthorName(r)
             \/ IndexBookTitle(r) \/ RestrictAuthor(r) \/ DeleteBook(r)
    BY <1>2, <2>1 DEF ExistsByName, ExistsByTitle, GetByIds, IndexAuthorName, IndexBookTitle,
                      RestrictAuthor, DeleteBook, Continue, tables
  <2>2. CASE UpdateAuthor(r) \/ UpdateBook(r) \/ DeleteAuthor(r)
    BY <1>2, <2>2 DEF UpdateAuthor, UpdateBook, DeleteAuthor, LockRow, tables
  <2>3. CASE SelectAuthors(r) \/ LinkAuthor(r)
    <3>1. \/ \E e : Refuse(r, e)
          \/ /\ rows' = rows /\ req'[r].op = req[r].op /\ req'[r].row = req[r].row
             /\ \A s \in Requests \ {r} : req'[s] = req[s]
      BY <2>3 DEF SelectAuthors, LinkAuthor, tables, TypeOK
    <3>2. rows' = rows => \A x \in Unused(S) : rows'[x].status = "none"
      BY DEF Unused
    <3> QED BY <1>2, <3>1, <3>2, KeepsEnough
  <2>4. CASE InsertAuthor(r) \/ InsertBook(r)
    <3>1. \/ \E e : Refuse(r, e)
          \/ \E T \in {Authors, Books} : /\ Makes(req[r].op, T) /\ pc[r] = "insert" /\ UNCHANGED rows
                                         /\ \E x \in Unused(T) : req' = [req EXCEPT ![r].row = x]
      BY <2>4 DEF InsertAuthor, InsertBook, Serving, At, tables, Makes
    <3> QED BY <1>2, <3>1, RowTaken
  <2> QED BY <1>4, <1>5, <1>6, <2>1, <2>2, <2>3, <2>4 DEF Serve
<1> QED BY <1>1, <1>4, <1>6, ArriveKeepsEnough DEF Next

EnoughInv == EnoughRows("create_author", Authors) /\ EnoughRows("create_book", Books)

\* A request that waits for nobody can go on.
LEMMA NobodyInTheWay ==
  ASSUME IInv, LinkInv, EnoughInv, NEW r \in Requests, pc[r] # "idle", WaitsFor(r) = {}
  PROVE  Ready(r)
<1> TypeOK /\ SlotInv(r)
  BY DEF IInv
<1>1. CASE pc[r] = "insert"
  <2>1. Makes(req[r].op, Table(r)) /\ req[r].row = None
    BY <1>1, OpFacts DEF SlotInv, CreateInv, UpdateInv, DeleteInv, Makes, Table, TypeOK, Ops, AuthorOps, BookOps
  <2>2. EnoughRows(req[r].op, Table(r)) /\ Table(r) \in SUBSET Rows
    BY <2>1 DEF Makes, EnoughInv, Rows
  <2>3. r \in Creating(req[r].op)
    BY <2>1 DEF Creating
  <2>4. PICK op, S : op = req[r].op /\ S = Table(r)
    OBVIOUS
  <2>5. /\ Cardinality(Creating(op) \ {r}) = Cardinality(Creating(op)) - 1
        /\ Cardinality(Creating(op) \ {r}) \in Nat
    BY <2>2, <2>3, <2>4, UnusedFinite, FS_RemoveElement, FS_CardinalityType
  <2>6. Cardinality(Unused(S)) # 0
    BY <2>2, <2>4, <2>5, UnusedFinite DEF EnoughRows
  <2>7. Unused(Table(r)) # {}
    BY <2>4, <2>6, FS_EmptySet
  <2> QED BY <1>1, <2>7 DEF Ready, WaitsFor, At
<1>2. CASE pc[r] = "link"
  BY <1>2 DEF Ready, WaitsFor, At, LinkInv
<1>3. CASE pc[r] \in {"update", "index", "delete"}
  BY <1>3 DEF Ready, WaitsFor, At
<1>4. CASE pc[r] = "restrict"
  <2>1. \A b \in WorksOf(req[r].row) \ KeptWorksOf(req[r].row) : HolderOf(b) = {}
    BY <1>4 DEF WaitsFor
  <2>2. WorksOf(req[r].row) \subseteq KeptWorksOf(req[r].row)
    BY <2>1 DEF KeptWorksOf, HolderOf
  <2> QED BY <1>4, <2>2 DEF Ready, At
<1> QED BY <1>1, <1>2, <1>3, <1>4 DEF Ready, At

LEMMA SomebodyGoesOn ==
  ASSUME IInv, LockInv, LinkInv, EnoughInv
  PROVE  WorkGoesOn
<1> SUFFICES ASSUME NEW r \in Requests, NEW S \in SUBSET Requests, pc[r] # "idle", r \in S,
                    \A s \in S : WaitsFor(s) \subseteq S
             PROVE  \E s \in S : Ready(s) \/ Deadlocked(s)
  BY DEF WorkGoesOn, At
<1> DEFINE W == [s \in Requests |-> WaitsFor(s)]
           Busy == {s \in S : pc[s] # "idle"}
<1>1. Busy \in SUBSET Requests /\ Busy # {}
  OBVIOUS
<1>2. ClosedUnder(W, Busy)
  BY WaitedFor DEF ClosedUnder
<1>3. PICK s \in Busy : W[s] = {} \/ OnCircle(W, Requests, s)
  <2> HIDE DEF W, Busy
  <2> QED BY <1>1, <1>2, FiniteInstance, WaitsEnd
<1>4. CASE W[s] = {}
  BY <1>4, NobodyInTheWay
<1>5. CASE W[s] # {} /\ OnCircle(W, Requests, s)
  BY <1>5 DEF OnCircle, ClosedUnder, Deadlocked
<1> QED BY <1>3, <1>4, <1>5

\* Whatever has happened, the creations, renamings and deletions that have begun
\* can be brought to an end: who waits for a row or an index entry, waits for one
\* that is at work, or for one on a circle (sqlalchemy_book_repository.py:61-63, 90-97).
THEOREM WorkGoesOnHolds == Spec => []WorkGoesOn
<1>1. Init => LockInv /\ LinkInv /\ EnoughInv
  <2> SUFFICES ASSUME Init PROVE LockInv /\ LinkInv /\ EnoughInv
    OBVIOUS
  <2>1. LockInv /\ LinkInv
    BY DistinctIdentities DEF Init, LockInv, LinkInv
  <2>2. Creating("create_author") = {} /\ Creating("create_book") = {}
    BY OpFacts DEF Init, Creating, NoRequest, Request, Ops
  <2>3. Authors \in SUBSET Rows /\ Books \in SUBSET Rows
    BY DEF Rows
  <2> QED BY <2>1, <2>2, <2>3, FS_EmptySet, UnusedFinite DEF EnoughInv, EnoughRows
<1>2. IInv /\ EnoughInv /\ [Next]_vars => EnoughInv'
  <2>1. /\ "create_author" \in Ops /\ Authors \in SUBSET Rows /\ Makes("create_author", Authors)
        /\ "create_book" \in Ops /\ Books \in SUBSET Rows /\ Makes("create_book", Books)
    BY OpFacts DEF Ops, Rows, Makes
  <2> QED BY <2>1, NextKeepsEnough DEF EnoughInv
<1>3. IInv /\ LockInv /\ LinkInv /\ EnoughInv => WorkGoesOn
  BY SomebodyGoesOn
<1>4. IInv /\ LockInv /\ LinkInv /\ [Next]_vars => LockInv' /\ LinkInv'
  BY NextKeepsLockInv, NextKeepsLinkInv
<1> QED BY <1>1, <1>2, <1>3, <1>4, InductiveInvariant, PTL DEF Spec

=============================================================================
