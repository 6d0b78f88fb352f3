------------------------- MODULE CirculationProofs -------------------------
(***************************************************************************)
(* The invariants of Circulation for every number of users, books, loans   *)
(* and concurrent requests.  IInv is the inductive invariant: what each    *)
(* request's pc says about the rows it has locked, and what the committed  *)
(* rows say about each other.                                              *)
(***************************************************************************)
EXTENDS Circulation, Waits

-----------------------------------------------------------------------------
(* Facts about open loans *)

LEMMA OpenLoansFinite ==
  ASSUME NEW u
  PROVE  /\ IsFiniteSet(OpenLoansOf(u)) /\ Cardinality(OpenLoansOf(u)) \in Nat
BY FiniteRows, FS_Subset, FS_CardinalityType DEF OpenLoansOf

-----------------------------------------------------------------------------
(* Requests other than the one that takes the step *)

\* A step of r that writes no table leaves the invariant of every other request
\* as it is, provided it takes no lock away from it.
LEMMA OthersKeepInv ==
  ASSUME TypeOK, NEW s \in Requests, SlotInv(s), UNCHANGED <<today, tables>>,
         pc'[s] = pc[s], req'[s] = req[s], reply'[s] = reply[s],
         \A row \in Rows : lock[row] = s => lock'[row] = s
  PROVE  SlotInv(s)'
<1>1. Cascaded(s)' = Cascaded(s)
  BY DEF Cascaded, Stored, tables
<1>2. /\ (req[s].op = None <=> pc[s] = "idle")' /\ (pc[s] = "idle" => reply[s] = None)'
      /\ IssueInv(s)'
  BY DEF SlotInv, IssueInv, tables, TypeOK, Locked, CanIncrement, CanTake, OverdueLoans,
         OpenLoansOf, OpenLoansFor, OpenLoansOn, Open, Rows, At
<1>3. ReturnInv(s)'
  BY DEF SlotInv, ReturnInv, tables, TypeOK, Locked, Open, Rows, At
<1>4. DeleteInv(s)' /\ CopiesInv(s)'
  BY <1>1 DEF SlotInv, DeleteInv, CopiesInv, tables, TypeOK, Locked, Cascaded, Rows, At
<1> QED BY <1>2, <1>3, <1>4 DEF SlotInv

-----------------------------------------------------------------------------
(* Steps that read, lock or answer, and write no table *)

\* The lock table after the transaction of r has ended.
LEMMA LocksReleased ==
  ASSUME TypeOK, NEW r \in Requests
  PROVE  /\ LocksWithout(r) \in [Rows -> Requests \cup {None}]
         /\ \A s \in Requests \ {r}, row \in Rows : lock[row] = s => LocksWithout(r)[row] = s
BY DEF TypeOK, LocksWithout, Locked

Quiet(r) ==
  /\ UNCHANGED <<today, tables>>
  /\ \A s \in Requests \ {r} :
       /\ pc'[s] = pc[s] /\ req'[s] = req[s] /\ reply'[s] = reply[s]
       /\ \A row \in Rows : lock[row] = s => lock'[row] = s

LEMMA ContinueQuiet ==
  ASSUME TypeOK, NEW r \in Requests, NEW statement \in Statements, Continue(r, statement)
  PROVE  TypeOK' /\ Quiet(r) /\ pc'[r] = statement /\ UNCHANGED <<req, reply, lock>>
BY DEF TypeOK, Continue, Goto, Quiet, tables

LEMMA RefuseQuiet ==
  ASSUME TypeOK, NEW r \in Requests, NEW error \in Refusals, Refuse(r, error)
  PROVE  TypeOK' /\ Quiet(r) /\ pc'[r] = "closed" /\ reply'[r] = error /\ UNCHANGED req
<1>1. Quiet(r) /\ pc'[r] = "closed" /\ reply'[r] = error /\ UNCHANGED req
  BY LocksReleased DEF TypeOK, Refuse, Goto, Quiet, tables
<1>2. TypeOK'
  BY LocksReleased DEF TypeOK, Refuse, Goto, tables
<1> QED BY <1>1, <1>2

LEMMA WriteQuiet ==
  ASSUME TypeOK, NEW r \in Requests, NEW row \in Rows, NEW statement \in Statements,
         Write(r, row, statement)
  PROVE  /\ TypeOK' /\ Quiet(r) /\ pc'[r] = statement /\ UNCHANGED <<req, reply>>
         /\ lock'[row] = r /\ \A other \in Rows : lock[other] = r => lock'[other] = r
<1>1. Quiet(r)
  BY DistinctIdentities DEF TypeOK, Write, Lock, Goto, Quiet, tables
<1>2. TypeOK'
  BY DEF TypeOK, Write, Lock, Goto, tables
<1> QED BY <1>1, <1>2 DEF TypeOK, Write, Lock, Goto

LEMMA FinishQuiet ==
  ASSUME TypeOK, NEW r \in Requests, Finish(r), UNCHANGED tables
  PROVE  TypeOK' /\ Quiet(r) /\ SlotInv(r)' /\ req'[r] = NoRequest /\ pc'[r] = "idle"
<1>1. Quiet(r) /\ req'[r] = NoRequest /\ pc'[r] = "idle"
  BY LocksReleased DEF TypeOK, Finish, Goto, Quiet, tables
<1>2. TypeOK'
  BY LocksReleased, Limits DEF TypeOK, Finish, Goto, tables, NoRequest, Request, RequestType
<1>3. SlotInv(r)'
  BY <1>1, DistinctIdentities DEF Finish, TypeOK, SlotInv, IssueInv, ReturnInv, DeleteInv, CopiesInv, NoRequest, Request, EventKinds
<1> QED BY <1>1, <1>2, <1>3

LEMMA BeginQuiet ==
  ASSUME TypeOK, NEW r \in Requests, NEW statement \in Statements, NEW parameters \in RequestType,
         Begin(r, statement, parameters)
  PROVE  /\ TypeOK' /\ Quiet(r) /\ pc'[r] = statement /\ req'[r] = parameters
         /\ UNCHANGED <<reply, lock>>
BY DEF TypeOK, Begin, Goto, Quiet, tables

\* What is left to show of a step that writes no table: the invariant of the
\* request that takes it, and that a loan it reserves is one nobody else has.
ReservesUnused(r) ==
  req'[r].op = "issue" =>
    \/ req'[r].loan = None
    \/ req[r].op = "issue" /\ req'[r].loan = req[r].loan
    \/ req'[r].loan \in UnusedLoans

QuietStep(r) == TypeOK' /\ Quiet(r) /\ SlotInv(r)' /\ ReservesUnused(r)

LEMMA QuietStepKeepsIInv ==
  ASSUME IInv, NEW r \in Requests, QuietStep(r)
  PROVE  IInv'
<1>1. RequestInv'
  BY OthersKeepInv DEF IInv, RequestInv, QuietStep, Quiet
<1>2. ReservedOnce'
  BY DEF IInv, ReservedOnce, QuietStep, Quiet, ReservesUnused, UnusedLoans, TypeOK
<1>3. LoanRowsInv' /\ OneOpenLoanPerBook' /\ CounterInv'
  BY DEF IInv, LoanRowsInv, OneOpenLoanPerBook, CounterInv, QuietStep, Quiet, tables,
         Stored, Open, OpenLoansOf
<1> QED BY <1>1, <1>2, <1>3 DEF IInv, QuietStep

-----------------------------------------------------------------------------
(* Every request: arrival, refusal, fault *)

LEMMA ArriveStep ==
  ASSUME IInv, NEW r \in Requests, Arrive(r)
  PROVE  QuietStep(r)
<1> USE Limits, DistinctIdentities DEF IInv, RequestInv, QuietStep, ReservesUnused, Statements, NoRequest, Request,
      SlotInv, IssueInv, ReturnInv, DeleteInv, CopiesInv, IssueStatements, Ops, EventKinds, At
<1>0. TypeOK /\ today \in 0 .. LastDay
  BY DEF TypeOK
<1>1. ASSUME NEW u \in Users, NEW b \in Books, BeginIssue(r, u, b) PROVE QuietStep(r)
  <2> DEFINE p == Request("issue", u, b, None, today, 0)
  <2>1. p \in RequestType /\ Begin(r, "has_overdue_loans", p)
    BY <1>0, <1>1 DEF BeginIssue, RequestType
  <2>2. TypeOK' /\ Quiet(r) /\ pc'[r] = "has_overdue_loans" /\ req'[r] = p /\ today' = today
    BY <1>0, <2>1, BeginQuiet DEF Quiet
  <2>3. today' = today /\ today' - 1 <= today' /\ today' <= today'
    BY <1>0, <2>2
  <2>4. IssueInv(r)'
    BY <2>2, <2>3
  <2> HIDE DEF IssueInv
  <2> QED BY <2>2, <2>4
<1>2. ASSUME NEW l \in Loans, BeginReturn(r, l) PROVE QuietStep(r)
  <2> DEFINE p == Request("return", None, None, l, 0, 0)
  <2>1. p \in RequestType /\ Begin(r, "get_loan", p)
    BY <1>0, <1>2 DEF BeginReturn, RequestType
  <2>2. TypeOK' /\ Quiet(r) /\ pc'[r] = "get_loan" /\ req'[r] = p /\ reply' = reply
    BY <1>0, <2>1, BeginQuiet
  <2>3. reply[r] = None
    BY <2>1 DEF Begin
  <2>4. reply'[r] # "BookNotFound"
    BY <2>2, <2>3 DEF Refusals
  <2> QED BY <2>2, <2>3, <2>4
<1>3. ASSUME NEW u \in Users, BeginDeleteUser(r, u) PROVE QuietStep(r)
  <2> DEFINE p == Request("delete_user", u, None, None, 0, 0)
  <2>1. p \in RequestType /\ Begin(r, "delete_user", p)
    BY <1>0, <1>3 DEF BeginDeleteUser, RequestType
  <2>2. TypeOK' /\ Quiet(r) /\ pc'[r] = "delete_user" /\ req'[r] = p
    BY <1>0, <2>1, BeginQuiet
  <2> QED BY <2>2
<1>4. ASSUME NEW b \in Books, BeginDeleteBook(r, b) PROVE QuietStep(r)
  <2> DEFINE p == Request("delete_book", None, b, None, 0, 0)
  <2>1. p \in RequestType /\ Begin(r, "delete_book", p)
    BY <1>0, <1>4 DEF BeginDeleteBook, RequestType
  <2>2. TypeOK' /\ Quiet(r) /\ pc'[r] = "delete_book" /\ req'[r] = p
    BY <1>0, <2>1, BeginQuiet
  <2> QED BY <2>2
<1>5. ASSUME NEW b \in Books, NEW n \in 0 .. MaxCopies, BeginSetCopies(r, b, n) PROVE QuietStep(r)
  <2> DEFINE p == Request("set_copies", None, b, None, 0, n)
  <2>1. p \in RequestType /\ Begin(r, "update_book", p)
    BY <1>0, <1>5 DEF BeginSetCopies, RequestType
  <2>2. TypeOK' /\ Quiet(r) /\ pc'[r] = "update_book" /\ req'[r] = p
    BY <1>0, <2>1, BeginQuiet
  <2> QED BY <2>2
<1> QED BY <1>1, <1>2, <1>3, <1>4, <1>5 DEF Arrive

\* A refusal is a quiet step of any request that is running.
LEMMA RefuseStep ==
  ASSUME IInv, NEW r \in Requests, NEW error \in Refusals, Refuse(r, error),
         pc[r] \notin {"idle", "answered"},
         req[r].op = "return" => error # "BookNotFound"
  PROVE  QuietStep(r)
<1>1. TypeOK' /\ Quiet(r) /\ pc'[r] = "closed" /\ reply'[r] = error /\ UNCHANGED req
  BY RefuseQuiet DEF IInv
<1>2. SlotInv(r)'
  BY <1>1 DEF IInv, RequestInv, SlotInv, IssueInv, ReturnInv, DeleteInv, CopiesInv, Quiet, At,
              IssueStatements, TypeOK
<1> QED BY <1>1, <1>2 DEF QuietStep, ReservesUnused

LEMMA FaultStep ==
  ASSUME IInv, NEW r \in Requests, Fault(r)
  PROVE  QuietStep(r)
<1>1. CASE At(r, "answered")
  BY <1>1, FinishQuiet DEF IInv, Fault, QuietStep, ReservesUnused, NoRequest, Request
<1>2. CASE ~At(r, "answered")
  BY <1>2, RefuseStep DEF Fault, Running, At, Refusals
<1> QED BY <1>1, <1>2

\* Nobody waits before it has begun or once it has been answered.
LEMMA DeadlockVictimStep ==
  ASSUME IInv, NEW r \in Requests, DeadlockVictim(r)
  PROVE  QuietStep(r)
<1>1. WaitsFor(r) # {}
  BY DEF DeadlockVictim, Deadlocked
<1>2. pc[r] \notin {"idle", "answered"}
  BY <1>1 DEF WaitsFor, Wanted
<1> QED BY <1>2, RefuseStep DEF DeadlockVictim, Refusals

-----------------------------------------------------------------------------
(* The statements of issue_book *)

\* What every statement of a handler can rely on.
LEMMA IssuePending ==
  ASSUME IInv, NEW r \in Requests, pc[r] \in IssueStatements
  PROVE  req[r].op = "issue" /\ IssueInv(r) /\ req[r].loan = None
BY DEF IInv, RequestInv, SlotInv, TypeOK, RequestType, Ops, EventKinds, IssueInv, ReturnInv,
       DeleteInv, CopiesInv, IssueStatements

LEMMA IssueSlot ==
  ASSUME NEW r \in Requests, req'[r].op = "issue", pc'[r] # "idle", IssueInv(r)'
  PROVE  SlotInv(r)'
BY DistinctIdentities DEF SlotInv, ReturnInv, DeleteInv, CopiesInv, EventKinds

LEMMA HasOverdueLoansStep ==
  ASSUME IInv, NEW r \in Requests, HasOverdueLoans(r)
  PROVE  QuietStep(r)
<1>1. req[r].op = "issue" /\ IssueInv(r) /\ req[r].loan = None
  BY IssuePending DEF HasOverdueLoans, At, IssueStatements
<1>2. CASE OverdueLoans(req[r].user, req[r].as_of) # {}
  BY <1>1, <1>2, RefuseStep DEF HasOverdueLoans, At, Refusals
<1>3. CASE OverdueLoans(req[r].user, req[r].as_of) = {}
  <2>1. TypeOK' /\ Quiet(r) /\ pc'[r] = "has_open_loan" /\ UNCHANGED <<req, reply, lock>>
    BY <1>3, ContinueQuiet DEF IInv, HasOverdueLoans, Statements
  <2>2. IssueInv(r)'
    BY <1>1, <1>3, <2>1 DEF IssueInv, Quiet, IssueStatements, OverdueLoans, OpenLoansOf, Open, tables
  <2>3. SlotInv(r)'
    BY <1>1, <2>1, <2>2, IssueSlot
  <2> QED BY <1>1, <2>1, <2>3 DEF QuietStep, ReservesUnused
<1> QED BY <1>2, <1>3

LEMMA HasOpenLoanStep ==
  ASSUME IInv, NEW r \in Requests, HasOpenLoanForBook(r)
  PROVE  QuietStep(r)
<1>1. req[r].op = "issue" /\ IssueInv(r) /\ req[r].loan = None
  BY IssuePending DEF HasOpenLoanForBook, At, IssueStatements
<1>2. CASE OpenLoansFor(req[r].user, req[r].book) # {}
  BY <1>1, <1>2, RefuseStep DEF HasOpenLoanForBook, At, Refusals
<1>3. CASE OpenLoansFor(req[r].user, req[r].book) = {}
  <2>1. TypeOK' /\ Quiet(r) /\ pc'[r] = "increment" /\ UNCHANGED <<req, reply, lock>>
    BY <1>3, ContinueQuiet DEF IInv, HasOpenLoanForBook, Statements
  <2>2. IssueInv(r)'
    BY <1>1, <2>1 DEF HasOpenLoanForBook, IssueInv, Quiet, IssueStatements, OverdueLoans,
           OpenLoansOf, Open, At, tables
  <2>3. SlotInv(r)'
    BY <1>1, <2>1, <2>2, IssueSlot
  <2> QED BY <1>1, <2>1, <2>3 DEF QuietStep, ReservesUnused
<1> QED BY <1>2, <1>3

LEMMA IncrementStep ==
  ASSUME IInv, NEW r \in Requests, IncrementBooksOnHand(r)
  PROVE  QuietStep(r)
<1>1. req[r].op = "issue" /\ IssueInv(r) /\ req[r].loan = None
  BY IssuePending DEF IncrementBooksOnHand, At, IssueStatements
<1>2. req[r].user \in Users /\ pc[r] = "increment"
  BY <1>1 DEF IssueInv, IncrementBooksOnHand, At
<1>3. CASE CanIncrement(req[r].user) /\ Write(r, req[r].user, "take")
  <2>1. /\ TypeOK' /\ Quiet(r) /\ pc'[r] = "take" /\ UNCHANGED <<req, reply>>
        /\ lock'[req[r].user] = r
    BY <1>2, <1>3, WriteQuiet DEF IInv, Statements, Rows
  <2>2. IssueInv(r)'
    BY <1>1, <1>2, <1>3, <2>1 DEF IssueInv, Quiet, IssueStatements, OverdueLoans,
           OpenLoansOf, Open, Locked, CanIncrement, tables
  <2>3. SlotInv(r)'
    BY <1>1, <2>1, <2>2, IssueSlot
  <2> QED BY <1>1, <2>1, <2>3 DEF QuietStep, ReservesUnused
<1>4. CASE Continue(r, "get_user")
  <2>1. TypeOK' /\ Quiet(r) /\ pc'[r] = "get_user" /\ UNCHANGED <<req, reply, lock>>
    BY <1>4, ContinueQuiet DEF IInv, Statements
  <2>2. IssueInv(r)'
    BY <1>1, <1>2, <2>1 DEF IssueInv, Quiet, IssueStatements, OverdueLoans, OpenLoansOf, Open, tables
  <2>3. SlotInv(r)'
    BY <1>1, <2>1, <2>2, IssueSlot
  <2> QED BY <1>1, <2>1, <2>3 DEF QuietStep, ReservesUnused
<1> QED BY <1>3, <1>4 DEF IncrementBooksOnHand

LEMMA TakeStep ==
  ASSUME IInv, NEW r \in Requests, TakeAvailableInstance(r)
  PROVE  QuietStep(r)
<1>1. req[r].op = "issue" /\ IssueInv(r) /\ req[r].loan = None
  BY IssuePending DEF TakeAvailableInstance, At, IssueStatements
<1>2. req[r].book \in Books /\ req[r].user \in Users /\ pc[r] = "take"
  BY <1>1 DEF IssueInv, TakeAvailableInstance, At
<1>3. CASE CanTake(req[r].book) /\ Write(r, req[r].book, "create_loan")
  <2>1. /\ TypeOK' /\ Quiet(r) /\ pc'[r] = "create_loan" /\ UNCHANGED <<req, reply>>
        /\ lock'[req[r].book] = r
        /\ \A other \in Rows : lock[other] = r => lock'[other] = r
    BY <1>2, <1>3, WriteQuiet DEF IInv, Statements, Rows
  <2>2. IssueInv(r)'
    BY <1>1, <1>2, <1>3, <2>1 DEF IssueInv, Quiet, IssueStatements, OverdueLoans,
           OpenLoansOf, Open, Locked, CanIncrement, CanTake, Rows, tables
  <2>3. SlotInv(r)'
    BY <1>1, <2>1, <2>2, IssueSlot
  <2> QED BY <1>1, <2>1, <2>3 DEF QuietStep, ReservesUnused
<1>4. CASE Continue(r, "get_book")
  <2>1. TypeOK' /\ Quiet(r) /\ pc'[r] = "get_book" /\ UNCHANGED <<req, reply, lock>>
    BY <1>4, ContinueQuiet DEF IInv, Statements
  <2>2. IssueInv(r)'
    BY <1>1, <1>2, <2>1 DEF IssueInv, Quiet, IssueStatements, OverdueLoans, OpenLoansOf, Open,
           Locked, CanIncrement, tables
  <2>3. SlotInv(r)'
    BY <1>1, <2>1, <2>2, IssueSlot
  <2> QED BY <1>1, <2>1, <2>3 DEF QuietStep, ReservesUnused
<1> QED BY <1>3, <1>4 DEF TakeAvailableInstance

LEMMA GetUserStep ==
  ASSUME IInv, NEW r \in Requests, GetUser(r) \/ GetBook(r)
  PROVE  QuietStep(r)
<1>1. req[r].op = "issue"
  BY IssuePending DEF GetUser, GetBook, At, IssueStatements
<1> QED BY <1>1, RefuseStep DEF GetUser, GetBook, At, Refusals

LEMMA CreateLoanStep ==
  ASSUME IInv, NEW r \in Requests, CreateLoan(r)
  PROVE  QuietStep(r)
<1>1. req[r].op = "issue" /\ IssueInv(r) /\ req[r].loan = None /\ pc[r] = "create_loan"
  BY IssuePending DEF CreateLoan, At, IssueStatements
<1>2. CASE OpenLoansFor(req[r].user, req[r].book) # {}
  BY <1>1, <1>2, RefuseStep DEF CreateLoan, Refusals
<1>3. CASE OpenLoansFor(req[r].user, req[r].book) = {}
  <2>1. PICK l \in UnusedLoans : req' = [req EXCEPT ![r].loan = l]
    BY <1>3 DEF CreateLoan
  <2>2. /\ req'[r].loan = l /\ req'[r].op = "issue" /\ l \in Loans /\ book_loans[l].status = "none"
        /\ req'[r].user = req[r].user /\ req'[r].book = req[r].book /\ req'[r].as_of = req[r].as_of
        /\ \A s \in Requests \ {r} : req'[s] = req[s]
        /\ req' \in [Requests -> RequestType]
    <3>1. req \in [Requests -> RequestType] /\ req[r] \in RequestType
      BY DEF IInv, TypeOK
    <3>2. req' = [req EXCEPT ![r] = [req[r] EXCEPT !.loan = l]]
      BY <2>1
    <3>3. l \in Loans /\ book_loans[l].status = "none"
      BY DEF UnusedLoans
    <3>4. [req[r] EXCEPT !.loan = l] \in RequestType
      BY <3>1, <3>3 DEF RequestType
    <3>5. req'[r] = [req[r] EXCEPT !.loan = l] /\ \A s \in Requests \ {r} : req'[s] = req[s]
      BY <3>1, <3>2
    <3>6. req' \in [Requests -> RequestType]
      BY <3>1, <3>2, <3>4
    <3>7. /\ req'[r].loan = l /\ req'[r].op = req[r].op /\ req'[r].user = req[r].user
          /\ req'[r].book = req[r].book /\ req'[r].as_of = req[r].as_of
      BY <3>1, <3>5 DEF RequestType
    <3> QED BY <1>1, <3>3, <3>5, <3>6, <3>7
  <2>3. /\ Answer(r) /\ UNCHANGED <<today, tables, lock>>
    BY <1>3 DEF CreateLoan
  <2>4. TypeOK' /\ Quiet(r) /\ pc'[r] = "answered"
    BY <2>2, <2>3 DEF IInv, TypeOK, Answer, Goto, Quiet, tables
  <2>5. IssueInv(r)'
    BY <1>1, <1>3, <2>2, <2>3, <2>4 DEF IssueInv, IssueStatements, OverdueLoans, OpenLoansFor,
           OpenLoansOn, OpenLoansOf, Open, Locked, CanIncrement, CanTake, tables
  <2>6. SlotInv(r)'
    BY <2>2, <2>4, <2>5, IssueSlot
  <2> QED BY <2>2, <2>4, <2>6 DEF QuietStep, ReservesUnused
<1> QED BY <1>2, <1>3

-----------------------------------------------------------------------------
(* The statements of return_book *)

ReturnStatements == {"get_loan", "mark_returned", "return_instance", "decrement"}

LEMMA ReturnPending ==
  ASSUME IInv, NEW r \in Requests, pc[r] \in ReturnStatements
  PROVE  req[r].op = "return" /\ ReturnInv(r) /\ TypeOK
BY DEF IInv, RequestInv, SlotInv, TypeOK, RequestType, Ops, EventKinds, IssueInv, ReturnInv,
       DeleteInv, CopiesInv, IssueStatements, ReturnStatements

LEMMA ReturnSlot ==
  ASSUME NEW r \in Requests, req'[r].op = "return", pc'[r] # "idle", ReturnInv(r)'
  PROVE  SlotInv(r)'
BY DistinctIdentities DEF SlotInv, IssueInv, DeleteInv, CopiesInv, EventKinds

LEMMA GetLoanStep ==
  ASSUME IInv, NEW r \in Requests, GetLoanById(r)
  PROVE  QuietStep(r)
<1>1. req[r].op = "return" /\ ReturnInv(r) /\ pc[r] = "get_loan" /\ req[r].loan \in Loans /\ TypeOK
  BY ReturnPending DEF GetLoanById, At, ReturnStatements, ReturnInv
<1>2. CASE Refuse(r, "LoanNotFound") \/ Refuse(r, "AlreadyReturned")
  BY <1>1, <1>2, RefuseStep DEF Refusals
<1>3. CASE ~(Refuse(r, "LoanNotFound") \/ Refuse(r, "AlreadyReturned"))
  <2> DEFINE loan == book_loans[req[r].loan]
  <2>1. /\ Open(req[r].loan)
        /\ req' = [req EXCEPT ![r] = [req[r] EXCEPT !.user = loan.user, !.book = loan.book]]
        /\ Goto(r, "mark_returned") /\ UNCHANGED <<today, tables, reply, lock>>
    BY <1>3 DEF GetLoanById, Open
  <2>2. loan.user \in Users /\ loan.book \in Books
    BY <1>1, <2>1 DEF IInv, LoanRowsInv, Stored, Open
  <2>3. req \in [Requests -> RequestType] /\ req[r] \in RequestType
    BY <1>1 DEF TypeOK
  <2>4. [req[r] EXCEPT !.user = loan.user, !.book = loan.book] \in RequestType
    BY <2>2, <2>3 DEF RequestType
  <2>5. /\ req'[r] = [req[r] EXCEPT !.user = loan.user, !.book = loan.book]
        /\ \A s \in Requests \ {r} : req'[s] = req[s]
        /\ req' \in [Requests -> RequestType]
    BY <2>1, <2>3, <2>4
  <2>6. /\ req'[r].loan = req[r].loan /\ req'[r].op = "return"
        /\ req'[r].user = loan.user /\ req'[r].book = loan.book
    BY <1>1, <2>3, <2>5 DEF RequestType
  <2>7. TypeOK' /\ Quiet(r) /\ pc'[r] = "mark_returned" /\ reply' = reply
    BY <1>1, <2>1, <2>5 DEF TypeOK, Goto, Quiet, tables, Statements
  <2>8. ReturnInv(r)'
    BY <1>1, <2>1, <2>2, <2>6, <2>7 DEF ReturnInv, Open, tables
  <2>9. SlotInv(r)'
    BY <2>6, <2>7, <2>8, ReturnSlot
  <2> QED BY <2>6, <2>7, <2>9 DEF QuietStep, ReservesUnused
<1> QED BY <1>2, <1>3

LEMMA MarkStep ==
  ASSUME IInv, NEW r \in Requests, MarkLoanReturned(r)
  PROVE  QuietStep(r)
<1>1. req[r].op = "return" /\ ReturnInv(r) /\ pc[r] = "mark_returned" /\ req[r].loan \in Loans /\ TypeOK
  BY ReturnPending DEF MarkLoanReturned, At, ReturnStatements, ReturnInv
<1>2. CASE CanMark(req[r].loan) /\ Write(r, req[r].loan, "return_instance")
  <2>1. /\ TypeOK' /\ Quiet(r) /\ pc'[r] = "return_instance" /\ UNCHANGED <<req, reply>>
        /\ lock'[req[r].loan] = r
    BY <1>1, <1>2, WriteQuiet DEF Statements, Rows
  <2>2. ReturnInv(r)'
    BY <1>1, <1>2, <2>1 DEF ReturnInv, Locked, CanMark, Open, Quiet, tables
  <2>3. SlotInv(r)'
    BY <1>1, <2>1, <2>2, ReturnSlot
  <2> QED BY <1>1, <2>1, <2>3 DEF QuietStep, ReservesUnused
<1> QED BY <1>1, <1>2, RefuseStep DEF MarkLoanReturned, Refusals

LEMMA ReturnInstanceStep ==
  ASSUME IInv, NEW r \in Requests, ReturnInstance(r)
  PROVE  QuietStep(r)
<1>1. req[r].op = "return" /\ ReturnInv(r) /\ pc[r] = "return_instance" /\ req[r].loan \in Loans /\ TypeOK
  BY ReturnPending DEF ReturnInstance, At, ReturnStatements, ReturnInv
<1>2. req[r].book \in Books /\ books[req[r].book].live
  \* the loan it has locked is open, and no book goes away under an open loan
  BY <1>1 DEF ReturnInv, IInv, LoanRowsInv, Stored, Open
<1>3. Write(r, req[r].book, "decrement")
  BY <1>2 DEF ReturnInstance
<1>4. /\ TypeOK' /\ Quiet(r) /\ pc'[r] = "decrement" /\ UNCHANGED <<req, reply>>
      /\ lock'[req[r].book] = r
      /\ \A other \in Rows : lock[other] = r => lock'[other] = r
  BY <1>1, <1>2, <1>3, WriteQuiet DEF Statements, Rows
<1>5. ReturnInv(r)'
  BY <1>1, <1>2, <1>4 DEF ReturnInv, Locked, Open, Quiet, Rows, tables
<1>6. SlotInv(r)'
  BY <1>1, <1>4, <1>5, ReturnSlot
<1> QED BY <1>1, <1>4, <1>6 DEF QuietStep, ReservesUnused

LEMMA DecrementStep ==
  ASSUME IInv, NEW r \in Requests, DecrementBooksOnHand(r)
  PROVE  QuietStep(r)
<1> DEFINE u == req[r].user l == req[r].loan
<1>1. /\ req[r].op = "return" /\ ReturnInv(r) /\ pc[r] = "decrement" /\ TypeOK
      /\ l \in Loans /\ Open(l) /\ book_loans[l].user = u /\ u \in Users
  BY ReturnPending DEF DecrementBooksOnHand, At, ReturnStatements, ReturnInv
<1>2. CanDecrement(u)
  \* the loan being returned is one of the user's open loans, so the counter is positive
  <2>1. users[u].live /\ users[u].books_on_hand \in Nat
    BY <1>1 DEF IInv, LoanRowsInv, Stored, Open, TypeOK
  <2>2. Cardinality(OpenLoansOf(u)) # 0
    BY <1>1, OpenLoansFinite, FS_EmptySet DEF OpenLoansOf
  <2> QED BY <1>1, <2>1, <2>2, OpenLoansFinite DEF IInv, CounterInv, CanDecrement
<1>3. lock[u] \in {None, r} /\ Lock(r, u) /\ Answer(r) /\ UNCHANGED <<today, tables, req>>
  BY <1>2 DEF DecrementBooksOnHand
<1>4. /\ TypeOK' /\ Quiet(r) /\ pc'[r] = "answered" /\ reply'[r] = "ok" /\ lock'[u] = r
      /\ \A other \in Rows : lock[other] = r => lock'[other] = r
  BY <1>1, <1>3, DistinctIdentities DEF TypeOK, Lock, Answer, Goto, Quiet, Rows, tables
<1>5. ReturnInv(r)'
  BY <1>1, <1>3, <1>4 DEF ReturnInv, Locked, Open, Rows, tables
<1>6. SlotInv(r)'
  BY <1>1, <1>3, <1>4, <1>5, ReturnSlot
<1> QED BY <1>1, <1>3, <1>4, <1>6 DEF QuietStep, ReservesUnused

-----------------------------------------------------------------------------
(* The statements that delete a user or a book, and the administrator's edit *)

Deletes == {"delete_user", "delete_book"}

LEMMA DeletePending ==
  ASSUME IInv, NEW r \in Requests, pc[r] \in {"delete_user", "delete_book", "cascade", "update_book"}
  PROVE  /\ req[r].op \in Deletes \cup {"set_copies"} /\ DeleteInv(r) /\ CopiesInv(r) /\ TypeOK
         /\ pc[r] = "delete_user" => req[r].op = "delete_user"
         /\ pc[r] = "delete_book" => req[r].op = "delete_book"
         /\ pc[r] = "cascade" => req[r].op \in Deletes
         /\ pc[r] = "update_book" => req[r].op = "set_copies"
BY DEF IInv, RequestInv, SlotInv, TypeOK, RequestType, Ops, EventKinds, IssueInv, ReturnInv,
       DeleteInv, CopiesInv, IssueStatements, Deletes

LEMMA DeleteSlot ==
  ASSUME NEW r \in Requests, req'[r].op \in Deletes, pc'[r] # "idle", DeleteInv(r)'
  PROVE  SlotInv(r)'
BY DistinctIdentities DEF SlotInv, IssueInv, ReturnInv, CopiesInv, EventKinds, Deletes

LEMMA DeleteRowStep ==
  ASSUME IInv, NEW r \in Requests, DeleteUser(r) \/ DeleteBook(r)
  PROVE  QuietStep(r)
<1>1. /\ req[r].op \in Deletes /\ DeleteInv(r) /\ TypeOK /\ pc[r] = req[r].op
      /\ req[r].op = "delete_user" => req[r].user \in Users
      /\ req[r].op = "delete_book" => req[r].book \in Books
  BY DeletePending DEF DeleteUser, DeleteBook, At, DeleteInv, Deletes
<1> DEFINE row == IF req[r].op = "delete_user" THEN req[r].user ELSE req[r].book
<1>2. CASE /\ Write(r, row, "cascade")
           /\ req[r].op = "delete_user" => users[req[r].user].live
           /\ req[r].op = "delete_book" => books[req[r].book].live
  <2>1. /\ TypeOK' /\ Quiet(r) /\ pc'[r] = "cascade" /\ UNCHANGED <<req, reply>> /\ lock'[row] = r
    BY <1>1, <1>2, WriteQuiet DEF Statements, Rows, Deletes
  <2>2. DeleteInv(r)'
    BY <1>1, <1>2, <2>1 DEF DeleteInv, Locked, At, Quiet, tables
  <2>3. SlotInv(r)'
    BY <1>1, <2>1, <2>2, DeleteSlot
  <2> QED BY <1>1, <2>1, <2>3 DEF QuietStep, ReservesUnused, Deletes
<1>3. CASE Refuse(r, "UserNotFound") \/ Refuse(r, "BookNotFound")
  BY <1>1, <1>3, RefuseStep DEF Refusals, Deletes
<1> QED BY <1>1, <1>2, <1>3 DEF DeleteUser, DeleteBook, At

LEMMA CascadeToLoanStep ==
  ASSUME IInv, NEW r \in Requests, NEW l \in Loans, CascadeToLoan(r, l)
  PROVE  QuietStep(r)
<1>1. req[r].op \in Deletes /\ DeleteInv(r) /\ TypeOK /\ pc[r] = "cascade"
  BY DeletePending DEF CascadeToLoan, At
<1>2. lock[l] = None /\ lock' = [lock EXCEPT ![l] = r] /\ UNCHANGED <<today, tables, pc, req, reply>>
  BY DEF CascadeToLoan, Unlocked, Lock
<1>3. /\ TypeOK' /\ Quiet(r)
      /\ \A other \in Rows : lock[other] = r => lock'[other] = r
  BY <1>1, <1>2, DistinctIdentities DEF TypeOK, Quiet, Rows, tables
<1>4. DeleteInv(r)'
  BY <1>1, <1>2, <1>3 DEF DeleteInv, Locked, At, Rows, Deletes, tables
<1>5. SlotInv(r)'
  BY <1>1, <1>2, <1>4, DeleteSlot
<1> QED BY <1>1, <1>2, <1>3, <1>5 DEF QuietStep, ReservesUnused, Deletes

LEMMA CascadeDoneStep ==
  ASSUME IInv, NEW r \in Requests, CascadeDone(r)
  PROVE  QuietStep(r)
<1>1. req[r].op \in Deletes /\ DeleteInv(r) /\ TypeOK /\ pc[r] = "cascade"
  BY DeletePending DEF CascadeDone, At
<1>2. Answer(r) /\ UNCHANGED <<today, tables, req, lock>>
  BY DEF CascadeDone
<1>3. TypeOK' /\ Quiet(r) /\ pc'[r] = "answered"
  BY <1>1, <1>2 DEF TypeOK, Answer, Goto, Quiet, tables
<1>4. Cascaded(r)' = Cascaded(r)
  BY <1>2 DEF Cascaded, Stored, tables
<1>5. DeleteInv(r)'
  BY <1>1, <1>2, <1>3, <1>4 DEF DeleteInv, CascadeDone, Locked, At, tables
<1>6. SlotInv(r)'
  BY <1>1, <1>2, <1>3, <1>5, DeleteSlot
<1> QED BY <1>1, <1>2, <1>3, <1>6 DEF QuietStep, ReservesUnused, Deletes

LEMMA UpdateBookStep ==
  ASSUME IInv, NEW r \in Requests, UpdateBook(r)
  PROVE  QuietStep(r)
<1> DEFINE b == req[r].book
<1>1. req[r].op = "set_copies" /\ CopiesInv(r) /\ TypeOK /\ pc[r] = "update_book" /\ b \in Books
  BY DeletePending DEF UpdateBook, At, CopiesInv
<1>2. CASE ~Refuse(r, "BookNotFound")
  <2>1. /\ books[b].live /\ lock[b] = None /\ lock' = [lock EXCEPT ![b] = r]
        /\ Answer(r) /\ UNCHANGED <<today, tables, req>>
    BY <1>2 DEF UpdateBook, Unlocked, Lock
  <2>2. TypeOK' /\ Quiet(r) /\ pc'[r] = "answered" /\ lock'[b] = r
    BY <1>1, <2>1, DistinctIdentities DEF TypeOK, Answer, Goto, Quiet, Rows, tables
  <2>3. SlotInv(r)'
    BY <1>1, <2>1, <2>2, DistinctIdentities
    DEF SlotInv, IssueInv, ReturnInv, DeleteInv, CopiesInv, EventKinds, Locked, At, tables
  <2> QED BY <1>1, <2>1, <2>2, <2>3 DEF QuietStep, ReservesUnused
<1> QED BY <1>1, <1>2, RefuseStep DEF Refusals

LEMMA CloseStep ==
  ASSUME IInv, NEW r \in Requests, Close(r)
  PROVE  QuietStep(r)
BY FinishQuiet DEF IInv, Close, QuietStep, ReservesUnused, NoRequest, Request

-----------------------------------------------------------------------------
(* Commits *)

\* What a commit of r may do to the tables: it changes users and books it has
\* locked, closes or deletes loans it has locked, and adds the loan it has
\* reserved, of a user and a book it has locked.
ClosesLoan(r, l) ==
  /\ Stored(l) /\ Locked(r, l)
  /\ book_loans'[l].status \in {"returned", "gone"}
  /\ book_loans'[l].user = book_loans[l].user /\ book_loans'[l].book = book_loans[l].book

AddsLoan(r, l) ==
  LET row == book_loans'[l] IN
  /\ req[r].op = "issue" /\ req[r].loan = l /\ book_loans[l].status = "none"
  /\ row.status = "open" /\ row.due \in Nat /\ row.due >= today
  /\ row.user \in Users /\ Locked(r, row.user) /\ row.book \in Books /\ Locked(r, row.book)

CommitFrame(r) ==
  /\ today' = today
  /\ \A u \in Users : ~Locked(r, u) => users'[u] = users[u]
  /\ \A b \in Books : ~Locked(r, b) => books'[b] = books[b]
  /\ \A l \in Loans : book_loans'[l] = book_loans[l] \/ ClosesLoan(r, l) \/ AddsLoan(r, l)

LEMMA FinishSlot ==
  ASSUME TypeOK, NEW r \in Requests, Finish(r)
  PROVE  /\ SlotInv(r)' /\ req'[r] = NoRequest
         /\ pc' \in [Requests -> Statements \cup {"idle", "answered", "closed"}]
         /\ req' \in [Requests -> RequestType]
         /\ reply' \in [Requests -> Refusals \cup {None, "ok"}]
         /\ lock' \in [Rows -> Requests \cup {None}]
         /\ \A s \in Requests \ {r} :
              /\ pc'[s] = pc[s] /\ req'[s] = req[s] /\ reply'[s] = reply[s]
              /\ \A row \in Rows : lock[row] = s => lock'[row] = s
<1>1. /\ pc' = [pc EXCEPT ![r] = "idle"] /\ req' = [req EXCEPT ![r] = NoRequest]
      /\ reply' = [reply EXCEPT ![r] = None] /\ lock' = LocksWithout(r)
  BY DEF Finish, Goto
<1>2. NoRequest \in RequestType
  BY Limits DEF NoRequest, Request, RequestType
<1>3. pc'[r] = "idle" /\ req'[r] = NoRequest /\ reply'[r] = None
  BY <1>1 DEF TypeOK
<1>4. SlotInv(r)'
  BY <1>3, DistinctIdentities
  DEF SlotInv, IssueInv, ReturnInv, DeleteInv, CopiesInv, NoRequest, Request, EventKinds
<1>5. \A s \in Requests \ {r}, row \in Rows : lock[row] = s => lock'[row] = s
  BY <1>1, LocksReleased
<1> QED BY <1>1, <1>2, <1>3, <1>4, <1>5, LocksReleased DEF TypeOK

LEMMA OthersAcrossCommit ==
  ASSUME IInv, NEW r \in Requests, NEW s \in Requests, s # r, CommitFrame(r),
         pc'[s] = pc[s], req'[s] = req[s], reply'[s] = reply[s],
         \A row \in Rows : lock[row] = s => lock'[row] = s
  PROVE  SlotInv(s)'
<1> DEFINE u == req[s].user b == req[s].book k == req[s].loan
<1>0. SlotInv(s) /\ TypeOK /\ today \in Nat
  BY DEF IInv, RequestInv, TypeOK
<1>1. \A v \in Users : Locked(s, v) => Locked(s, v)' /\ users'[v] = users[v]
  BY DEF CommitFrame, Locked, Rows
<1>2. \A v \in Books : Locked(s, v) => Locked(s, v)' /\ books'[v] = books[v]
  BY DEF CommitFrame, Locked, Rows
<1>3. \A l \in Loans : Locked(s, l) /\ Stored(l) => Locked(s, l)' /\ book_loans'[l] = book_loans[l]
  BY DEF CommitFrame, Locked, Rows, ClosesLoan, AddsLoan, Stored
<1>4. IssueInv(s)'
  <2> SUFFICES ASSUME req[s].op = "issue" PROVE IssueInv(s)'
    BY DEF IssueInv
  <2>1. /\ u \in Users /\ b \in Books
        /\ pc[s] \in IssueStatements \cup {"answered", "closed"}
        /\ today - 1 <= req[s].as_of /\ req[s].as_of <= today
        /\ req[s].as_of \in Int
    BY <1>0 DEF SlotInv, IssueInv, TypeOK, RequestType
  <2>2. ASSUME pc[s] \notin {"has_overdue_loans", "closed"}
        PROVE  OverdueLoans(u, req[s].as_of)' = {}
    \* a loan added now is due today at the earliest
    <3>1. OverdueLoans(u, req[s].as_of) = {}
      BY <1>0, <2>2 DEF SlotInv, IssueInv
    <3>2. ASSUME NEW l \in Loans, Open(l)', book_loans'[l].user = u PROVE ~(book_loans'[l].due < req[s].as_of)
      <4>1. CASE book_loans'[l] = book_loans[l]
        BY <3>1, <3>2, <4>1 DEF OverdueLoans, OpenLoansOf, Open
      <4>2. CASE AddsLoan(r, l)
        BY <1>0, <2>1, <4>2 DEF AddsLoan
      <4> QED BY <3>2, <4>1, <4>2 DEF CommitFrame, ClosesLoan, Open
    <3> QED BY <3>2 DEF OverdueLoans, OpenLoansOf, Open
  <2>3. ASSUME pc[s] \in {"take", "get_book", "create_loan", "answered"}
        PROVE  (Locked(s, u) /\ CanIncrement(u))'
    BY <1>0, <1>1, <2>3 DEF SlotInv, IssueInv, CanIncrement, Locked
  <2>4. ASSUME pc[s] \in {"create_loan", "answered"}
        PROVE  (Locked(s, b) /\ CanTake(b))'
    BY <1>0, <1>2, <2>4 DEF SlotInv, IssueInv, CanTake, Locked
  <2>5. ASSUME pc[s] = "answered"
        PROVE  k \in Loans /\ book_loans'[k].status = "none" /\ OpenLoansFor(u, b)' = {}
    <3>1. /\ k \in Loans /\ book_loans[k].status = "none" /\ OpenLoansFor(u, b) = {}
          /\ Locked(s, u)
      BY <1>0, <2>5 DEF SlotInv, IssueInv
    <3>2. k # None
      BY <3>1, DistinctIdentities DEF Rows
    <3>3. ~AddsLoan(r, k)
      BY <3>2 DEF IInv, ReservedOnce, AddsLoan
    <3>4. book_loans'[k] = book_loans[k]
      BY <3>1, <3>3 DEF CommitFrame, ClosesLoan, Stored
    <3>5. ASSUME NEW l \in Loans, Open(l)', book_loans'[l].user = u, book_loans'[l].book = b
          PROVE FALSE
      <4>1. ~AddsLoan(r, l)
        BY <3>1, <3>5 DEF AddsLoan, Locked
      <4>2. book_loans'[l] = book_loans[l]
        BY <3>5, <4>1 DEF CommitFrame, ClosesLoan, Open
      <4> QED BY <3>1, <3>5, <4>2 DEF OpenLoansFor, OpenLoansOf, OpenLoansOn, Open
    <3> QED BY <3>1, <3>4, <3>5 DEF OpenLoansFor, OpenLoansOf, OpenLoansOn, Open
  <2>6. pc[s] # "answered" => k = None
    BY <1>0 DEF SlotInv, IssueInv
  <2> QED BY <2>1, <2>2, <2>3, <2>4, <2>5, <2>6 DEF IssueInv, CommitFrame
<1>5. ReturnInv(s)'
  <2> SUFFICES ASSUME req[s].op = "return" PROVE ReturnInv(s)'
    BY DEF ReturnInv
  <2>1. ReturnInv(s) /\ k \in Loans
    BY <1>0 DEF SlotInv, ReturnInv
  <2>2. ASSUME book_loans[k].status # "none"
        PROVE  /\ book_loans'[k].user = book_loans[k].user /\ book_loans'[k].book = book_loans[k].book
               /\ book_loans'[k].status # "none"
    BY <2>1, <2>2 DEF CommitFrame, ClosesLoan, AddsLoan
  <2>3. Locked(s, k) /\ Open(k) => Locked(s, k)' /\ Open(k)'
    BY <1>3, <2>1 DEF Stored, Open
  <2> QED BY <1>1, <1>2, <2>1, <2>2, <2>3 DEF ReturnInv, Locked, Open
<1>6. DeleteInv(s)'
  <2>1. ASSUME req[s].op \in Deletes, pc[s] = "answered", NEW l \in Loans, l \in Cascaded(s)'
        PROVE  Locked(s, l)'
    <3>1. /\ DeleteInv(s)
          /\ \/ u \in Users /\ b = None /\ Locked(s, u)
             \/ b \in Books /\ u = None /\ Locked(s, b)
      BY <1>0, <2>1 DEF SlotInv, DeleteInv, Deletes
    <3>2. Stored(l)' /\ (book_loans'[l].user = u \/ book_loans'[l].book = b)
      BY <2>1 DEF Cascaded, Stored
    <3>3. ~AddsLoan(r, l)
      BY <3>1, <3>2, DistinctIdentities DEF AddsLoan, Locked, Rows
    <3>4. l \in Cascaded(s)
      BY <3>2, <3>3 DEF CommitFrame, ClosesLoan, Cascaded, Stored
    <3>5. Locked(s, l)
      BY <2>1, <3>1, <3>4 DEF DeleteInv, At, Deletes
    <3> QED BY <3>5 DEF Locked, Rows
  <2>2. Cascaded(s)' \subseteq Loans
    BY DEF Cascaded
  <2> QED BY <1>0, <1>1, <1>2, <2>1, <2>2 DEF SlotInv, DeleteInv, Locked, At, Deletes
<1>7. CopiesInv(s)'
  BY <1>0, <1>2 DEF SlotInv, CopiesInv, Locked, At
<1> QED BY <1>0, <1>4, <1>5, <1>6, <1>7 DEF SlotInv

\* A commit keeps IInv if it stays in its frame and keeps the relations
\* between the rows.
LEMMA CommitKeepsIInv ==
  ASSUME IInv, NEW r \in Requests, Finish(r), CommitFrame(r),
         users' \in [Users -> [live : BOOLEAN, books_on_hand : Nat]],
         books' \in [Books -> [live : BOOLEAN, available : Nat]],
         book_loans' \in [Loans -> LoanRow],
         LoanRowsInv', OneOpenLoanPerBook', CounterInv'
  PROVE  IInv'
<1>1. TypeOK'
  BY FinishSlot DEF IInv, TypeOK, CommitFrame
<1>2. RequestInv'
  <2>1. SlotInv(r)'
    BY FinishSlot DEF IInv
  <2>2. ASSUME NEW s \in Requests, s # r PROVE SlotInv(s)'
    BY <2>2, FinishSlot, OthersAcrossCommit DEF IInv
  <2> QED BY <2>1, <2>2 DEF RequestInv
<1>3. ReservedOnce'
  <2>1. req'[r].op # "issue"
    BY FinishSlot, DistinctIdentities DEF IInv, NoRequest, Request, EventKinds
  <2> QED BY <2>1, FinishSlot DEF IInv, ReservedOnce
<1> QED BY <1>1, <1>2, <1>3 DEF IInv

LEMMA Answered ==
  ASSUME IInv, NEW r \in Requests, pc[r] = "answered"
  PROVE  TypeOK /\ IssueInv(r) /\ ReturnInv(r) /\ DeleteInv(r) /\ CopiesInv(r)
BY DEF IInv, RequestInv, SlotInv

UserRow == [live : BOOLEAN, books_on_hand : Nat]
BookRow == [live : BOOLEAN, available : Nat]

LEMMA SetField ==
  /\ \A x \in UserRow, n \in Nat :
       LET y == [x EXCEPT !.books_on_hand = n] IN
       y \in UserRow /\ y.live = x.live /\ y.books_on_hand = n
  /\ \A x \in BookRow, n \in Nat :
       LET y == [x EXCEPT !.available = n] IN
       y \in BookRow /\ y.live = x.live /\ y.available = n
BY DEF UserRow, BookRow

\* What an issue changes, row by row.
LEMMA CommitIssueEffect ==
  ASSUME IInv, NEW r \in Requests, CommitIssue(r),
         NEW u, NEW b, NEW l, u = req[r].user, b = req[r].book, l = req[r].loan
  PROVE  /\ u \in Users /\ b \in Books /\ l \in Loans /\ book_loans[l].status = "none"
         /\ Locked(r, u) /\ CanIncrement(u) /\ Locked(r, b) /\ CanTake(b)
         /\ OpenLoansFor(u, b) = {}
         /\ users' \in [Users -> UserRow]
         /\ users'[u].live /\ users'[u].books_on_hand = users[u].books_on_hand + 1
         /\ \A v \in Users \ {u} : users'[v] = users[v]
         /\ books' \in [Books -> BookRow]
         /\ books'[b].live /\ books'[b].available = books[b].available - 1
         /\ \A v \in Books \ {b} : books'[v] = books[v]
         /\ book_loans'[l] = [status |-> "open", user |-> u, book |-> b,
                              due |-> req[r].as_of + LoanDays]
         /\ \A k \in Loans \ {l} : book_loans'[k] = book_loans[k]
         /\ book_loans' \in [Loans -> LoanRow]
         /\ OpenLoansOf(u)' = OpenLoansOf(u) \cup {l} /\ l \notin OpenLoansOf(u)
         /\ \A v \in Users \ {u} : OpenLoansOf(v)' = OpenLoansOf(v)
<1> DEFINE row == [status |-> "open", user |-> u, book |-> b, due |-> req[r].as_of + LoanDays]
<1>1. pc[r] = "answered" /\ req[r].op = "issue"
  BY DEF CommitIssue, Committing, At
<1>2. /\ u \in Users /\ b \in Books /\ l \in Loans /\ book_loans[l].status = "none"
      /\ Locked(r, u) /\ CanIncrement(u) /\ Locked(r, b) /\ CanTake(b)
      /\ OpenLoansFor(u, b) = {} /\ TypeOK
  BY <1>1, Answered DEF IssueInv
<1>3. /\ users \in [Users -> UserRow] /\ users[u] \in UserRow /\ users[u].live
      /\ books \in [Books -> BookRow] /\ books[b] \in BookRow /\ books[b].live
      /\ users[u].books_on_hand + 1 \in Nat /\ books[b].available - 1 \in Nat
  BY <1>2 DEF TypeOK, CanIncrement, CanTake, UserRow, BookRow
<1>4. /\ users' \in [Users -> UserRow]
      /\ users'[u].live /\ users'[u].books_on_hand = users[u].books_on_hand + 1
      /\ \A v \in Users \ {u} : users'[v] = users[v]
  <2> DEFINE new == [users[u] EXCEPT !.books_on_hand = users[u].books_on_hand + 1]
  <2>1. users' = [users EXCEPT ![u] = new]
    BY DEF CommitIssue
  <2>2. new \in UserRow /\ new.live = users[u].live /\ new.books_on_hand = users[u].books_on_hand + 1
    BY <1>3, SetField
  <2> HIDE DEF new
  <2> QED BY <1>2, <1>3, <2>1, <2>2
<1>5. /\ books' \in [Books -> BookRow]
      /\ books'[b].live /\ books'[b].available = books[b].available - 1
      /\ \A v \in Books \ {b} : books'[v] = books[v]
  <2> DEFINE new == [books[b] EXCEPT !.available = books[b].available - 1]
  <2>1. books' = [books EXCEPT ![b] = new]
    BY DEF CommitIssue
  <2>2. new \in BookRow /\ new.live = books[b].live /\ new.available = books[b].available - 1
    BY <1>3, SetField
  <2> HIDE DEF new
  <2> QED BY <1>2, <1>3, <2>1, <2>2
<1>6. /\ book_loans'[l] = row /\ book_loans' \in [Loans -> LoanRow]
      /\ \A k \in Loans \ {l} : book_loans'[k] = book_loans[k]
  <2>1. book_loans \in [Loans -> LoanRow] /\ book_loans' = [book_loans EXCEPT ![l] = row]
    BY <1>2 DEF CommitIssue, TypeOK
  <2>2. row \in LoanRow
    <3>1. req[r].as_of \in Nat
      BY <1>2 DEF TypeOK, RequestType
    <3> QED BY <1>2, <3>1, Limits DEF LoanRow
  <2> HIDE DEF row
  <2> QED BY <1>2, <2>1, <2>2
<1>7. /\ OpenLoansOf(u)' = OpenLoansOf(u) \cup {l} /\ l \notin OpenLoansOf(u)
      /\ \A v \in Users \ {u} : OpenLoansOf(v)' = OpenLoansOf(v)
  <2>1. ~Open(l) /\ Open(l)' /\ book_loans'[l].user = u
    BY <1>2, <1>6 DEF Open
  <2>2. \A k \in Loans \ {l} : Open(k)' = Open(k) /\ book_loans'[k].user = book_loans[k].user
    BY <1>6 DEF Open
  <2>3. \A v : OpenLoansOf(v)' = {k \in Loans : Open(k)' /\ book_loans'[k].user = v}
    BY DEF OpenLoansOf
  <2> QED BY <1>2, <2>1, <2>2, <2>3 DEF OpenLoansOf
<1> QED BY <1>2, <1>4, <1>5, <1>6, <1>7

LEMMA CommitIssueStep ==
  ASSUME IInv, NEW r \in Requests, CommitIssue(r)
  PROVE  IInv'
<1> PICK u, b, l : u = req[r].user /\ b = req[r].book /\ l = req[r].loan
  OBVIOUS
<1> DEFINE row == [status |-> "open", user |-> u, book |-> b, due |-> req[r].as_of + LoanDays]
<1>1. pc[r] = "answered" /\ req[r].op = "issue" /\ Finish(r) /\ today' = today /\ TypeOK
  BY DEF CommitIssue, Committing, At, Finish, IInv
<1>2. /\ u \in Users /\ b \in Books /\ l \in Loans /\ book_loans[l].status = "none"
      /\ Locked(r, u) /\ CanIncrement(u) /\ Locked(r, b) /\ CanTake(b)
      /\ OpenLoansFor(u, b) = {}
      /\ users'[u].live /\ users'[u].books_on_hand = users[u].books_on_hand + 1
      /\ \A v \in Users \ {u} : users'[v] = users[v]
      /\ books'[b].live /\ \A v \in Books \ {b} : books'[v] = books[v]
      /\ book_loans'[l] = row /\ \A k \in Loans \ {l} : book_loans'[k] = book_loans[k]
      /\ OpenLoansOf(u)' = OpenLoansOf(u) \cup {l} /\ l \notin OpenLoansOf(u)
      /\ \A v \in Users \ {u} : OpenLoansOf(v)' = OpenLoansOf(v)
  BY CommitIssueEffect
<1>3. users[u].books_on_hand \in Nat
  BY <1>1, <1>2 DEF TypeOK
<1>4. req[r].as_of + LoanDays \in Nat /\ req[r].as_of + LoanDays >= today
  <2>1. req[r].as_of \in Nat /\ today - 1 <= req[r].as_of /\ today \in Nat
    BY <1>1, Answered DEF IssueInv, TypeOK, RequestType
  <2> QED BY <2>1, Limits
<1>5. CommitFrame(r)
  <2>1. AddsLoan(r, l)
    BY <1>1, <1>2, <1>4 DEF AddsLoan
  <2> QED BY <1>1, <1>2, <2>1 DEF CommitFrame
<1>6. LoanRowsInv'
  BY <1>2 DEF IInv, LoanRowsInv, Stored
<1>7. OneOpenLoanPerBook'
  BY <1>2 DEF IInv, OneOpenLoanPerBook, Open, OpenLoansFor, OpenLoansOf, OpenLoansOn
<1>8. CounterInv'
  <2> SUFFICES ASSUME NEW v \in Users, users'[v].live
               PROVE  /\ Cardinality(OpenLoansOf(v)') <= users'[v].books_on_hand
                      /\ users'[v].books_on_hand <= MaxBooksOnHand
    BY DEF CounterInv
  <2>1. CASE v = u
    <3>1. Cardinality(OpenLoansOf(u) \cup {l}) = Cardinality(OpenLoansOf(u)) + 1
      BY <1>2, OpenLoansFinite, FS_AddElement
    <3>2. Cardinality(OpenLoansOf(u)) <= users[u].books_on_hand
      BY <1>2 DEF IInv, CounterInv, CanIncrement
    <3>3. users[u].books_on_hand + 1 <= MaxBooksOnHand
      BY <1>2, <1>3, Limits DEF CanIncrement
    <3>4. OpenLoansOf(v)' = OpenLoansOf(u) \cup {l}
      BY <1>2, <2>1 DEF OpenLoansOf
    <3>5. users'[v].books_on_hand = users[u].books_on_hand + 1
      BY <1>2, <2>1
    <3>6. Cardinality(OpenLoansOf(v)') <= users[u].books_on_hand + 1
      BY <1>3, <3>1, <3>2, <3>4, OpenLoansFinite
    <3> QED BY <3>3, <3>5, <3>6
  <2>2. CASE v # u
    BY <1>2, <2>2 DEF IInv, CounterInv
  <2> QED BY <2>1, <2>2
<1>9. /\ users' \in [Users -> UserRow] /\ books' \in [Books -> BookRow]
      /\ book_loans' \in [Loans -> LoanRow]
  BY CommitIssueEffect
<1> QED BY <1>1, <1>5, <1>6, <1>7, <1>8, <1>9, CommitKeepsIInv DEF UserRow, BookRow

\* What a return changes, row by row: its decrement has gone through.
LEMMA CommitReturnEffect ==
  ASSUME IInv, NEW r \in Requests, CommitReturn(r),
         NEW u, NEW b, NEW l, u = req[r].user, b = req[r].book, l = req[r].loan
  PROVE  /\ u \in Users /\ b \in Books /\ l \in Loans
         /\ Open(l) /\ book_loans[l].user = u /\ book_loans[l].book = b
         /\ Locked(r, u) /\ Locked(r, b) /\ Locked(r, l)
         /\ users' \in [Users -> UserRow]
         /\ users'[u].live /\ users'[u].books_on_hand = users[u].books_on_hand - 1
         /\ \A v \in Users \ {u} : users'[v] = users[v]
         /\ books' \in [Books -> BookRow]
         /\ books'[b].live /\ books'[b].available = books[b].available + 1
         /\ \A v \in Books \ {b} : books'[v] = books[v]
         /\ book_loans' \in [Loans -> LoanRow]
         /\ book_loans'[l].status = "returned"
         /\ book_loans'[l].user = u /\ book_loans'[l].book = b
         /\ \A k \in Loans \ {l} : book_loans'[k] = book_loans[k]
         /\ OpenLoansOf(u)' = OpenLoansOf(u) \ {l} /\ l \in OpenLoansOf(u)
         /\ \A v \in Users \ {u} : OpenLoansOf(v)' = OpenLoansOf(v)
<1>1. pc[r] = "answered" /\ req[r].op = "return"
  BY DEF CommitReturn, Committing, At
<1>2. /\ u \in Users /\ b \in Books /\ l \in Loans
      /\ Open(l) /\ book_loans[l].user = u /\ book_loans[l].book = b
      /\ Locked(r, u) /\ Locked(r, b) /\ Locked(r, l) /\ TypeOK
  BY <1>1, Answered DEF ReturnInv
<1>3. users[u].live /\ books[b].live
  BY <1>2 DEF IInv, LoanRowsInv, Stored, Open
<1>4. l \in OpenLoansOf(u)
  BY <1>2 DEF OpenLoansOf
<1>5. /\ users \in [Users -> UserRow] /\ users[u] \in UserRow
      /\ books \in [Books -> BookRow] /\ books[b] \in BookRow
      /\ users[u].books_on_hand - 1 \in Nat /\ books[b].available + 1 \in Nat
  <2>1. users \in [Users -> UserRow] /\ books \in [Books -> BookRow]
    BY <1>2 DEF TypeOK, UserRow, BookRow
  <2>2. users[u].books_on_hand \in Nat /\ books[b].available \in Nat
    BY <1>2, <2>1 DEF UserRow, BookRow
  <2>3. Cardinality(OpenLoansOf(u)) # 0
    BY <1>4, OpenLoansFinite, FS_EmptySet
  <2>4. users[u].books_on_hand # 0
    BY <1>2, <1>3, <2>2, <2>3, OpenLoansFinite DEF IInv, CounterInv
  <2> QED BY <1>2, <2>1, <2>2, <2>4
<1>6. /\ users' \in [Users -> UserRow]
      /\ users'[u].live /\ users'[u].books_on_hand = users[u].books_on_hand - 1
      /\ \A v \in Users \ {u} : users'[v] = users[v]
  <2> DEFINE new == [users[u] EXCEPT !.books_on_hand = users[u].books_on_hand - 1]
  <2>1. users' = [users EXCEPT ![u] = new]
    BY <1>2 DEF CommitReturn
  <2>2. new \in UserRow /\ new.live = users[u].live /\ new.books_on_hand = users[u].books_on_hand - 1
    BY <1>5, SetField
  <2> HIDE DEF new
  <2> QED BY <1>2, <1>3, <1>5, <2>1, <2>2
<1>7. /\ books' \in [Books -> BookRow]
      /\ books'[b].live /\ books'[b].available = books[b].available + 1
      /\ \A v \in Books \ {b} : books'[v] = books[v]
  <2> DEFINE new == [books[b] EXCEPT !.available = books[b].available + 1]
  <2>1. books' = [books EXCEPT ![b] = new]
    BY DEF CommitReturn
  <2>2. new \in BookRow /\ new.live = books[b].live /\ new.available = books[b].available + 1
    BY <1>5, SetField
  <2> HIDE DEF new
  <2> QED BY <1>2, <1>3, <1>5, <2>1, <2>2
<1>8. /\ book_loans' \in [Loans -> LoanRow] /\ book_loans'[l].status = "returned"
      /\ book_loans'[l].user = u /\ book_loans'[l].book = b
      /\ \A k \in Loans \ {l} : book_loans'[k] = book_loans[k]
  <2> DEFINE new == [book_loans[l] EXCEPT !.status = "returned"]
  <2>1. book_loans' = [book_loans EXCEPT ![l] = new]
    BY DEF CommitReturn
  <2>2. book_loans \in [Loans -> LoanRow] /\ book_loans[l] \in LoanRow
    BY <1>2 DEF TypeOK
  <2>3. new \in LoanRow /\ new.status = "returned" /\ new.user = u /\ new.book = b
    BY <1>2, <2>2 DEF LoanRow
  <2> HIDE DEF new
  <2> QED BY <1>2, <2>1, <2>2, <2>3
<1>9. /\ OpenLoansOf(u)' = OpenLoansOf(u) \ {l}
      /\ \A v \in Users \ {u} : OpenLoansOf(v)' = OpenLoansOf(v)
  <2>1. Open(l) /\ ~Open(l)' /\ book_loans[l].user = u
    BY <1>2, <1>8 DEF Open
  <2>2. \A k \in Loans \ {l} : Open(k)' = Open(k) /\ book_loans'[k].user = book_loans[k].user
    BY <1>8 DEF Open
  <2>3. \A v : OpenLoansOf(v)' = {k \in Loans : Open(k)' /\ book_loans'[k].user = v}
    BY DEF OpenLoansOf
  <2> QED BY <1>2, <2>1, <2>2, <2>3 DEF OpenLoansOf
<1> QED BY <1>2, <1>4, <1>6, <1>7, <1>8, <1>9

LEMMA CommitReturnStep ==
  ASSUME IInv, NEW r \in Requests, CommitReturn(r)
  PROVE  IInv'
<1> PICK u, b, l : u = req[r].user /\ b = req[r].book /\ l = req[r].loan
  OBVIOUS
<1>1. Finish(r) /\ today' = today /\ TypeOK
  BY DEF CommitReturn, Finish, IInv
<1>2. /\ u \in Users /\ b \in Books /\ l \in Loans
      /\ Open(l) /\ book_loans[l].user = u /\ book_loans[l].book = b
      /\ Locked(r, u) /\ Locked(r, b) /\ Locked(r, l)
      /\ users'[u].live /\ users'[u].books_on_hand = users[u].books_on_hand - 1
      /\ \A v \in Users \ {u} : users'[v] = users[v]
      /\ books'[b].live /\ \A v \in Books \ {b} : books'[v] = books[v]
      /\ book_loans'[l].status = "returned"
      /\ book_loans'[l].user = u /\ book_loans'[l].book = b
      /\ \A k \in Loans \ {l} : book_loans'[k] = book_loans[k]
      /\ OpenLoansOf(u)' = OpenLoansOf(u) \ {l} /\ l \in OpenLoansOf(u)
      /\ \A v \in Users \ {u} : OpenLoansOf(v)' = OpenLoansOf(v)
  BY CommitReturnEffect
<1>3. users[u].books_on_hand \in Nat /\ users[u].live
  BY <1>1, <1>2 DEF TypeOK, IInv, LoanRowsInv, Stored, Open
<1>4. CommitFrame(r)
  <2>1. ClosesLoan(r, l)
    BY <1>1, <1>2 DEF ClosesLoan, Stored, Open
  <2> QED BY <1>1, <1>2, <2>1 DEF CommitFrame
<1>5. LoanRowsInv'
  BY <1>2 DEF IInv, LoanRowsInv, Stored
<1>6. OneOpenLoanPerBook'
  BY <1>2 DEF IInv, OneOpenLoanPerBook, Open
<1>7. CounterInv'
  <2> SUFFICES ASSUME NEW v \in Users, users'[v].live
               PROVE  /\ Cardinality(OpenLoansOf(v)') <= users'[v].books_on_hand
                      /\ users'[v].books_on_hand <= MaxBooksOnHand
    BY DEF CounterInv
  <2>1. CASE v = u
    <3>1. Cardinality(OpenLoansOf(u) \ {l}) = Cardinality(OpenLoansOf(u)) - 1
      <4>1. IsFiniteSet(OpenLoansOf(u)) /\ l \in OpenLoansOf(u)
        BY <1>2, OpenLoansFinite
      <4> QED BY <4>1, FS_RemoveElement, Zenon
    <3>2. /\ Cardinality(OpenLoansOf(u)) <= users[u].books_on_hand
          /\ users[u].books_on_hand <= MaxBooksOnHand
      BY <1>2, <1>3 DEF IInv, CounterInv
    <3>3. OpenLoansOf(v)' = OpenLoansOf(u) \ {l}
      BY <1>2, <2>1 DEF OpenLoansOf
    <3>4. users'[v].books_on_hand = users[u].books_on_hand - 1
      BY <1>2, <2>1
    <3>5. Cardinality(OpenLoansOf(v)') <= users[u].books_on_hand - 1
      BY <1>3, <3>1, <3>2, <3>3, OpenLoansFinite
    <3> QED BY <1>3, <3>2, <3>4, <3>5, Limits
  <2>2. CASE v # u
    BY <1>2, <2>2 DEF IInv, CounterInv
  <2> QED BY <2>1, <2>2
<1>8. /\ users' \in [Users -> UserRow] /\ books' \in [Books -> BookRow]
      /\ book_loans' \in [Loans -> LoanRow]
  BY CommitReturnEffect
<1> QED BY <1>1, <1>4, <1>5, <1>6, <1>7, <1>8, CommitKeepsIInv DEF UserRow, BookRow

\* What a deletion changes, row by row: the row it has locked, and the loans
\* its cascade has locked.
LEMMA CommitDeleteEffect ==
  ASSUME IInv, NEW r \in Requests, CommitDelete(r),
         NEW u, NEW b, u = req[r].user, b = req[r].book
  PROVE  /\ Finish(r) /\ today' = today
         /\ \/ /\ u \in Users /\ b = None /\ Locked(r, u) /\ ~users'[u].live
               /\ books' = books /\ \A v \in Users \ {u} : users'[v] = users[v]
            \/ /\ b \in Books /\ u = None /\ Locked(r, b) /\ ~books'[b].live
               /\ users' = users /\ \A v \in Books \ {b} : books'[v] = books[v]
         /\ users' \in [Users -> UserRow] /\ books' \in [Books -> BookRow]
         /\ book_loans' \in [Loans -> LoanRow]
         /\ \A l \in Loans :
              \/ book_loans'[l] = book_loans[l] /\ l \notin Cascaded(r)
              \/ /\ Stored(l) /\ Locked(r, l) /\ book_loans'[l].status = "gone"
                 /\ book_loans'[l].user = book_loans[l].user
                 /\ book_loans'[l].book = book_loans[l].book
<1>1. pc[r] = "answered" /\ req[r].op \in Deletes /\ Finish(r) /\ today' = today
  BY DEF CommitDelete, Committing, At, Deletes, Finish
<1>2. TypeOK /\ DeleteInv(r)
  BY <1>1, Answered
<1>3. users \in [Users -> UserRow] /\ books \in [Books -> BookRow]
  BY <1>2 DEF TypeOK, UserRow, BookRow
<1>4. \/ req[r].op = "delete_user" /\ u \in Users /\ b = None /\ Locked(r, u)
      \/ req[r].op = "delete_book" /\ b \in Books /\ u = None /\ Locked(r, b)
  BY <1>1, <1>2 DEF DeleteInv, Deletes
<1>5. ASSUME req[r].op = "delete_user"
        PROVE  /\ b = None /\ u \in Users /\ Locked(r, u) /\ ~users'[u].live
               /\ books' = books /\ \A v \in Users \ {u} : users'[v] = users[v]
               /\ users' \in [Users -> UserRow] /\ books' \in [Books -> BookRow]
  <2> DEFINE row == [live |-> FALSE, books_on_hand |-> 0]
  <2>1. users' = [users EXCEPT ![u] = row] /\ books' = books
    BY <1>5 DEF CommitDelete
  <2>2. row \in UserRow /\ ~row.live
    BY DEF UserRow
  <2> HIDE DEF row
  <2>3. users' \in [Users -> UserRow] /\ ~users'[u].live /\ \A v \in Users \ {u} : users'[v] = users[v]
    BY <1>3, <1>4, <1>5, <2>1, <2>2
  <2> QED BY <1>3, <1>4, <1>5, <2>1, <2>3
<1>6. ASSUME req[r].op = "delete_book"
        PROVE  /\ u = None /\ b \in Books /\ Locked(r, b) /\ ~books'[b].live
               /\ users' = users /\ \A v \in Books \ {b} : books'[v] = books[v]
               /\ users' \in [Users -> UserRow] /\ books' \in [Books -> BookRow]
  <2> DEFINE row == [live |-> FALSE, available |-> 0]
  <2>1. books' = [books EXCEPT ![b] = row] /\ users' = users
    BY <1>6 DEF CommitDelete
  <2>2. row \in BookRow /\ ~row.live
    BY DEF BookRow
  <2> HIDE DEF row
  <2>3. books' \in [Books -> BookRow] /\ ~books'[b].live /\ \A v \in Books \ {b} : books'[v] = books[v]
    BY <1>3, <1>4, <1>6, <2>1, <2>2
  <2> QED BY <1>3, <1>4, <1>6, <2>1, <2>3
<1>7. ASSUME NEW l \in Loans
      PROVE  /\ book_loans'[l] \in LoanRow
             /\ \/ book_loans'[l] = book_loans[l] /\ l \notin Cascaded(r)
                \/ /\ Stored(l) /\ Locked(r, l) /\ book_loans'[l].status = "gone"
                   /\ book_loans'[l].user = book_loans[l].user
                   /\ book_loans'[l].book = book_loans[l].book
  <2>1. book_loans[l] \in LoanRow
    BY <1>2 DEF TypeOK
  <2>2. l \in Cascaded(r) => Stored(l) /\ Locked(r, l)
    BY <1>1, <1>2 DEF DeleteInv, Cascaded, At, Deletes
  <2>3. book_loans'[l] = IF l \in Cascaded(r) /\ Locked(r, l)
                           THEN [book_loans[l] EXCEPT !.status = "gone"] ELSE book_loans[l]
    BY DEF CommitDelete
  <2>4. /\ [book_loans[l] EXCEPT !.status = "gone"] \in LoanRow
        /\ [book_loans[l] EXCEPT !.status = "gone"].status = "gone"
        /\ [book_loans[l] EXCEPT !.status = "gone"].user = book_loans[l].user
        /\ [book_loans[l] EXCEPT !.status = "gone"].book = book_loans[l].book
    BY <2>1 DEF LoanRow
  <2>5. CASE l \in Cascaded(r)
    <3>1. book_loans'[l] = [book_loans[l] EXCEPT !.status = "gone"]
      BY <2>2, <2>3, <2>5
    <3> QED BY <2>2, <2>4, <2>5, <3>1
  <2>6. CASE l \notin Cascaded(r)
    BY <2>1, <2>3, <2>6
  <2> QED BY <2>5, <2>6
<1>8. book_loans' \in [Loans -> LoanRow]
  <2>1. book_loans' = [l \in Loans |-> book_loans'[l]]
    BY DEF CommitDelete
  <2> QED BY <1>7, <2>1
<1> QED BY <1>1, <1>4, <1>5, <1>6, <1>7, <1>8

LEMMA CommitDeleteStep ==
  ASSUME IInv, NEW r \in Requests, CommitDelete(r)
  PROVE  IInv'
<1> PICK u, b : u = req[r].user /\ b = req[r].book
  OBVIOUS
<1> DEFINE Kept(l) == book_loans'[l] = book_loans[l] /\ l \notin Cascaded(r)
           Deleted(l) == /\ Stored(l) /\ Locked(r, l) /\ book_loans'[l].status = "gone"
                         /\ book_loans'[l].user = book_loans[l].user
                         /\ book_loans'[l].book = book_loans[l].book
<1>1. /\ Finish(r) /\ today' = today
      /\ \/ /\ u \in Users /\ b = None /\ Locked(r, u) /\ ~users'[u].live
            /\ books' = books /\ \A v \in Users \ {u} : users'[v] = users[v]
         \/ /\ b \in Books /\ u = None /\ Locked(r, b) /\ ~books'[b].live
            /\ users' = users /\ \A v \in Books \ {b} : books'[v] = books[v]
      /\ users' \in [Users -> UserRow] /\ books' \in [Books -> BookRow]
      /\ book_loans' \in [Loans -> LoanRow]
      /\ \A l \in Loans : Kept(l) \/ Deleted(l)
  BY CommitDeleteEffect
<1>2. CommitFrame(r)
  BY <1>1 DEF CommitFrame, ClosesLoan
<1>3. LoanRowsInv'
  <2> SUFFICES ASSUME NEW l \in Loans, Stored(l)'
               PROVE  /\ book_loans'[l].user \in Users /\ users'[book_loans'[l].user].live
                      /\ book_loans'[l].book \in Books /\ books'[book_loans'[l].book].live
    BY DEF LoanRowsInv, Stored
  <2>1. Kept(l)
    BY <1>1 DEF Stored
  <2>2. /\ Stored(l) /\ book_loans[l].user # u /\ book_loans[l].book # b
    BY <2>1 DEF Stored, Cascaded
  <2>3. /\ book_loans[l].user \in Users /\ users[book_loans[l].user].live
        /\ book_loans[l].book \in Books /\ books[book_loans[l].book].live
    BY <2>2 DEF IInv, LoanRowsInv
  <2> QED BY <1>1, <2>1, <2>2, <2>3
<1>4. \A k \in Loans : Open(k)' => Open(k) /\ book_loans'[k] = book_loans[k]
  BY <1>1 DEF Open
<1>5. OneOpenLoanPerBook'
  BY <1>4 DEF IInv, OneOpenLoanPerBook, Open
<1>6. CounterInv'
  <2> SUFFICES ASSUME NEW v \in Users, users'[v].live
               PROVE  /\ Cardinality(OpenLoansOf(v)') <= users'[v].books_on_hand
                      /\ users'[v].books_on_hand <= MaxBooksOnHand
    BY DEF CounterInv
  <2>1. users'[v] = users[v]
    BY <1>1
  <2>2. OpenLoansOf(v)' \subseteq OpenLoansOf(v)
    BY <1>4 DEF OpenLoansOf, Open
  <2> DEFINE before == OpenLoansOf(v) after == OpenLoansOf(v)'
  <2>3. /\ Cardinality(before) <= users[v].books_on_hand
        /\ users[v].books_on_hand <= MaxBooksOnHand /\ users[v].books_on_hand \in Nat
    BY <2>1 DEF IInv, CounterInv, TypeOK
  <2>4. IsFiniteSet(before) /\ Cardinality(before) \in Nat
    BY OpenLoansFinite
  <2>5. after \in SUBSET before
    BY <2>2
  <2> HIDE DEF before, after
  <2>6. Cardinality(after) <= Cardinality(before) /\ Cardinality(after) \in Nat
    BY <2>4, <2>5, FS_Subset, FS_CardinalityType
  <2>7. Cardinality(after) <= users[v].books_on_hand
    BY <2>3, <2>4, <2>6
  <2> QED BY <2>1, <2>3, <2>7 DEF after
<1> QED BY <1>1, <1>2, <1>3, <1>5, <1>6, CommitKeepsIInv DEF UserRow, BookRow

LEMMA CommitSetCopiesStep ==
  ASSUME IInv, NEW r \in Requests, CommitSetCopies(r)
  PROVE  IInv'
<1> PICK b, n : b = req[r].book /\ n = req[r].copies
  OBVIOUS
<1> DEFINE new == [books[b] EXCEPT !.available = n]
<1>1. /\ pc[r] = "answered" /\ req[r].op = "set_copies" /\ Finish(r) /\ today' = today
      /\ UNCHANGED <<users, book_loans>> /\ books' = [books EXCEPT ![b] = new]
  BY DEF CommitSetCopies, Committing, At, Finish
<1>2. TypeOK /\ b \in Books /\ Locked(r, b) /\ books[b].live /\ n \in Nat
  BY <1>1, Answered, Limits DEF CopiesInv, At, TypeOK, RequestType
<1>3. books \in [Books -> BookRow] /\ users \in [Users -> UserRow] /\ book_loans \in [Loans -> LoanRow]
  BY <1>2 DEF TypeOK, UserRow, BookRow
<1>4. new \in BookRow /\ new.live
  BY <1>2, <1>3, SetField
<1> HIDE DEF new
<1>5. books' \in [Books -> BookRow] /\ books'[b].live /\ \A v \in Books \ {b} : books'[v] = books[v]
  BY <1>1, <1>2, <1>3, <1>4
<1>6. CommitFrame(r)
  BY <1>1, <1>2, <1>5 DEF CommitFrame
<1>7. LoanRowsInv'
  BY <1>1, <1>5 DEF IInv, LoanRowsInv, Stored
<1>8. OneOpenLoanPerBook' /\ CounterInv'
  BY <1>1 DEF IInv, OneOpenLoanPerBook, CounterInv, Open, OpenLoansOf
<1> QED BY <1>1, <1>3, <1>5, <1>6, <1>7, <1>8, CommitKeepsIInv DEF UserRow, BookRow

-----------------------------------------------------------------------------
(* Midnight, the initial state, and every step *)

LEMMA MidnightStep ==
  ASSUME IInv, Midnight
  PROVE  IInv'
<1>1. /\ today' = today + 1 /\ today < LastDay /\ UNCHANGED <<tables, pc, req, reply, lock>>
      /\ \A r \in Requests : req[r].op = "issue" => req[r].as_of = today
      /\ TypeOK /\ today \in Nat /\ today' \in 0 .. LastDay
  BY Limits DEF Midnight, IInv, TypeOK
<1>2. TypeOK'
  BY <1>1 DEF TypeOK, tables
<1>3. ASSUME NEW r \in Requests PROVE SlotInv(r)'
  <2>1. SlotInv(r)
    BY DEF IInv, RequestInv
  <2>2. IssueInv(r)'
    <3> SUFFICES ASSUME req[r].op = "issue" PROVE IssueInv(r)'
      BY <1>1 DEF IssueInv
    <3>1. req[r].as_of = today /\ today' - 1 <= req[r].as_of /\ req[r].as_of <= today'
      BY <1>1
    <3> QED
      BY <1>1, <2>1, <3>1 DEF SlotInv, IssueInv, tables, Locked, CanIncrement, CanTake,
        OverdueLoans, OpenLoansOf, OpenLoansFor, OpenLoansOn, Open
  <2>3. ReturnInv(r)' /\ DeleteInv(r)' /\ CopiesInv(r)'
    BY <1>1, <2>1 DEF SlotInv, ReturnInv, DeleteInv, CopiesInv, tables, Locked, Open, At, Cascaded, Stored
  <2> QED BY <1>1, <2>1, <2>2, <2>3 DEF SlotInv
<1>4. ReservedOnce' /\ LoanRowsInv' /\ OneOpenLoanPerBook' /\ CounterInv'
  BY <1>1 DEF IInv, ReservedOnce, LoanRowsInv, OneOpenLoanPerBook, CounterInv, tables,
              Stored, Open, OpenLoansOf
<1> QED BY <1>2, <1>3, <1>4 DEF IInv, RequestInv

LEMMA InitIInv == Init => IInv
<1> SUFFICES ASSUME Init PROVE IInv
  OBVIOUS
<1>1. TypeOK
  BY Limits DEF Init, TypeOK, LoanRow, NoLoan, RequestType, NoRequest, Request
<1>2. RequestInv
  BY DistinctIdentities DEF Init, RequestInv, SlotInv, IssueInv, ReturnInv, DeleteInv, CopiesInv,
                            NoRequest, Request, EventKinds
<1>3. ReservedOnce
  BY DistinctIdentities DEF Init, ReservedOnce, NoRequest, Request, EventKinds
<1>4. \A l \in Loans : ~Stored(l) /\ ~Open(l)
  BY DEF Init, NoLoan, Stored, Open
<1>5. \A u : OpenLoansOf(u) = {}
  BY <1>4 DEF OpenLoansOf
<1>6. CounterInv
  <2> SUFFICES ASSUME NEW u \in Users
               PROVE  /\ Cardinality(OpenLoansOf(u)) <= users[u].books_on_hand
                      /\ users[u].books_on_hand <= MaxBooksOnHand
    BY DEF CounterInv
  <2>1. Cardinality(OpenLoansOf(u)) = 0
    BY <1>5, FS_EmptySet
  <2>2. users[u].books_on_hand = 0
    BY DEF Init
  <2> QED BY <2>1, <2>2, Limits
<1> QED BY <1>1, <1>2, <1>3, <1>4, <1>6 DEF IInv, LoanRowsInv, OneOpenLoanPerBook

LEMMA ServeStep ==
  ASSUME IInv, NEW r \in Requests, Serve(r)
  PROVE  IInv'
<1>1. CASE HasOverdueLoans(r) \/ HasOpenLoanForBook(r) \/ IncrementBooksOnHand(r) \/ GetUser(r)
  BY <1>1, HasOverdueLoansStep, HasOpenLoanStep, IncrementStep, GetUserStep, QuietStepKeepsIInv
<1>2. CASE TakeAvailableInstance(r) \/ GetBook(r) \/ CreateLoan(r)
  BY <1>2, TakeStep, GetUserStep, CreateLoanStep, QuietStepKeepsIInv
<1>3. CASE GetLoanById(r) \/ MarkLoanReturned(r) \/ ReturnInstance(r) \/ DecrementBooksOnHand(r)
  BY <1>3, GetLoanStep, MarkStep, ReturnInstanceStep, DecrementStep, QuietStepKeepsIInv
<1>4. CASE DeleteUser(r) \/ DeleteBook(r) \/ (\E l \in Loans : CascadeToLoan(r, l)) \/ CascadeDone(r)
  BY <1>4, DeleteRowStep, CascadeToLoanStep, CascadeDoneStep, QuietStepKeepsIInv
<1>5. CASE UpdateBook(r) \/ Close(r)
  BY <1>5, UpdateBookStep, CloseStep, QuietStepKeepsIInv
<1>6. CASE CommitIssue(r) \/ CommitReturn(r) \/ CommitDelete(r) \/ CommitSetCopies(r)
  BY <1>6, CommitIssueStep, CommitReturnStep, CommitDeleteStep, CommitSetCopiesStep
<1> QED BY <1>1, <1>2, <1>3, <1>4, <1>5, <1>6 DEF Serve

LEMMA NextKeepsIInv == IInv /\ [Next]_vars => IInv'
<1> SUFFICES ASSUME IInv, [Next]_vars PROVE IInv'
  OBVIOUS
<1>1. ASSUME NEW r \in Requests, Arrive(r) PROVE IInv'
  BY <1>1, ArriveStep, QuietStepKeepsIInv
<1>2. ASSUME NEW r \in Requests, Serve(r) PROVE IInv'
  BY <1>2, ServeStep
<1>3. ASSUME NEW r \in Requests, Fault(r) \/ DeadlockVictim(r) PROVE IInv'
  BY <1>3, FaultStep, DeadlockVictimStep, QuietStepKeepsIInv
<1>4. CASE Midnight
  BY <1>4, MidnightStep
<1>5. CASE UNCHANGED vars
  <2>1. UNCHANGED <<today, tables, pc, req, reply, lock>>
    BY <1>5 DEF vars, tables
  <2>2. RequestInv'
    BY <2>1, OthersKeepInv DEF IInv, RequestInv
  <2>3. TypeOK'
    BY <2>1 DEF IInv, TypeOK, tables
  <2>4. ReservedOnce' /\ LoanRowsInv' /\ OneOpenLoanPerBook' /\ CounterInv'
    BY <2>1 DEF IInv, ReservedOnce, LoanRowsInv, OneOpenLoanPerBook, CounterInv, tables,
                Stored, Open, OpenLoansOf
  <2> QED BY <2>2, <2>3, <2>4 DEF IInv
<1> QED BY <1>1, <1>2, <1>3, <1>4, <1>5 DEF Next

-----------------------------------------------------------------------------
(* The theorems *)

\* The inductive invariant holds of every behaviour: at each statement the
\* request holds the locks, and has seen the rows, that the later ones rely on.
THEOREM InductiveInvariant == Spec => []IInv
BY InitIInv, NextKeepsIInv, PTL DEF Spec

\* Every value stays in its type: no counter and no number of copies ever
\* falls below zero, although handlers only add and subtract one.
THEOREM TypeCorrect == Spec => []TypeOK
<1>1. IInv => TypeOK
  BY DEF IInv
<1> QED BY <1>1, InductiveInvariant, PTL

\* No interleaving of requests takes a user past MAX_BOOKS_ON_HAND open loans
\* (issue_book, book_use_cases.py:107-115).
THEOREM LoanLimitHolds == Spec => []LoanLimit
<1>1. ASSUME IInv, NEW u \in Users PROVE Cardinality(OpenLoansOf(u)) <= MaxBooksOnHand
  <2>1. CASE users[u].live
    <3>1. /\ Cardinality(OpenLoansOf(u)) <= users[u].books_on_hand
          /\ users[u].books_on_hand <= MaxBooksOnHand /\ users[u].books_on_hand \in Nat
      BY <1>1, <2>1 DEF IInv, CounterInv, TypeOK
    <3> QED BY <3>1, OpenLoansFinite, Limits
  <2>2. CASE ~users[u].live
    <3>1. OpenLoansOf(u) = {}
      BY <1>1, <2>2 DEF IInv, LoanRowsInv, OpenLoansOf, Open, Stored
    <3> QED BY <3>1, FS_EmptySet, Limits
  <2> QED BY <2>1, <2>2
<1>2. IInv => LoanLimit
  BY <1>1 DEF LoanLimit
<1> QED BY <1>2, InductiveInvariant, PTL

\* A user never has two open loans of one book, however many requests to issue
\* it run side by side (book_use_cases.py:104, models.py:228-234).
THEOREM OneOpenLoanPerBookHolds == Spec => []OneOpenLoanPerBook
<1>1. IInv => OneOpenLoanPerBook
  BY DEF IInv
<1> QED BY <1>1, InductiveInvariant, PTL

\* No loan is left behind by the deletion of its user or its book.
THEOREM NoOrphanLoanHolds == Spec => []NoOrphanLoan
<1>1. IInv => NoOrphanLoan
  BY DEF IInv, NoOrphanLoan, LoanRowsInv
<1> QED BY <1>1, InductiveInvariant, PTL

\* A return that closes its loan has the user's and the book's row too, so
\* closing it, putting the copy back and lowering the counter are one change.
THEOREM ReturnAllOrNothingHolds == Spec => []ReturnAllOrNothing
<1>1. IInv => ReturnAllOrNothing
  BY DEF IInv, RequestInv, SlotInv, ReturnInv, ReturnAllOrNothing, At
<1> QED BY <1>1, InductiveInvariant, PTL

-----------------------------------------------------------------------------
(* What a step may do to the loans *)

\* Only three kinds of step write book_loans.
LEMMA LoansChangeByCommit ==
  ASSUME IInv, [Next]_vars
  PROVE  \/ UNCHANGED book_loans
         \/ \E r \in Requests : CommitIssue(r) \/ CommitReturn(r) \/ CommitDelete(r)
<1>1. ASSUME NEW r \in Requests, QuietStep(r) PROVE UNCHANGED book_loans
  BY <1>1 DEF QuietStep, Quiet, tables
<1>2. ASSUME NEW r \in Requests, Serve(r)
      PROVE  QuietStep(r) \/ CommitIssue(r) \/ CommitReturn(r) \/ CommitDelete(r) \/ CommitSetCopies(r)
  BY <1>2, HasOverdueLoansStep, HasOpenLoanStep, IncrementStep, GetUserStep, TakeStep, CreateLoanStep,
     GetLoanStep, MarkStep, ReturnInstanceStep, DecrementStep, DeleteRowStep, CascadeToLoanStep,
     CascadeDoneStep, UpdateBookStep, CloseStep DEF Serve
<1>3. ASSUME NEW r \in Requests, Arrive(r) \/ Fault(r) \/ DeadlockVictim(r) PROVE QuietStep(r)
  BY <1>3, ArriveStep, FaultStep, DeadlockVictimStep
<1>4. ASSUME NEW r \in Requests, CommitSetCopies(r) PROVE UNCHANGED book_loans
  BY <1>4 DEF CommitSetCopies
<1>5. CASE Midnight \/ UNCHANGED vars
  BY <1>5 DEF Midnight, vars, tables
<1> QED BY <1>1, <1>2, <1>3, <1>4, <1>5 DEF Next

\* No loan is made for a user who had an overdue one on the day of the request
\* (issue_book, book_use_cases.py:101).
THEOREM NoLoanWhileOverdueHolds == Spec => NoLoanWhileOverdue
<1>1. ASSUME IInv, [Next]_vars, NEW j \in Loans, NEW l \in Loans,
             Open(j), ~Open(l), Open(l)', book_loans'[l].user = book_loans[j].user
      PROVE  book_loans[j].due >= book_loans'[l].due - LoanDays
  <2>1. PICK r \in Requests : CommitIssue(r)
    <3>1. ASSUME NEW r \in Requests, CommitReturn(r) PROVE ~Open(l)'
      <4>1. PICK u, b, k : u = req[r].user /\ b = req[r].book /\ k = req[r].loan
        OBVIOUS
      <4>2. book_loans'[k].status = "returned" /\ \A i \in Loans \ {k} : book_loans'[i] = book_loans[i]
        BY <1>1, <3>1, <4>1, CommitReturnEffect
      <4> QED BY <1>1, <4>2 DEF Open
    <3>2. ASSUME NEW r \in Requests, CommitDelete(r) PROVE ~Open(l)'
      <4>1. PICK u, b : u = req[r].user /\ b = req[r].book
        OBVIOUS
      <4>2. book_loans'[l] = book_loans[l] \/ book_loans'[l].status = "gone"
        BY <1>1, <3>2, <4>1, CommitDeleteEffect
      <4> QED BY <1>1, <4>2 DEF Open
    <3> QED BY <1>1, <3>1, <3>2, LoansChangeByCommit DEF Open
  <2>2. PICK u, b, k : u = req[r].user /\ b = req[r].book /\ k = req[r].loan
    OBVIOUS
  <2>3. /\ book_loans'[k] = [status |-> "open", user |-> u, book |-> b, due |-> req[r].as_of + LoanDays]
        /\ \A i \in Loans \ {k} : book_loans'[i] = book_loans[i]
    BY <1>1, <2>1, <2>2, CommitIssueEffect
  <2>4. l = k
    BY <1>1, <2>3 DEF Open
  <2>5. pc[r] = "answered" /\ req[r].op = "issue"
    BY <2>1 DEF CommitIssue, Committing, At
  <2>6. OverdueLoans(u, req[r].as_of) = {} /\ req[r].as_of \in Int
    <3>1. IssueInv(r) /\ TypeOK
      BY <1>1, <2>5, Answered
    <3>2. OverdueLoans(req[r].user, req[r].as_of) = {}
      BY <2>5, <3>1 DEF IssueInv
    <3>3. req[r].as_of \in Int
      BY <3>1, Limits DEF TypeOK, RequestType
    <3> QED BY <2>2, <3>2, <3>3
  <2>7. book_loans'[l].user = u /\ book_loans'[l].due - LoanDays = req[r].as_of
    BY <2>3, <2>4, <2>6, Limits
  <2>8. book_loans[j].due \in Nat
    BY <1>1 DEF IInv, TypeOK, LoanRow
  <2>9. ~(book_loans[j].due < req[r].as_of)
    BY <1>1, <2>6, <2>7 DEF OverdueLoans, OpenLoansOf
  <2> QED BY <2>6, <2>7, <2>8, <2>9
<1>2. IInv /\ [Next]_vars =>
        [\A k, l \in Loans :
           Open(k) /\ ~Open(l) /\ Open(l)' /\ book_loans'[l].user = book_loans[k].user
             => book_loans[k].due >= book_loans'[l].due - LoanDays]_vars
  BY <1>1
<1> QED BY <1>2, InductiveInvariant, PTL DEF Spec, NoLoanWhileOverdue

\* A closed loan is never open again and a deleted one never comes back.
THEOREM LoanHistoryHolds == Spec => LoanHistory
<1> DEFINE Forward(l) ==
      <<book_loans[l].status, book_loans'[l].status>> \in
        {<<"none", "open">>, <<"open", "returned">>, <<"open", "gone">>, <<"returned", "gone">>}
<1>1. ASSUME IInv, [Next]_vars, NEW l \in Loans, book_loans'[l].status # book_loans[l].status
      PROVE  Forward(l)
  <2>1. ASSUME NEW r \in Requests, CommitIssue(r) PROVE Forward(l)
    <3>1. PICK u, b, k : u = req[r].user /\ b = req[r].book /\ k = req[r].loan
      OBVIOUS
    <3>2. /\ book_loans[k].status = "none"
          /\ book_loans'[k] = [status |-> "open", user |-> u, book |-> b, due |-> req[r].as_of + LoanDays]
          /\ \A j \in Loans \ {k} : book_loans'[j] = book_loans[j]
      BY <1>1, <2>1, <3>1, CommitIssueEffect
    <3> QED BY <1>1, <3>2
  <2>2. ASSUME NEW r \in Requests, CommitReturn(r) PROVE Forward(l)
    <3>1. PICK u, b, k : u = req[r].user /\ b = req[r].book /\ k = req[r].loan
      OBVIOUS
    <3>2. /\ Open(k) /\ book_loans'[k].status = "returned"
          /\ \A j \in Loans \ {k} : book_loans'[j] = book_loans[j]
      BY <1>1, <2>2, <3>1, CommitReturnEffect
    <3> QED BY <1>1, <3>2 DEF Open
  <2>3. ASSUME NEW r \in Requests, CommitDelete(r) PROVE Forward(l)
    <3>1. PICK u, b : u = req[r].user /\ b = req[r].book
      OBVIOUS
    <3>2. book_loans'[l] = book_loans[l] \/ (Stored(l) /\ book_loans'[l].status = "gone")
      BY <1>1, <2>3, <3>1, CommitDeleteEffect
    <3> QED BY <1>1, <3>2 DEF Stored
  <2> QED BY <1>1, <2>1, <2>2, <2>3, LoansChangeByCommit
<1>2. IInv /\ [Next]_vars =>
        [\A l \in Loans : book_loans'[l].status # book_loans[l].status => Forward(l)]_vars
  BY <1>1
<1> QED BY <1>2, InductiveInvariant, PTL DEF Spec, LoanHistory

-----------------------------------------------------------------------------
(* Deadlocks *)

\* Where a request is while it holds a user, a book or a loan.
Held(r) ==
  /\ \A u \in Users : lock[u] = r => pc[r] \in {"take", "get_book", "create_loan", "cascade", "answered"}
  /\ \A b \in Books : lock[b] = r => pc[r] \in {"create_loan", "decrement", "cascade", "answered"}
  /\ \A l \in Loans : lock[l] = r => pc[r] \in {"return_instance", "decrement", "cascade", "answered"}

HeldInv == \A r \in Requests : Held(r)

\* A step of r that leaves its locks alone, to a place where it may have them.
LEMMA MoveKeepsHeld ==
  ASSUME HeldInv, NEW r \in Requests, lock' = lock,
         \A s \in Requests \ {r} : pc'[s] = pc[s],
         \/ pc'[r] \in {pc[r], "answered"}
         \/ \A row \in Rows : lock[row] # r
         \/ pc[r] = "take" /\ pc'[r] = "get_book"
  PROVE  HeldInv'
<1>1. ASSUME NEW s \in Requests \ {r} PROVE Held(s)'
  BY DEF HeldInv, Held
<1>2. Held(r)'
  BY DEF HeldInv, Held, Rows
<1> QED BY <1>1, <1>2 DEF HeldInv

LEMMA ReleaseKeepsHeld ==
  ASSUME TypeOK, HeldInv, NEW r \in Requests, lock' = LocksWithout(r),
         \A s \in Requests \ {r} : pc'[s] = pc[s]
  PROVE  HeldInv'
<1>1. \A row \in Rows : lock'[row] # r /\ (lock'[row] = None \/ lock'[row] = lock[row])
  BY DistinctIdentities DEF LocksWithout, Locked
<1>2. ASSUME NEW s \in Requests PROVE Held(s)'
  BY <1>1, DistinctIdentities DEF HeldInv, Held, Rows
<1> QED BY <1>2 DEF HeldInv

LEMMA RefuseKeepsHeld ==
  ASSUME TypeOK, HeldInv, NEW r \in Requests, NEW error, Refuse(r, error)
  PROVE  HeldInv'
BY ReleaseKeepsHeld DEF Refuse, Goto, TypeOK

LEMMA FinishKeepsHeld ==
  ASSUME TypeOK, HeldInv, NEW r \in Requests, Finish(r)
  PROVE  HeldInv'
BY ReleaseKeepsHeld DEF Finish, Goto, TypeOK

\* A step of r that locks row, and goes to a place where it may have it.
LEMMA LockKeepsHeld ==
  ASSUME TypeOK, HeldInv, NEW r \in Requests, NEW row \in Rows,
         lock' = [lock EXCEPT ![row] = r],
         \A s \in Requests \ {r} : pc'[s] = pc[s],
         \/ pc'[r] = "answered"
         \/ pc[r] = "cascade" /\ pc'[r] = "cascade"
         \/ /\ \A x \in Rows : lock[x] # r
            /\ \/ pc'[r] = "cascade"
               \/ row \in Users /\ pc'[r] = "take"
               \/ row \in Loans /\ pc'[r] = "return_instance"
         \/ row \in Books /\ pc[r] = "take" /\ pc'[r] = "create_loan"
         \/ row \in Books /\ pc[r] = "return_instance" /\ pc'[r] = "decrement"
  PROVE  HeldInv'
<1>1. lock'[row] = r /\ \A x \in Rows \ {row} : lock'[x] = lock[x]
  BY DEF TypeOK
<1>2. ASSUME NEW s \in Requests \ {r} PROVE Held(s)'
  BY <1>1 DEF HeldInv, Held, Rows
<1>3. Held(r)'
  BY <1>1, DistinctIdentities DEF HeldInv, Held, Rows
<1> QED BY <1>2, <1>3 DEF HeldInv

LEMMA HoldsNothing ==
  ASSUME HeldInv, NEW r \in Requests,
         pc[r] \notin {"take", "get_book", "create_loan", "return_instance", "decrement", "cascade", "answered"}
  PROVE  \A row \in Rows : lock[row] # r
BY DEF HeldInv, Held, Rows

LEMMA ServeKeepsHeld ==
  ASSUME IInv, HeldInv, NEW r \in Requests, Serve(r)
  PROVE  HeldInv'
<1> TypeOK
  BY DEF IInv
<1>1. CASE HasOverdueLoans(r) \/ HasOpenLoanForBook(r)
  BY <1>1, RefuseKeepsHeld, MoveKeepsHeld, HoldsNothing
     DEF HasOverdueLoans, HasOpenLoanForBook, At, Continue, Goto, TypeOK
<1>2. CASE IncrementBooksOnHand(r)
  <2>1. pc[r] = "increment" /\ req[r].user \in Users /\ req[r].user \in Rows
    BY <1>2, IssuePending DEF IncrementBooksOnHand, At, IssueStatements, IssueInv, Rows
  <2>2. CASE Write(r, req[r].user, "take")
    BY <2>1, <2>2, LockKeepsHeld, HoldsNothing DEF Write, Lock, Goto, TypeOK
  <2>3. CASE Continue(r, "get_user")
    BY <2>1, <2>3, MoveKeepsHeld, HoldsNothing DEF Continue, Goto, TypeOK
  <2> QED BY <1>2, <2>2, <2>3 DEF IncrementBooksOnHand
<1>3. CASE TakeAvailableInstance(r)
  <2>1. pc[r] = "take" /\ req[r].book \in Books /\ req[r].book \in Rows
    BY <1>3, IssuePending DEF TakeAvailableInstance, At, IssueStatements, IssueInv, Rows
  <2>2. CASE Write(r, req[r].book, "create_loan")
    BY <2>1, <2>2, LockKeepsHeld DEF Write, Lock, Goto, TypeOK
  <2>3. CASE Continue(r, "get_book")
    BY <2>1, <2>3, MoveKeepsHeld DEF Continue, Goto, TypeOK
  <2> QED BY <1>3, <2>2, <2>3 DEF TakeAvailableInstance
<1>4. CASE GetUser(r) \/ GetBook(r)
  BY <1>4, RefuseKeepsHeld DEF GetUser, GetBook
<1>5. CASE CreateLoan(r) \/ CascadeDone(r)
  BY <1>5, RefuseKeepsHeld, MoveKeepsHeld DEF CreateLoan, CascadeDone, Answer, Goto, TypeOK
<1>6. CASE GetLoanById(r)
  BY <1>6, RefuseKeepsHeld, MoveKeepsHeld, HoldsNothing DEF GetLoanById, At, Goto, TypeOK
<1>7. CASE MarkLoanReturned(r)
  <2>1. pc[r] = "mark_returned" /\ req[r].loan \in Loans /\ req[r].loan \in Rows
    BY <1>7, ReturnPending DEF MarkLoanReturned, At, ReturnStatements, ReturnInv, Rows
  <2>2. CASE Write(r, req[r].loan, "return_instance")
    BY <2>1, <2>2, LockKeepsHeld, HoldsNothing DEF Write, Lock, Goto, TypeOK
  <2> QED BY <1>7, <2>2, RefuseKeepsHeld DEF MarkLoanReturned
<1>8. CASE ReturnInstance(r)
  <2>1. pc[r] = "return_instance" /\ req[r].book \in Books /\ req[r].book \in Rows
    BY <1>8, ReturnPending DEF ReturnInstance, At, ReturnStatements, ReturnInv, Rows
  <2>2. CASE Write(r, req[r].book, "decrement")
    BY <2>1, <2>2, LockKeepsHeld DEF Write, Lock, Goto, TypeOK
  <2> QED BY <1>8, <2>2, RefuseKeepsHeld DEF ReturnInstance
<1>9. CASE DecrementBooksOnHand(r)
  <2>1. req[r].user \in Rows
    BY <1>9, ReturnPending DEF DecrementBooksOnHand, At, ReturnStatements, ReturnInv, Rows
  <2>2. pc'[r] = "answered" /\ \A s \in Requests \ {r} : pc'[s] = pc[s]
    BY <1>9 DEF DecrementBooksOnHand, Answer, Goto, TypeOK
  <2> QED BY <1>9, <2>1, <2>2, LockKeepsHeld, MoveKeepsHeld DEF DecrementBooksOnHand, Lock
<1>10. CASE DeleteUser(r) \/ DeleteBook(r)
  <2>1. /\ pc[r] \in {"delete_user", "delete_book"}
        /\ pc[r] = "delete_user" => req[r].user \in Rows
        /\ pc[r] = "delete_book" => req[r].book \in Rows
    BY <1>10, DeletePending DEF DeleteUser, DeleteBook, At, DeleteInv, Rows
  <2>2. ASSUME NEW row \in Rows, Write(r, row, "cascade") PROVE HeldInv'
    BY <2>1, <2>2, LockKeepsHeld, HoldsNothing DEF Write, Lock, Goto, TypeOK
  <2> QED BY <1>10, <2>1, <2>2, RefuseKeepsHeld DEF DeleteUser, DeleteBook, At
<1>11. ASSUME NEW l \in Loans, CascadeToLoan(r, l) PROVE HeldInv'
  <2>1. l \in Rows /\ pc[r] = "cascade" /\ pc' = pc /\ lock' = [lock EXCEPT ![l] = r]
    BY <1>11 DEF CascadeToLoan, At, Lock, Rows
  <2> QED BY <2>1, LockKeepsHeld
<1>12. CASE UpdateBook(r)
  <2>1. req[r].book \in Rows
    BY <1>12, DeletePending DEF UpdateBook, At, CopiesInv, Rows
  <2>2. CASE Refuse(r, "BookNotFound")
    BY <2>2, RefuseKeepsHeld
  <2>3. CASE ~Refuse(r, "BookNotFound")
    <3>1. /\ lock' = [lock EXCEPT ![req[r].book] = r] /\ pc'[r] = "answered"
          /\ \A s \in Requests \ {r} : pc'[s] = pc[s]
      BY <1>12, <2>3 DEF UpdateBook, Lock, Answer, Goto, TypeOK
    <3> QED BY <2>1, <3>1, LockKeepsHeld
  <2> QED BY <2>2, <2>3
<1>13. CASE CommitIssue(r) \/ CommitReturn(r) \/ CommitDelete(r) \/ CommitSetCopies(r) \/ Close(r)
  BY <1>13, FinishKeepsHeld DEF CommitIssue, CommitReturn, CommitDelete, CommitSetCopies, Close
<1> QED BY <1>1, <1>2, <1>3, <1>4, <1>5, <1>6, <1>7, <1>8, <1>9, <1>10, <1>11, <1>12, <1>13 DEF Serve

LEMMA ArriveKeepsHeld ==
  ASSUME IInv, HeldInv, NEW r \in Requests, Arrive(r)
  PROVE  HeldInv'
<1>1. PICK statement, parameters : Begin(r, statement, parameters)
  BY DEF Arrive, BeginIssue, BeginReturn, BeginDeleteUser, BeginDeleteBook, BeginSetCopies
<1>2. pc[r] = "idle" /\ lock' = lock /\ \A s \in Requests \ {r} : pc'[s] = pc[s]
  BY <1>1 DEF Begin, At, Goto, IInv, TypeOK
<1> QED BY <1>2, MoveKeepsHeld, HoldsNothing

LEMMA NextKeepsHeld ==
  ASSUME IInv, HeldInv, [Next]_vars
  PROVE  HeldInv'
<1>1. CASE UNCHANGED vars \/ Midnight
  BY <1>1 DEF vars, Midnight, HeldInv, Held
<1>2. ASSUME NEW r \in Requests, Arrive(r) \/ Serve(r) \/ Fault(r) \/ DeadlockVictim(r)
      PROVE  HeldInv'
  BY <1>2, ArriveKeepsHeld, ServeKeepsHeld, RefuseKeepsHeld, FinishKeepsHeld
     DEF Fault, DeadlockVictim, IInv
<1> QED BY <1>1, <1>2 DEF Next

\* Those that a request of each place waits for, while no return holds its loan.
LEMMA WaitedFor ==
  ASSUME IInv, HeldInv, \A s \in Requests : pc[s] \notin {"return_instance", "decrement"},
         NEW r \in Requests, NEW w \in WaitsFor(r)
  PROVE  /\ w \in Requests /\ w # r
         /\ pc[w] \in {"take", "get_book", "create_loan", "cascade", "answered"}
         /\ pc[r] = "take" => pc[w] \in {"create_loan", "cascade", "answered"}
         /\ pc[r] \in {"create_loan", "cascade"} => pc[w] \in {"cascade", "answered"}
         /\ pc[r] \notin {"get_book", "answered"}
<1> TypeOK
  BY DEF IInv
<1>1. PICK row \in Wanted(r) : lock[row] = w
  BY DEF WaitsFor
<1>2. /\ row \in Rows
      /\ pc[r] = "take" => row \in Books
      /\ pc[r] \in {"create_loan", "cascade"} => row \in Loans
      /\ pc[r] \notin {"get_book", "answered"}
  <2>1. CASE pc[r] \in {"increment", "take", "create_loan"}
    BY <1>1, <2>1, IssuePending
       DEF Wanted, IssueStatements, IssueInv, OpenLoansFor, OpenLoansOf, OpenLoansOn, Rows
  <2>2. CASE pc[r] = "mark_returned"
    BY <1>1, <2>2, ReturnPending DEF Wanted, ReturnStatements, ReturnInv, Rows
  <2>3. CASE pc[r] \in {"delete_user", "delete_book", "update_book", "cascade"}
    BY <1>1, <2>3, DeletePending DEF Wanted, DeleteInv, CopiesInv, Cascaded, Rows
  <2> QED BY <1>1, <2>1, <2>2, <2>3 DEF Wanted
<1>3. w \in Requests /\ w # r
  BY <1>1, <1>2 DEF WaitsFor, TypeOK
<1> QED BY <1>1, <1>2, <1>3 DEF HeldInv, Held, Rows

LEMMA NoCircleOfIssues ==
  ASSUME IInv, HeldInv, NEW r \in Requests, Deadlocked(r),
         \A s \in Requests : pc[s] \notin {"return_instance", "decrement"},
         \A s, t \in Requests : pc[s] = "cascade" /\ pc[t] = "cascade" => s = t
  PROVE  FALSE
<1> DEFINE in(places) == {t \in Requests : pc[t] \in places}
<1>1. \A t \in Requests : pc[t] \in {"get_book", "answered"} => WaitsFor(t) = {}
  BY WaitedFor
<1>2. \A t \in in({"cascade"}) : WaitsFor(t) \subseteq in({"answered"})
  <2> SUFFICES ASSUME NEW t \in Requests, pc[t] = "cascade", NEW w \in WaitsFor(t)
               PROVE  w \in Requests /\ pc[w] = "answered"
    OBVIOUS
  <2> QED BY WaitedFor
<1>3. \A t \in in({"create_loan"}) : WaitsFor(t) \subseteq in({"cascade", "answered"})
  BY WaitedFor
<1>4. \A t \in in({"take"}) : WaitsFor(t) \subseteq in({"create_loan", "cascade", "answered"})
  BY WaitedFor
<1>5. WaitsFor(r) \subseteq in({"take", "get_book", "create_loan", "cascade", "answered"})
  BY WaitedFor
<1>6. WaitsFor(r) # {}
  BY DEF Deadlocked
<1>7. CASE pc[r] = "cascade"
  BY <1>1, <1>2, <1>7 DEF Deadlocked
<1>8. CASE pc[r] = "create_loan"
  <2> DEFINE S == in({"cascade", "answered"})
  <2>1. r \notin S /\ WaitsFor(r) \subseteq S /\ \A t \in S : WaitsFor(t) \subseteq S
    BY <1>1, <1>2, <1>3, <1>8
  <2>2. S \in SUBSET Requests
    OBVIOUS
  <2> HIDE DEF S
  <2> QED BY <2>1, <2>2 DEF Deadlocked
<1>9. CASE pc[r] = "take"
  <2> DEFINE S == in({"create_loan", "cascade", "answered"})
  <2>1. r \notin S /\ WaitsFor(r) \subseteq S /\ \A t \in S : WaitsFor(t) \subseteq S
    BY <1>1, <1>2, <1>3, <1>4, <1>9
  <2>2. S \in SUBSET Requests
    OBVIOUS
  <2> HIDE DEF S
  <2> QED BY <2>1, <2>2 DEF Deadlocked
<1>10. CASE pc[r] \notin {"cascade", "create_loan", "take"}
  <2> DEFINE S == in({"take", "get_book", "create_loan", "cascade", "answered"})
  <2>1. r \notin S
    BY <1>1, <1>6, <1>10
  <2>2. WaitsFor(r) \subseteq S /\ \A t \in S : WaitsFor(t) \subseteq S
    BY <1>1, <1>2, <1>3, <1>4, <1>5
  <2>3. S \in SUBSET Requests
    OBVIOUS
  <2> HIDE DEF S
  <2> QED BY <2>1, <2>2, <2>3 DEF Deadlocked
<1> QED BY <1>7, <1>8, <1>9, <1>10

\* Issues lock a user before a book (book_use_cases.py:107,117), so they alone
\* never wait for each other in a circle, and neither do they with one deletion.
THEOREM DeadlockNeedsReturnOrCascadesHolds == Spec => []DeadlockNeedsReturnOrCascades
<1>1. Init => HeldInv
  BY DistinctIdentities DEF Init, HeldInv, Held, Rows
<1>2. IInv /\ HeldInv => DeadlockNeedsReturnOrCascades
  BY NoCircleOfIssues DEF DeadlockNeedsReturnOrCascades, At
<1>3. IInv /\ HeldInv /\ [Next]_vars => HeldInv'
  BY NextKeepsHeld
<1> QED BY <1>1, <1>2, <1>3, InductiveInvariant, PTL DEF Spec

-----------------------------------------------------------------------------
(* Work goes on *)

\* Every issue that is yet to insert its loan will find an unused one: the bound
\* on the loans ever made never holds up a request that has begun.
Inserting == {s \in Requests : req[s].op = "issue" /\ req[s].loan = None}

EnoughLoans == Cardinality(UnusedLoans) >= Cardinality(Inserting)

LEMMA UnusedFinite ==
  /\ IsFiniteSet(UnusedLoans) /\ Cardinality(UnusedLoans) \in Nat
  /\ IsFiniteSet(Inserting) /\ Cardinality(Inserting) \in Nat
<1>1. UnusedLoans \subseteq Loans /\ Inserting \subseteq Requests
  BY DEF UnusedLoans, Inserting
<1> QED BY <1>1, FiniteRows, FiniteRequests, FS_Subset, FS_CardinalityType

\* A step of r that uses no unused loan and begins no issue.
LEMMA SpendsNoLoan ==
  ASSUME EnoughLoans, NEW r \in Requests,
         \A s \in Requests \ {r} : req'[s] = req[s],
         \A l \in UnusedLoans : book_loans'[l].status = "none" /\ req'[r].loan # l,
         r \in Inserting' => r \in Inserting
  PROVE  EnoughLoans'
<1>1. UnusedLoans \subseteq UnusedLoans'
  BY DEF UnusedLoans
<1>2. Inserting' \subseteq Inserting
  BY DEF Inserting
<1>3. IsFiniteSet(UnusedLoans') /\ Cardinality(UnusedLoans') \in Nat
  <2>1. UnusedLoans' \subseteq Loans
    BY DEF UnusedLoans
  <2> QED BY <2>1, FiniteRows, FS_Subset, FS_CardinalityType
<1>4. Cardinality(UnusedLoans) <= Cardinality(UnusedLoans')
  BY <1>1, <1>3, FS_Subset
<1>5. Cardinality(Inserting') <= Cardinality(Inserting) /\ Cardinality(Inserting') \in Nat
  BY <1>2, UnusedFinite, FS_Subset, FS_CardinalityType
<1> QED BY <1>3, <1>4, <1>5, UnusedFinite DEF EnoughLoans

\* A step of r after which its slot is free, or its parameters are what they were.
LEMMA KeepsEnough ==
  ASSUME TypeOK, EnoughLoans, NEW r \in Requests,
         \A l \in UnusedLoans : book_loans'[l].status = "none",
         req' = req \/ req' = [req EXCEPT ![r] = NoRequest]
  PROVE  EnoughLoans'
<1>1. \A s \in Requests \ {r} : req'[s] = req[s]
  BY DEF TypeOK
<1>2. req'[r] = req[r] \/ req'[r] = NoRequest
  BY DEF TypeOK
<1>3. NoRequest.loan = None /\ NoRequest.op = None
  BY DEF NoRequest, Request
<1>4. \A l \in UnusedLoans : req'[r].loan # l
  BY <1>2, <1>3, DistinctIdentities DEF UnusedLoans, Rows
<1>5. r \in Inserting' => r \in Inserting
  BY <1>2, <1>3, DistinctIdentities DEF Inserting, EventKinds
<1> QED BY <1>1, <1>4, <1>5, SpendsNoLoan

LEMMA ArriveKeepsEnough ==
  ASSUME IInv, EnoughLoans, NEW r \in Requests, Arrive(r)
  PROVE  EnoughLoans'
<1> TypeOK
  BY DEF IInv
<1>0. ASSUME NEW statement, NEW p, Begin(r, statement, p)
      PROVE  /\ req'[r] = p /\ book_loans' = book_loans
             /\ \A s \in Requests \ {r} : req'[s] = req[s]
  BY <1>0 DEF Begin, TypeOK, tables
<1>1. ASSUME NEW u \in Users, NEW b \in Books, BeginIssue(r, u, b) PROVE EnoughLoans'
  <2> DEFINE p == Request("issue", u, b, None, today, 0)
  <2>1. p.op = "issue" /\ p.loan = None
    BY DEF Request
  <2>2. Begin(r, "has_overdue_loans", p) /\ Cardinality(UnusedLoans) > Cardinality(Inserting)
    BY <1>1 DEF BeginIssue, Inserting
  <2> HIDE DEF p
  <2>3. /\ req'[r] = p /\ book_loans' = book_loans /\ req[r].op = None
        /\ \A s \in Requests \ {r} : req'[s] = req[s]
    BY <1>0, <2>2 DEF Begin, At, IInv, RequestInv, SlotInv
  <2>4. UnusedLoans \subseteq UnusedLoans'
    BY <2>1, <2>3, DistinctIdentities DEF UnusedLoans, Rows
  <2>5. Inserting' = Inserting \cup {r} /\ r \notin Inserting
    BY <2>1, <2>3, DistinctIdentities DEF Inserting, EventKinds
  <2>6. Cardinality(Inserting') = Cardinality(Inserting) + 1
    BY <2>5, UnusedFinite, FS_AddElement
  <2>7. UnusedLoans' \subseteq Loans
    BY DEF UnusedLoans
  <2>8. Cardinality(UnusedLoans') >= Cardinality(UnusedLoans) /\ Cardinality(UnusedLoans') \in Nat
    BY <2>4, <2>7, FiniteRows, FS_Subset, FS_CardinalityType
  <2> QED BY <2>2, <2>6, <2>8, UnusedFinite DEF EnoughLoans
<1>2. ASSUME NEW l \in Loans, BeginReturn(r, l) PROVE EnoughLoans'
  <2> DEFINE p == Request("return", None, None, l, 0, 0)
  <2>1. p.op = "return" /\ p.loan = l
    BY DEF Request
  <2>2. req'[r] = p /\ book_loans' = book_loans /\ \A s \in Requests \ {r} : req'[s] = req[s]
    BY <1>0, <1>2 DEF BeginReturn
  <2> HIDE DEF p
  <2>3. l \notin UnusedLoans
    BY <1>2 DEF BeginReturn, KnownLoans, UnusedLoans
  <2>4. \A k \in UnusedLoans : book_loans'[k].status = "none" /\ req'[r].loan # k
    BY <2>1, <2>2, <2>3 DEF UnusedLoans
  <2>5. r \notin Inserting'
    BY <2>1, <2>2 DEF Inserting
  <2> QED BY <2>2, <2>4, <2>5, SpendsNoLoan
<1>3. ASSUME NEW p, p.op \notin {"issue"}, p.loan = None, NEW statement, Begin(r, statement, p)
      PROVE  EnoughLoans'
  <2>1. req'[r] = p /\ book_loans' = book_loans /\ \A s \in Requests \ {r} : req'[s] = req[s]
    BY <1>0, <1>3
  <2>2. \A k \in UnusedLoans : book_loans'[k].status = "none" /\ req'[r].loan # k
    BY <1>3, <2>1, DistinctIdentities DEF UnusedLoans, Rows
  <2>3. r \notin Inserting'
    BY <1>3, <2>1 DEF Inserting
  <2> QED BY <2>1, <2>2, <2>3, SpendsNoLoan
<1>4. ASSUME NEW op \in {"delete_user", "delete_book", "set_copies"}, NEW u, NEW b, NEW d, NEW n
      PROVE  LET p == Request(op, u, b, None, d, n) IN p.op \notin {"issue"} /\ p.loan = None
  BY DEF Request
<1>5. ASSUME NEW u \in Users, BeginDeleteUser(r, u) PROVE EnoughLoans'
  BY <1>3, <1>4, <1>5 DEF BeginDeleteUser
<1>6. ASSUME NEW b \in Books, BeginDeleteBook(r, b) PROVE EnoughLoans'
  BY <1>3, <1>4, <1>6 DEF BeginDeleteBook
<1>7. ASSUME NEW b \in Books, NEW n \in 0 .. MaxCopies, BeginSetCopies(r, b, n) PROVE EnoughLoans'
  BY <1>3, <1>4, <1>7 DEF BeginSetCopies
<1> QED BY <1>1, <1>2, <1>5, <1>6, <1>7 DEF Arrive

LEMMA CreateLoanKeepsEnough ==
  ASSUME IInv, EnoughLoans, NEW r \in Requests, CreateLoan(r)
  PROVE  EnoughLoans'
<1> TypeOK
  BY DEF IInv
<1>0. \A l \in UnusedLoans : book_loans'[l].status = "none"
  BY DEF CreateLoan, Refuse, tables, UnusedLoans
<1>1. CASE \E e : Refuse(r, e)
  BY <1>0, <1>1, KeepsEnough DEF Refuse
<1>2. CASE ~\E e : Refuse(r, e)
  <2>1. PICK l \in UnusedLoans : req' = [req EXCEPT ![r].loan = l]
    BY <1>2 DEF CreateLoan
  <2>2. r \in Inserting
    BY IssuePending DEF CreateLoan, At, IssueStatements, Inserting
  <2>3. req'[r].loan = l /\ \A s \in Requests \ {r} : req'[s] = req[s]
    BY <2>1 DEF TypeOK, RequestType
  <2>4. l \in Loans /\ l # None
    BY DistinctIdentities DEF UnusedLoans, Rows
  <2>5. Inserting' = Inserting \ {r}
    BY <2>3, <2>4 DEF Inserting
  <2>6. Cardinality(Inserting') = Cardinality(Inserting) - 1
    BY <2>2, <2>5, UnusedFinite, FS_RemoveElement
  <2>7. UnusedLoans \ {l} \subseteq UnusedLoans'
    BY <1>0, <2>3 DEF UnusedLoans
  <2>8. UnusedLoans' \subseteq Loans
    BY DEF UnusedLoans
  <2>9. Cardinality(UnusedLoans \ {l}) <= Cardinality(UnusedLoans') /\ Cardinality(UnusedLoans') \in Nat
    BY <2>7, <2>8, FiniteRows, FS_Subset, FS_CardinalityType
  <2>10. Cardinality(UnusedLoans \ {l}) = Cardinality(UnusedLoans) - 1
    BY UnusedFinite, FS_RemoveElement
  <2> QED BY <2>6, <2>9, <2>10, UnusedFinite DEF EnoughLoans
<1> QED BY <1>1, <1>2

LEMMA GetLoanKeepsEnough ==
  ASSUME IInv, EnoughLoans, NEW r \in Requests, GetLoanById(r)
  PROVE  EnoughLoans'
<1> TypeOK
  BY DEF IInv
<1> DEFINE loan == book_loans[req[r].loan]
           read == [req[r] EXCEPT !.user = loan.user, !.book = loan.book]
<1>1. \A l \in UnusedLoans : book_loans'[l].status = "none"
  BY DEF GetLoanById, Refuse, tables, UnusedLoans
<1>2. (\E e : Refuse(r, e)) \/ req' = [req EXCEPT ![r] = read]
  BY DEF GetLoanById
<1>3. read.loan = req[r].loan /\ read.op = req[r].op
  BY DEF TypeOK, RequestType
<1> HIDE DEF read
<1>4. CASE req' = [req EXCEPT ![r] = read]
  <2>1. req'[r] = read /\ \A s \in Requests \ {r} : req'[s] = req[s]
    BY <1>4 DEF TypeOK
  <2>2. \A l \in UnusedLoans : req'[r].loan # l
    BY <1>3, <2>1 DEF UnusedLoans
  <2>3. r \in Inserting' => r \in Inserting
    BY <1>3, <2>1 DEF Inserting
  <2> QED BY <1>1, <2>1, <2>2, <2>3, SpendsNoLoan
<1> QED BY <1>1, <1>2, <1>4, KeepsEnough DEF Refuse

LEMMA NextKeepsEnough ==
  ASSUME IInv, EnoughLoans, [Next]_vars
  PROVE  EnoughLoans'
<1> TypeOK
  BY DEF IInv
<1>1. CASE UNCHANGED vars \/ Midnight
  BY <1>1 DEF vars, Midnight, tables, EnoughLoans, UnusedLoans, Inserting
<1>2. ASSUME NEW r \in Requests, (\E e : Refuse(r, e)) \/ UNCHANGED <<book_loans, req>> PROVE EnoughLoans'
  BY <1>2, KeepsEnough DEF Refuse, tables, UnusedLoans
<1>3. ASSUME NEW r \in Requests, Finish(r), \A l \in UnusedLoans : book_loans'[l].status = "none"
      PROVE  EnoughLoans'
  BY <1>3, KeepsEnough DEF Finish
<1>4. ASSUME NEW r \in Requests, Fault(r) \/ DeadlockVictim(r) \/ Close(r) PROVE EnoughLoans'
  BY <1>2, <1>3, <1>4 DEF Fault, DeadlockVictim, Close, tables, UnusedLoans
<1>5. ASSUME NEW r \in Requests, CommitIssue(r) \/ CommitReturn(r) PROVE EnoughLoans'
  <2>1. ASSUME NEW l \in UnusedLoans PROVE book_loans'[l].status = "none"
    <3>1. l \in Loans /\ l # req[r].loan /\ book_loans[l].status = "none"
      BY DEF UnusedLoans
    <3>2. book_loans'[l] = book_loans[l]
      BY <1>5, <3>1 DEF CommitIssue, CommitReturn, TypeOK
    <3> QED BY <3>1, <3>2
  <2> QED BY <1>3, <1>5, <2>1 DEF CommitIssue, CommitReturn
<1>6. ASSUME NEW r \in Requests, CommitDelete(r) \/ CommitSetCopies(r) PROVE EnoughLoans'
  <2>1. ASSUME NEW l \in UnusedLoans PROVE book_loans'[l].status = "none"
    <3>1. l \in Loans /\ l \notin Cascaded(r) /\ book_loans[l].status = "none"
      BY DEF UnusedLoans, Cascaded, Stored
    <3>2. book_loans'[l] = book_loans[l]
      BY <1>6, <3>1 DEF CommitDelete, CommitSetCopies
    <3> QED BY <3>1, <3>2
  <2> QED BY <1>3, <1>6, <2>1 DEF CommitDelete, CommitSetCopies
<1>7. ASSUME NEW r \in Requests, Serve(r) PROVE EnoughLoans'
  <2>1. CASE HasOverdueLoans(r) \/ HasOpenLoanForBook(r) \/ IncrementBooksOnHand(r) \/ GetUser(r)
             \/ TakeAvailableInstance(r) \/ GetBook(r)
    BY <1>2, <2>1 DEF HasOverdueLoans, HasOpenLoanForBook, IncrementBooksOnHand, GetUser,
                      TakeAvailableInstance, GetBook, Continue, Write, tables
  <2>2. CASE MarkLoanReturned(r) \/ ReturnInstance(r) \/ DecrementBooksOnHand(r) \/ DeleteUser(r)
             \/ DeleteBook(r) \/ (\E l \in Loans : CascadeToLoan(r, l)) \/ CascadeDone(r) \/ UpdateBook(r)
    BY <1>2, <2>2 DEF MarkLoanReturned, ReturnInstance, DecrementBooksOnHand, DeleteUser, DeleteBook,
                      CascadeToLoan, CascadeDone, UpdateBook, Write, tables
  <2> QED BY <1>4, <1>5, <1>6, <1>7, <2>1, <2>2, CreateLoanKeepsEnough, GetLoanKeepsEnough DEF Serve
<1> QED BY <1>1, <1>4, <1>7, ArriveKeepsEnough DEF Next

\* A request that waits for nobody can go on.
LEMMA NobodyInTheWay ==
  ASSUME IInv, HeldInv, EnoughLoans, NEW r \in Requests, pc[r] # "idle", WaitsFor(r) = {}
  PROVE  Ready(r)
<1> TypeOK
  BY DEF IInv
<1>0. \A row \in Wanted(r) : lock[row] \in {None, r}
  BY DEF WaitsFor
<1>1. CASE pc[r] \in {"increment", "take", "mark_returned", "return_instance", "decrement", "delete_user",
                      "delete_book"}
  BY <1>0, <1>1 DEF Ready, Wanted, At
<1>2. CASE pc[r] = "update_book"
  <2>1. req[r].book \in Rows
    BY <1>2, DeletePending DEF CopiesInv, Rows
  <2>2. lock[req[r].book] # r
    BY <1>2, <2>1, HoldsNothing
  <2> QED BY <1>0, <1>2, <2>2 DEF Ready, Wanted, At, Unlocked
<1>3. CASE pc[r] = "create_loan"
  <2>1. r \in Inserting
    BY <1>3, IssuePending DEF IssueStatements, Inserting
  <2>2. UnusedLoans # {}
    <3>1. Cardinality(Inserting \ {r}) = Cardinality(Inserting) - 1 /\ Cardinality(Inserting \ {r}) \in Nat
      BY <2>1, UnusedFinite, FS_RemoveElement, FS_CardinalityType
    <3>2. Cardinality(UnusedLoans) # 0
      BY <3>1, UnusedFinite DEF EnoughLoans
    <3> QED BY <3>2, FS_EmptySet
  <2>3. \A l \in Loans : lock[l] # r
    BY <1>3 DEF HeldInv, Held
  <2>4. Wanted(r) = OpenLoansFor(req[r].user, req[r].book)
    BY <1>3 DEF Wanted
  <2>5. \A l \in OpenLoansFor(req[r].user, req[r].book) : Unlocked(l)
    BY <1>0, <2>3, <2>4 DEF Unlocked, OpenLoansFor, OpenLoansOf
  <2> QED BY <1>3, <2>2, <2>5 DEF Ready, At
<1>4. CASE pc[r] = "cascade"
  BY <1>0, <1>4 DEF Ready, Wanted, At, Unlocked, Locked
<1> QED BY <1>1, <1>2, <1>3, <1>4 DEF Ready, At

\* Those who hold a lock are at work.
LEMMA HoldersAreBusy ==
  ASSUME IInv, HeldInv, NEW r \in Requests, NEW w \in WaitsFor(r)
  PROVE  w \in Requests /\ pc[w] # "idle"
<1> TypeOK
  BY DEF IInv
<1>1. PICK row \in Wanted(r) : lock[row] = w
  BY DEF WaitsFor
<1>2. row \in Rows
  <2>1. CASE pc[r] \in {"increment", "take", "create_loan"}
    BY <1>1, <2>1, IssuePending
       DEF Wanted, IssueStatements, IssueInv, OpenLoansFor, OpenLoansOf, OpenLoansOn, Rows
  <2>2. CASE pc[r] \in {"mark_returned", "return_instance", "decrement"}
    BY <1>1, <2>2, ReturnPending DEF Wanted, ReturnStatements, ReturnInv, Rows
  <2>3. CASE pc[r] \in {"delete_user", "delete_book", "update_book", "cascade"}
    BY <1>1, <2>3, DeletePending DEF Wanted, DeleteInv, CopiesInv, Cascaded, Rows
  <2> QED BY <1>1, <2>1, <2>2, <2>3 DEF Wanted
<1>3. w \in Requests /\ lock[row] = w
  BY <1>1, <1>2 DEF WaitsFor, TypeOK
<1> QED BY <1>2, <1>3 DEF HeldInv, Held, Rows

LEMMA SomebodyGoesOn ==
  ASSUME IInv, HeldInv, EnoughLoans
  PROVE  WorkGoesOn
<1> SUFFICES ASSUME NEW r \in Requests, NEW S \in SUBSET Requests, pc[r] # "idle", r \in S,
                    \A s \in S : WaitsFor(s) \subseteq S
             PROVE  \E s \in S : Ready(s) \/ Deadlocked(s)
  BY DEF WorkGoesOn, At
<1> DEFINE W == [s \in Requests |-> WaitsFor(s)]
           Busy == {s \in S : pc[s] # "idle"}
<1>1. Busy \in SUBSET Requests /\ Busy # {}
  OBVIOUS
<1>2. ClosedUnder(W, Busy)
  BY HoldersAreBusy DEF ClosedUnder
<1>3. PICK s \in Busy : W[s] = {} \/ OnCircle(W, Requests, s)
  <2> HIDE DEF W, Busy
  <2> QED BY <1>1, <1>2, FiniteRequests, WaitsEnd
<1>4. CASE W[s] = {}
  BY <1>4, NobodyInTheWay
<1>5. CASE OnCircle(W, Requests, s)
  BY <1>5 DEF OnCircle, ClosedUnder, Deadlocked
<1> QED BY <1>3, <1>4, <1>5

\* Locks are given back by whoever ends, and waits that lead nowhere are circles:
\* whatever has happened, the requests that have begun can be brought to an end.
THEOREM WorkGoesOnHolds == Spec => []WorkGoesOn
<1>1. Init => HeldInv /\ EnoughLoans
  <2> SUFFICES ASSUME Init PROVE HeldInv /\ EnoughLoans
    OBVIOUS
  <2>1. HeldInv
    BY DistinctIdentities DEF Init, HeldInv, Held, Rows
  <2>2. Inserting = {}
    BY DistinctIdentities DEF Init, Inserting, NoRequest, Request, EventKinds
  <2> QED BY <2>1, <2>2, FS_EmptySet, UnusedFinite DEF EnoughLoans
<1>2. IInv /\ HeldInv /\ EnoughLoans /\ [Next]_vars => HeldInv' /\ EnoughLoans'
  BY NextKeepsHeld, NextKeepsEnough
<1>3. IInv /\ HeldInv /\ EnoughLoans => WorkGoesOn
  BY SomebodyGoesOn
<1> QED BY <1>1, <1>2, <1>3, InductiveInvariant, PTL DEF Spec

-----------------------------------------------------------------------------
(* The counter and the copies, exactly *)

\* A statement leaves the tables alone, or ends its transaction.
LEMMA StepsOfServe ==
  ASSUME IInv, NEW r \in Requests, Serve(r)
  PROVE  QuietStep(r) \/ Finish(r)
BY HasOverdueLoansStep, HasOpenLoanStep, IncrementStep, GetUserStep, TakeStep, CreateLoanStep,
   GetLoanStep, MarkStep, ReturnInstanceStep, DecrementStep, DeleteRowStep, CascadeToLoanStep,
   CascadeDoneStep, UpdateBookStep, CloseStep
DEF Serve, CommitIssue, CommitReturn, CommitDelete, CommitSetCopies

\* Four kinds of step write the tables.
LEMMA TablesChangeByCommit ==
  ASSUME IInv, [Next]_vars
  PROVE  \/ UNCHANGED tables
         \/ \E r \in Requests :
              CommitIssue(r) \/ CommitReturn(r) \/ CommitDelete(r) \/ CommitSetCopies(r)
<1>1. ASSUME NEW r \in Requests, QuietStep(r) PROVE UNCHANGED tables
  BY <1>1 DEF QuietStep, Quiet
<1>2. ASSUME NEW r \in Requests, Serve(r)
      PROVE  QuietStep(r) \/ CommitIssue(r) \/ CommitReturn(r) \/ CommitDelete(r) \/ CommitSetCopies(r)
  BY <1>2, HasOverdueLoansStep, HasOpenLoanStep, IncrementStep, GetUserStep, TakeStep, CreateLoanStep,
     GetLoanStep, MarkStep, ReturnInstanceStep, DecrementStep, DeleteRowStep, CascadeToLoanStep,
     CascadeDoneStep, UpdateBookStep, CloseStep DEF Serve
<1>3. ASSUME NEW r \in Requests, Arrive(r) \/ Fault(r) \/ DeadlockVictim(r) PROVE QuietStep(r)
  BY <1>3, ArriveStep, FaultStep, DeadlockVictimStep
<1>4. CASE Midnight \/ UNCHANGED vars
  BY <1>4 DEF Midnight, vars, tables
<1> QED BY <1>1, <1>2, <1>3, <1>4 DEF Next

\* The loans that a deletion removes are those of its row.
LEMMA DeletedLoans ==
  ASSUME IInv, NEW r \in Requests, CommitDelete(r), NEW l \in Loans
  PROVE  /\ Open(l)' => Open(l) /\ book_loans'[l] = book_loans[l]
         /\ Open(l) /\ ~Open(l)' =>
              book_loans[l].user = req[r].user \/ book_loans[l].book = req[r].book
         /\ Open(l) => book_loans[l].user \in Users /\ book_loans[l].book \in Books
<1>1. PICK u, b : u = req[r].user /\ b = req[r].book
  OBVIOUS
<1>2. \/ book_loans'[l] = book_loans[l]
      \/ book_loans'[l].status = "gone" /\ l \in Cascaded(r)
  <2>1. \/ book_loans'[l] = book_loans[l]
        \/ book_loans'[l].status = "gone"
    BY <1>1, CommitDeleteEffect
  <2>2. l \notin Cascaded(r) => book_loans'[l] = book_loans[l]
    BY DEF CommitDelete
  <2> QED BY <2>1, <2>2
<1> QED BY <1>2 DEF Open, Cascaded, IInv, LoanRowsInv, Stored

\* Without deletions of books, the counter is the number of open loans.
ExactInv ==
  "delete_book" \notin Events =>
    /\ \A r \in Requests : req[r].op # "delete_book"
    /\ \A u \in Users : users[u].live => users[u].books_on_hand = Cardinality(OpenLoansOf(u))

\* A request is of a kind that the instance has.
LEMMA OpsFollowEvents ==
  ASSUME IInv, [Next]_vars, NEW r \in Requests, NEW op \in Ops, op \notin Events, req'[r].op = op
  PROVE  req[r].op = op
<1> TypeOK
  BY DEF IInv
<1>1. CASE UNCHANGED vars \/ Midnight
  BY <1>1 DEF vars, Midnight
<1>2. ASSUME NEW s \in Requests, Arrive(s) PROVE req[r].op = op
  <2>1. ASSUME NEW o, NEW u, NEW b, NEW l, NEW d, NEW n PROVE Request(o, u, b, l, d, n).op = o
    BY DEF Request
  <2>2. ASSUME NEW p, NEW statement, Begin(s, statement, p), p.op \in Events
        PROVE  req[r].op = op
    BY <2>2 DEF Begin, TypeOK
  <2>3. ASSUME NEW u, NEW b, BeginIssue(s, u, b) PROVE req[r].op = op
    BY <2>1, <2>2, <2>3 DEF BeginIssue
  <2>4. ASSUME NEW l, BeginReturn(s, l) PROVE req[r].op = op
    BY <2>1, <2>2, <2>4 DEF BeginReturn
  <2>5. ASSUME NEW u, BeginDeleteUser(s, u) PROVE req[r].op = op
    BY <2>1, <2>2, <2>5 DEF BeginDeleteUser
  <2>6. ASSUME NEW b, BeginDeleteBook(s, b) PROVE req[r].op = op
    BY <2>1, <2>2, <2>6 DEF BeginDeleteBook
  <2>7. ASSUME NEW b, NEW n, BeginSetCopies(s, b, n) PROVE req[r].op = op
    BY <2>1, <2>2, <2>7 DEF BeginSetCopies
  <2> QED BY <1>2, <2>3, <2>4, <2>5, <2>6, <2>7 DEF Arrive
<1>3. NoRequest.op # op
  BY DistinctIdentities DEF NoRequest, Request, Ops
<1>4. ASSUME NEW s \in Requests, Finish(s) \/ (\E e : Refuse(s, e)) \/ UNCHANGED req
      PROVE  req[r].op = op
  BY <1>3, <1>4 DEF Finish, Refuse, TypeOK
<1>5. ASSUME NEW s \in Requests, Fault(s) \/ DeadlockVictim(s) PROVE req[r].op = op
  BY <1>4, <1>5 DEF Fault, DeadlockVictim
<1>6. ASSUME NEW s \in Requests, Serve(s) PROVE req[r].op = op
  <2>1. CASE HasOverdueLoans(s) \/ HasOpenLoanForBook(s) \/ IncrementBooksOnHand(s) \/ GetUser(s)
             \/ TakeAvailableInstance(s) \/ GetBook(s)
    BY <1>4, <2>1 DEF HasOverdueLoans, HasOpenLoanForBook, IncrementBooksOnHand, GetUser,
                      TakeAvailableInstance, GetBook, Continue, Write
  <2>2. CASE CreateLoan(s)
    <3>1. \/ \E e : Refuse(s, e)
          \/ \E l : req' = [req EXCEPT ![s].loan = l]
      BY <2>2 DEF CreateLoan
    <3> QED BY <1>4, <3>1 DEF TypeOK, RequestType
  <2>3. CASE GetLoanById(s)
    <3> DEFINE loan == book_loans[req[s].loan]
               read == [req[s] EXCEPT !.user = loan.user, !.book = loan.book]
    <3>1. (\E e : Refuse(s, e)) \/ req' = [req EXCEPT ![s] = read]
      BY <2>3 DEF GetLoanById
    <3>2. read.op = req[s].op
      BY DEF TypeOK, RequestType
    <3> HIDE DEF read
    <3> QED BY <1>4, <3>1, <3>2 DEF TypeOK
  <2>4. CASE MarkLoanReturned(s) \/ ReturnInstance(s) \/ DecrementBooksOnHand(s) \/ DeleteUser(s)
             \/ DeleteBook(s) \/ (\E l \in Loans : CascadeToLoan(s, l)) \/ CascadeDone(s) \/ UpdateBook(s)
    BY <1>4, <2>4 DEF MarkLoanReturned, ReturnInstance, DecrementBooksOnHand, DeleteUser, DeleteBook,
                      CascadeToLoan, CascadeDone, UpdateBook, Write
  <2>5. CASE CommitIssue(s) \/ CommitReturn(s) \/ CommitDelete(s) \/ CommitSetCopies(s) \/ Close(s)
    BY <1>4, <2>5 DEF CommitIssue, CommitReturn, CommitDelete, CommitSetCopies, Close
  <2> QED BY <1>6, <2>1, <2>2, <2>3, <2>4, <2>5 DEF Serve
<1> QED BY <1>1, <1>2, <1>5, <1>6 DEF Next

LEMMA NextKeepsExactInv ==
  ASSUME IInv, ExactInv, [Next]_vars
  PROVE  ExactInv'
<1> SUFFICES ASSUME "delete_book" \notin Events, NEW v \in Users, users'[v].live
             PROVE  users'[v].books_on_hand = Cardinality(OpenLoansOf(v)')
  <2>1. "delete_book" \in Ops
    BY DEF Ops, EventKinds
  <2> QED BY <2>1, OpsFollowEvents DEF ExactInv
<1>1. users[v].live => users[v].books_on_hand = Cardinality(OpenLoansOf(v))
  BY DEF ExactInv
<1>2. ASSUME users'[v] = users[v], OpenLoansOf(v)' = OpenLoansOf(v)
      PROVE  users'[v].books_on_hand = Cardinality(OpenLoansOf(v)')
  BY <1>1, <1>2
<1>3. CASE UNCHANGED tables
  BY <1>2, <1>3 DEF tables, OpenLoansOf, Open
<1>4. ASSUME NEW r \in Requests, CommitIssue(r)
      PROVE  users'[v].books_on_hand = Cardinality(OpenLoansOf(v)')
  <2>1. PICK u, b, l : u = req[r].user /\ b = req[r].book /\ l = req[r].loan
    OBVIOUS
  <2>4. u \in Users /\ \A x \in Users \ {u} : users'[x] = users[x]
    BY <1>4, <2>1, CommitIssueEffect, Zenon
  <2>5. l \notin OpenLoansOf(u) /\ OpenLoansOf(u)' = OpenLoansOf(u) \cup {l}
    <3>1. l \notin OpenLoansOf(u)
      BY <1>4, <2>1, CommitIssueEffect
    <3>2. /\ l \in Loans
          /\ book_loans'[l] = [status |-> "open", user |-> u, book |-> b, due |-> req[r].as_of + LoanDays]
          /\ \A k \in Loans \ {l} : book_loans'[k] = book_loans[k]
      BY <1>4, <2>1, CommitIssueEffect
    <3> QED BY <3>1, <3>2 DEF OpenLoansOf, Open
  <2>6. \A x \in Users \ {u} : OpenLoansOf(x)' = OpenLoansOf(x)
    BY <1>4, <2>1, CommitIssueEffect, Zenon
  <2>2. /\ u \in Users /\ l \notin OpenLoansOf(u) /\ OpenLoansOf(u)' = OpenLoansOf(u) \cup {l}
        /\ \A x \in Users \ {u} : users'[x] = users[x]
        /\ \A x \in Users \ {u} : OpenLoansOf(x)' = OpenLoansOf(x)
    BY <2>4, <2>5, <2>6
  <2>0. CanIncrement(u) /\ users'[u].books_on_hand = users[u].books_on_hand + 1
    BY <1>4, <2>1, CommitIssueEffect, Zenon
  <2>3. CASE v = u
    <3>1. Cardinality(OpenLoansOf(u) \cup {l}) = Cardinality(OpenLoansOf(u)) + 1
      BY <2>2, OpenLoansFinite, FS_AddElement
    <3> QED BY <1>1, <2>0, <2>2, <2>3, <3>1 DEF CanIncrement
  <2> QED BY <1>2, <2>2, <2>3
<1>5. ASSUME NEW r \in Requests, CommitReturn(r)
      PROVE  users'[v].books_on_hand = Cardinality(OpenLoansOf(v)')
  <2>1. PICK u, b, l : u = req[r].user /\ b = req[r].book /\ l = req[r].loan
    OBVIOUS
  <2>2. /\ u \in Users /\ Open(l) /\ l \in Loans /\ book_loans[l].user = u
        /\ users'[u].books_on_hand = users[u].books_on_hand - 1
        /\ OpenLoansOf(u)' = OpenLoansOf(u) \ {l} /\ l \in OpenLoansOf(u)
        /\ \A x \in Users \ {u} : users'[x] = users[x]
        /\ \A x \in Users \ {u} : OpenLoansOf(x)' = OpenLoansOf(x)
    BY <1>5, <2>1, CommitReturnEffect
  <2>3. CASE v = u
    <3>1. Cardinality(OpenLoansOf(u) \ {l}) = Cardinality(OpenLoansOf(u)) - 1
      <4>1. IsFiniteSet(OpenLoansOf(u)) /\ l \in OpenLoansOf(u)
        BY <2>2, OpenLoansFinite
      <4> QED BY <4>1, FS_RemoveElement, Zenon
    <3>2. users[u].live
      BY <2>2 DEF IInv, LoanRowsInv, Stored, Open
    <3> QED BY <1>1, <2>2, <2>3, <3>1, <3>2
  <2> QED BY <1>2, <2>2, <2>3
<1>6. ASSUME NEW r \in Requests, CommitDelete(r)
      PROVE  users'[v].books_on_hand = Cardinality(OpenLoansOf(v)')
  <2>1. PICK u, b : u = req[r].user /\ b = req[r].book
    OBVIOUS
  <2>2. req[r].op # "delete_book"
    BY DEF ExactInv
  <2>3. u \in Users /\ b = None /\ ~users'[u].live /\ \A x \in Users \ {u} : users'[x] = users[x]
    <3>1. req[r].op = "delete_user" /\ pc[r] = "answered"
      BY <1>6, <2>2 DEF CommitDelete, Committing, At
    <3>2. req[r].book = None
      BY <3>1, Answered DEF DeleteInv
    <3>3. None \notin Books
      BY DistinctIdentities DEF Rows
    <3> QED BY <1>6, <2>1, <3>2, <3>3, CommitDeleteEffect
  <2>4. v # u
    BY <2>3
  <2>5. \A l \in Loans : l \in OpenLoansOf(v)' <=> l \in OpenLoansOf(v)
    <3>1. None \notin Books
      BY DistinctIdentities DEF Rows
    <3>2. ASSUME NEW l \in Loans PROVE l \in OpenLoansOf(v)' <=> l \in OpenLoansOf(v)
      <4>1. /\ Open(l)' => Open(l) /\ book_loans'[l] = book_loans[l]
            /\ Open(l) /\ ~Open(l)' => book_loans[l].user = u \/ book_loans[l].book = b
            /\ Open(l) => book_loans[l].book \in Books
        BY <1>6, <2>1, DeletedLoans
      <4> QED BY <2>3, <2>4, <3>1, <4>1 DEF OpenLoansOf
    <3> QED BY <3>2
  <2>6. OpenLoansOf(v)' = OpenLoansOf(v)
    BY <2>5 DEF OpenLoansOf
  <2> QED BY <1>2, <2>3, <2>4, <2>6
<1>7. ASSUME NEW r \in Requests, CommitSetCopies(r)
      PROVE  users'[v].books_on_hand = Cardinality(OpenLoansOf(v)')
  BY <1>2, <1>7 DEF CommitSetCopies, OpenLoansOf, Open
<1> QED BY <1>3, <1>4, <1>5, <1>6, <1>7, TablesChangeByCommit

LEMMA InitExactInv == Init => ExactInv
<1> SUFFICES ASSUME Init PROVE ExactInv
  OBVIOUS
<1>1. \A u \in Users : OpenLoansOf(u) = {} /\ users[u].books_on_hand = 0
  BY DEF Init, OpenLoansOf, Open, NoLoan
<1>2. \A u \in Users : Cardinality(OpenLoansOf(u)) = 0
  BY <1>1, FS_EmptySet
<1> QED BY <1>1, <1>2, DistinctIdentities DEF Init, ExactInv, NoRequest, Request, EventKinds

\* books_on_hand and the open loans of a user stay in step (book_use_cases.py:107,
\* 127, 137, 145); only the deletion of a book leaves the counter too high.
THEOREM CounterCoversLoansHolds == Spec => []CounterCoversLoans
<1>1. Init => ExactInv
  BY InitExactInv
<1>2. IInv /\ ExactInv => CounterCoversLoans
  <2> SUFFICES ASSUME IInv, ExactInv, NEW u \in Users, users[u].live
               PROVE  /\ users[u].books_on_hand >= Cardinality(OpenLoansOf(u))
                      /\ "delete_book" \notin Events =>
                           users[u].books_on_hand = Cardinality(OpenLoansOf(u))
    BY DEF CounterCoversLoans
  <2>1. Cardinality(OpenLoansOf(u)) \in Nat /\ users[u].books_on_hand \in Nat
    BY OpenLoansFinite DEF IInv, TypeOK
  <2> QED BY <2>1 DEF IInv, CounterInv, ExactInv
<1>3. IInv /\ ExactInv /\ [Next]_vars => ExactInv'
  BY NextKeepsExactInv
<1> QED BY <1>1, <1>2, <1>3, InductiveInvariant, PTL DEF Spec

LEMMA LoansOnFinite ==
  ASSUME NEW b
  PROVE  /\ IsFiniteSet(OpenLoansOn(b)) /\ Cardinality(OpenLoansOn(b)) \in Nat
BY FiniteRows, FS_Subset, FS_CardinalityType DEF OpenLoansOn

LEMMA CopiesStep ==
  ASSUME IInv, [Next]_vars, NEW b \in Books, books[b].live, books'[b].live, Copies(b)' # Copies(b)
  PROVE  \E r \in Requests :
           \/ Committing(r, "set_copies") /\ req[r].book = b /\ At(r, "idle")'
           \/ Committing(r, "delete_user") /\ OpenLoansFor(req[r].user, b) # {} /\ At(r, "idle")'
<1> TypeOK
  BY DEF IInv
<1>1. ASSUME books'[b] = books[b], OpenLoansOn(b)' = OpenLoansOn(b) PROVE FALSE
  BY <1>1 DEF Copies
<1>2. ASSUME NEW r \in Requests, Finish(r) PROVE At(r, "idle")'
  BY <1>2 DEF Finish, Goto, At, TypeOK
<1>3. CASE UNCHANGED tables
  BY <1>1, <1>3 DEF tables, OpenLoansOn, Open
<1>4. ASSUME NEW r \in Requests, CommitIssue(r) PROVE FALSE
  <2>1. PICK u, x, l : u = req[r].user /\ x = req[r].book /\ l = req[r].loan
    OBVIOUS
  <2>2. /\ x \in Books /\ books'[x].available = books[x].available - 1
        /\ \A y \in Books \ {x} : books'[y] = books[y]
        /\ l \in Loans /\ book_loans[l].status = "none"
        /\ book_loans'[l].status = "open" /\ book_loans'[l].book = x
        /\ \A k \in Loans \ {l} : book_loans'[k] = book_loans[k]
        /\ books[x].available \in Nat
    <3>1. /\ x \in Books /\ books'[x].available = books[x].available - 1
          /\ \A y \in Books \ {x} : books'[y] = books[y]
          /\ l \in Loans /\ book_loans[l].status = "none"
          /\ book_loans'[l] = [status |-> "open", user |-> u, book |-> x, due |-> req[r].as_of + LoanDays]
          /\ \A k \in Loans \ {l} : book_loans'[k] = book_loans[k]
      BY <1>4, <2>1, CommitIssueEffect
    <3>2. books[x].available \in Nat
      BY <3>1 DEF TypeOK
    <3> QED BY <3>1, <3>2
  <2>3. OpenLoansOn(b)' = IF b = x THEN OpenLoansOn(b) \cup {l} ELSE OpenLoansOn(b)
    BY <2>2 DEF OpenLoansOn, Open
  <2>4. CASE b = x
    <3>1. l \notin OpenLoansOn(b)
      BY <2>2 DEF OpenLoansOn, Open
    <3>2. Cardinality(OpenLoansOn(b) \cup {l}) = Cardinality(OpenLoansOn(b)) + 1
      BY <3>1, LoansOnFinite, FS_AddElement
    <3>3. Copies(b)' = books'[b].available + Cardinality(OpenLoansOn(b) \cup {l})
      BY <2>3, <2>4 DEF Copies
    <3> QED BY <2>2, <2>4, <3>2, <3>3, LoansOnFinite DEF Copies
  <2> QED BY <1>1, <2>2, <2>3, <2>4
<1>5. ASSUME NEW r \in Requests, CommitReturn(r) PROVE FALSE
  <2>1. PICK u, x, l : u = req[r].user /\ x = req[r].book /\ l = req[r].loan
    OBVIOUS
  <2>2. /\ x \in Books /\ books'[x].available = books[x].available + 1
        /\ \A y \in Books \ {x} : books'[y] = books[y]
        /\ l \in Loans /\ Open(l) /\ book_loans[l].book = x
        /\ book_loans'[l].status = "returned"
        /\ \A k \in Loans \ {l} : book_loans'[k] = book_loans[k]
        /\ books[x].available \in Nat
    <3>1. /\ x \in Books /\ books'[x].available = books[x].available + 1
          /\ \A y \in Books \ {x} : books'[y] = books[y]
          /\ l \in Loans /\ Open(l) /\ book_loans[l].book = x
          /\ book_loans'[l].status = "returned"
          /\ \A k \in Loans \ {l} : book_loans'[k] = book_loans[k]
      BY <1>5, <2>1, CommitReturnEffect
    <3>2. books[x].available \in Nat
      BY <3>1 DEF TypeOK
    <3> QED BY <3>1, <3>2
  <2>3. OpenLoansOn(b)' = IF b = x THEN OpenLoansOn(b) \ {l} ELSE OpenLoansOn(b)
    BY <2>2 DEF OpenLoansOn, Open
  <2>4. CASE b = x
    <3>1. l \in OpenLoansOn(b) /\ IsFiniteSet(OpenLoansOn(b))
      BY <2>2, <2>4, LoansOnFinite DEF OpenLoansOn
    <3>2. Cardinality(OpenLoansOn(b) \ {l}) = Cardinality(OpenLoansOn(b)) - 1
      BY <3>1, FS_RemoveElement, Zenon
    <3>3. Copies(b)' = books'[b].available + Cardinality(OpenLoansOn(b) \ {l})
      BY <2>3, <2>4 DEF Copies
    <3> QED BY <2>2, <2>4, <3>2, <3>3, LoansOnFinite DEF Copies
  <2> QED BY <1>1, <2>2, <2>3, <2>4
<1>6. ASSUME NEW r \in Requests, CommitDelete(r)
      PROVE  Committing(r, "delete_user") /\ OpenLoansFor(req[r].user, b) # {} /\ At(r, "idle")'
  <2>1. PICK u, x : u = req[r].user /\ x = req[r].book
    OBVIOUS
  <2>2. None \notin Books /\ None \notin Users
    BY DistinctIdentities DEF Rows
  <2>3. /\ Finish(r) /\ x # b /\ books'[b] = books[b]
        /\ \/ u \in Users /\ x = None
           \/ x \in Books /\ u = None
    BY <1>6, <2>1, <2>2, CommitDeleteEffect
  <2>4. PICK l \in Loans : l \in OpenLoansOn(b) /\ l \notin OpenLoansOn(b)'
    <3>1. OpenLoansOn(b)' # OpenLoansOn(b)
      BY <1>1, <2>3
    <3>2. \A l \in Loans : l \in OpenLoansOn(b)' => l \in OpenLoansOn(b)
      BY <1>6, DeletedLoans DEF OpenLoansOn
    <3> QED BY <3>1, <3>2 DEF OpenLoansOn
  <2>5. Open(l) /\ book_loans[l].book = b /\ book_loans[l].user = u /\ book_loans[l].user \in Users
    <3>1. Open(l) /\ book_loans[l].book = b
      BY <2>4 DEF OpenLoansOn
    <3>2. Open(l)' => book_loans'[l] = book_loans[l]
      BY <1>6, DeletedLoans
    <3>3. ~Open(l)'
      BY <2>4, <3>1, <3>2 DEF OpenLoansOn
    <3> QED BY <1>6, <2>1, <2>3, <3>1, <3>3, DeletedLoans
  <2>6. Committing(r, "delete_user")
    <3>1. ~Committing(r, "delete_book")
      <4>1. Committing(r, "delete_book") => req[r].user = None
        BY Answered DEF Committing, At, DeleteInv
      <4> QED BY <2>1, <2>2, <2>5, <4>1
    <3> QED BY <1>6, <3>1 DEF CommitDelete
  <2> QED BY <1>2, <2>1, <2>3, <2>5, <2>6 DEF OpenLoansFor, OpenLoansOf, OpenLoansOn
<1>7. ASSUME NEW r \in Requests, CommitSetCopies(r)
      PROVE  Committing(r, "set_copies") /\ req[r].book = b /\ At(r, "idle")'
  <2>1. Committing(r, "set_copies") /\ Finish(r) /\ OpenLoansOn(b)' = OpenLoansOn(b)
    BY <1>7 DEF CommitSetCopies, OpenLoansOn, Open
  <2>2. req[r].book # b => books'[b] = books[b]
    BY <1>7 DEF CommitSetCopies, TypeOK
  <2> QED BY <1>1, <1>2, <2>1, <2>2
<1> QED BY <1>3, <1>4, <1>5, <1>6, <1>7, TablesChangeByCommit

\* Issues, returns and aborts, in any number at a time, neither make copies nor
\* lose them (book_use_cases.py:117,141).
THEOREM CopiesConservedHolds == Spec => CopiesConserved
<1> DEFINE Cause(b) ==
      \E r \in Requests :
        \/ Committing(r, "set_copies") /\ req[r].book = b /\ At(r, "idle")'
        \/ Committing(r, "delete_user") /\ OpenLoansFor(req[r].user, b) # {} /\ At(r, "idle")'
<1>1. IInv /\ [Next]_vars =>
        [\A b \in Books : books[b].live /\ books'[b].live /\ Copies(b)' # Copies(b) => Cause(b)]_vars
  BY CopiesStep
<1> QED BY <1>1, InductiveInvariant, PTL DEF Spec, CopiesConserved

-----------------------------------------------------------------------------
(* What an answer is worth *)

\* A request that has answered waits for nobody and is stopped by nobody.
LEMMA LeavesAnswered ==
  ASSUME IInv, [Next]_vars, NEW r \in Requests, pc[r] = "answered", pc'[r] # "answered"
  PROVE  CommitIssue(r) \/ CommitReturn(r) \/ CommitDelete(r) \/ CommitSetCopies(r) \/ Fault(r)
<1>1. CASE UNCHANGED vars \/ Midnight
  BY <1>1 DEF vars, Midnight
<1>2. ASSUME NEW s \in Requests, Arrive(s) \/ Serve(s) \/ Fault(s) \/ DeadlockVictim(s), s # r
      PROVE  FALSE
  <2>1. CASE QuietStep(s)
    BY <1>2, <2>1 DEF QuietStep, Quiet
  <2>2. CASE Finish(s)
    BY <1>2, <2>2, FinishSlot DEF IInv
  <2> QED BY <1>2, <2>1, <2>2, ArriveStep, FaultStep, DeadlockVictimStep, StepsOfServe
<1>3. ASSUME Arrive(r) PROVE FALSE
  BY <1>3 DEF Arrive, BeginIssue, BeginReturn, BeginDeleteUser, BeginDeleteBook, BeginSetCopies,
              Begin, At
<1>4. ASSUME DeadlockVictim(r) PROVE FALSE
  <2>1. WaitsFor(r) = {}
    BY DEF WaitsFor, Wanted
  <2> QED BY <1>4, <2>1 DEF DeadlockVictim, Deadlocked
<1>5. CASE Serve(r)
  BY <1>5 DEF Serve, HasOverdueLoans, HasOpenLoanForBook, IncrementBooksOnHand, GetUser,
     TakeAvailableInstance, GetBook, CreateLoan, GetLoanById, MarkLoanReturned, ReturnInstance,
     DecrementBooksOnHand, DeleteUser, DeleteBook, CascadeToLoan, CascadeDone, UpdateBook, Close, At
<1> QED BY <1>1, <1>2, <1>3, <1>4, <1>5 DEF Next

\* A client that has read its answer before the commit has read the truth, unless
\* a fault intervenes, and no two clients have read the same one
\* (dependencies/database.py:45).
THEOREM AnswersComeTrueHolds == Spec => AnswersComeTrue
<1>1. IInv /\ [Next]_vars =>
        [\A r \in Requests : At(r, "answered") /\ ~At(r, "answered")' =>
           TakesEffect(r) \/ Fault(r)]_vars
  <2> SUFFICES ASSUME IInv, [Next]_vars, NEW r \in Requests, pc[r] = "answered", pc'[r] # "answered"
               PROVE  TakesEffect(r) \/ Fault(r)
    BY DEF At
  <2> PICK u, b, l : u = req[r].user /\ b = req[r].book /\ l = req[r].loan
    OBVIOUS
  <2>1. CASE CommitIssue(r)
    <3>1. /\ book_loans[l].status = "none"
          /\ book_loans'[l] = [status |-> "open", user |-> u, book |-> b,
                               due |-> req[r].as_of + LoanDays]
      BY <2>1, CommitIssueEffect
    <3>2. req[r].op = "issue"
      BY <2>1 DEF CommitIssue, Committing
    <3> QED BY <3>1, <3>2 DEF TakesEffect, Stored
  <2>2. CASE CommitReturn(r)
    <3>1. Open(l) /\ book_loans'[l].status = "returned"
      BY <2>2, CommitReturnEffect
    <3>2. req[r].op = "return"
      BY <2>2 DEF CommitReturn, Committing
    <3> QED BY <3>1, <3>2 DEF TakesEffect
  <2>3. CASE CommitDelete(r)
    <3>1. TypeOK /\ DeleteInv(r) /\ req[r].op \in {"delete_user", "delete_book"}
      BY <2>3 DEF CommitDelete, Committing, IInv, RequestInv, SlotInv
    <3>2. CASE req[r].op = "delete_user"
      <4>1. u \in Users /\ users[u].live
        BY <3>1, <3>2 DEF DeleteInv
      <4>2. users' = [users EXCEPT ![u] = [live |-> FALSE, books_on_hand |-> 0]]
        BY <2>3, <3>2 DEF CommitDelete
      <4> QED BY <3>1, <3>2, <4>1, <4>2 DEF TypeOK, TakesEffect
    <3>3. CASE req[r].op = "delete_book"
      <4>1. b \in Books /\ books[b].live
        BY <3>1, <3>3 DEF DeleteInv
      <4>2. books' = [books EXCEPT ![b] = [live |-> FALSE, available |-> 0]]
        BY <2>3, <3>3 DEF CommitDelete
      <4> QED BY <3>1, <3>3, <4>1, <4>2 DEF TypeOK, TakesEffect
    <3> QED BY <3>1, <3>2, <3>3
  <2>4. CASE CommitSetCopies(r)
    <3>1. req[r].op = "set_copies" /\ books' = [books EXCEPT ![b].available = req[r].copies]
      BY <2>4 DEF CommitSetCopies, Committing
    <3>2. b \in Books /\ books[b].live /\ books \in [Books -> [live : BOOLEAN, available : Nat]]
      BY <3>1 DEF IInv, TypeOK, RequestInv, SlotInv, CopiesInv, At, BookRow
    <3>3. books[b] = [live |-> TRUE, available |-> books[b].available]
      BY <3>2
    <3> QED BY <3>1, <3>2, <3>3 DEF TakesEffect
  <2> QED BY <2>1, <2>2, <2>3, <2>4, LeavesAnswered
<1> QED BY <1>1, InductiveInvariant, PTL DEF Spec, AnswersComeTrue

-----------------------------------------------------------------------------
(* What a client is told of the limit and of the copies *)

\* Only the refused increment goes from there to get_user.
LEMMA IncrementRefused ==
  ASSUME IInv, [Next]_vars, NEW r \in Requests, pc[r] = "increment", pc'[r] = "get_user"
  PROVE  IncrementBooksOnHand(r) /\ ~CanIncrement(req[r].user)
<1> TypeOK
  BY DEF IInv
<1>1. CASE UNCHANGED vars \/ Midnight
  BY <1>1 DEF vars, Midnight
<1>2. ASSUME NEW s \in Requests, Arrive(s) \/ Serve(s) \/ Fault(s) \/ DeadlockVictim(s), s # r
      PROVE  FALSE
  <2>1. CASE QuietStep(s)
    BY <1>2, <2>1 DEF QuietStep, Quiet
  <2>2. CASE Finish(s)
    BY <1>2, <2>2, FinishSlot
  <2> QED BY <1>2, <2>1, <2>2, ArriveStep, FaultStep, DeadlockVictimStep, StepsOfServe
<1>3. CASE Arrive(r) \/ Fault(r) \/ DeadlockVictim(r)
  BY <1>3 DEF Arrive, BeginIssue, BeginReturn, BeginDeleteUser, BeginDeleteBook, BeginSetCopies,
              Begin, At, Fault, DeadlockVictim, Refuse, Finish, Goto, TypeOK
<1>4. CASE Serve(r)
  <2>1. IncrementBooksOnHand(r)
    BY <1>4 DEF Serve, HasOverdueLoans, HasOpenLoanForBook, GetUser, TakeAvailableInstance, GetBook,
       CreateLoan, CommitIssue, GetLoanById, MarkLoanReturned, ReturnInstance, DecrementBooksOnHand,
       CommitReturn, DeleteUser, DeleteBook, CascadeToLoan, CascadeDone, CommitDelete, UpdateBook,
       CommitSetCopies, Close, Committing, At
  <2> QED BY <2>1 DEF IncrementBooksOnHand, Write, Goto, TypeOK
<1> QED BY <1>1, <1>2, <1>3, <1>4 DEF Next

\* The counter is exact unless books are deleted, so a user is told of the limit
\* with that many loans and no fewer (book_use_cases.py:107-115).
THEOREM LimitRefusalDeservedHolds == Spec => LimitRefusalDeserved
<1>1. IInv /\ ExactInv /\ [Next]_vars =>
        [\A r \in Requests : LimitIsReached(r) \/ "delete_book" \in Events]_vars
  <2> SUFFICES ASSUME IInv, ExactInv, [Next]_vars, NEW r \in Requests,
                      pc[r] = "increment", pc'[r] = "get_user"
               PROVE  \/ ~users[req[r].user].live
                      \/ Cardinality(OpenLoansOf(req[r].user)) = MaxBooksOnHand
                      \/ "delete_book" \in Events
    BY DEF LimitIsReached, At
  <2>1. ~CanIncrement(req[r].user)
    BY IncrementRefused
  <2>2. req[r].user \in Users
    BY IssuePending DEF IssueStatements, IssueInv
  <2>3. users[req[r].user].books_on_hand \in Nat
    BY <2>2 DEF IInv, TypeOK
  <2> QED BY <2>1, <2>2, <2>3, Limits DEF CanIncrement, IInv, CounterInv, ExactInv
<1>2. Init => ExactInv
  BY InitExactInv
<1>3. IInv /\ ExactInv /\ [Next]_vars => ExactInv'
  BY NextKeepsExactInv
<1> QED BY <1>1, <1>2, <1>3, InductiveInvariant, PTL DEF Spec, LimitRefusalDeserved

\* While no copies are set by hand and no user is deleted, the copies of a book
\* are those it had at first; and no request has an answer before its end.
StockInv ==
  {"set_copies", "delete_user"} \cap Events = {} =>
    /\ \A r \in Requests : req[r].op \notin {"set_copies", "delete_user"}
    /\ \A b \in Books : books[b].live => Copies(b) = Stock[b]

NoAnswerYet == \A r \in Requests : pc[r] \notin {"answered", "closed"} => reply[r] = None

LEMMA NextKeepsStockInv ==
  ASSUME IInv, StockInv, [Next]_vars
  PROVE  StockInv'
<1> SUFFICES ASSUME {"set_copies", "delete_user"} \cap Events = {}
             PROVE  /\ \A r \in Requests : req'[r].op \notin {"set_copies", "delete_user"}
                    /\ \A b \in Books : books'[b].live => Copies(b)' = Stock[b]
  BY DEF StockInv
<1>1. ASSUME NEW r \in Requests PROVE req'[r].op \notin {"set_copies", "delete_user"}
  <2>1. {"set_copies", "delete_user"} \subseteq Ops
    BY DEF Ops, EventKinds
  <2> QED BY <2>1, OpsFollowEvents DEF StockInv
<1>2. ASSUME NEW b \in Books, books'[b].live PROVE books[b].live
  <2>1. CASE UNCHANGED tables
    BY <1>2, <2>1 DEF tables
  <2>2. ASSUME NEW r \in Requests, CommitIssue(r) \/ CommitReturn(r) \/ CommitSetCopies(r)
        PROVE  books[b].live
    <3>1. ASSUME NEW v PROVE [books[b] EXCEPT !.available = v].live = books[b].live
      BY DEF IInv, TypeOK
    <3>2. PICK x, v : books' = [books EXCEPT ![x] = [books[x] EXCEPT !.available = v]]
      BY <2>2 DEF CommitIssue, CommitReturn, CommitSetCopies
    <3>3. books'[b] = books[b] \/ books'[b] = [books[b] EXCEPT !.available = v]
      BY <3>2 DEF IInv, TypeOK
    <3> QED BY <1>2, <3>1, <3>3
  <2>3. ASSUME NEW r \in Requests, CommitDelete(r) PROVE books[b].live
    BY <1>2, <2>3 DEF CommitDelete, IInv, TypeOK
  <2> QED BY <2>1, <2>2, <2>3, TablesChangeByCommit
<1>3. ASSUME NEW b \in Books, books'[b].live PROVE Copies(b)' = Stock[b]
  <2>1. \A r \in Requests : ~Committing(r, "set_copies") /\ ~Committing(r, "delete_user")
    BY DEF StockInv, Committing
  <2>2. Copies(b)' = Copies(b)
    BY <1>2, <1>3, <2>1, CopiesStep
  <2> QED BY <1>2, <1>3, <2>2 DEF StockInv
<1> QED BY <1>1, <1>3

LEMMA NextKeepsNoAnswerYet ==
  ASSUME TypeOK, NoAnswerYet, [Next]_vars
  PROVE  NoAnswerYet'
<1>1. CASE UNCHANGED vars \/ Midnight
  BY <1>1 DEF vars, Midnight, NoAnswerYet
<1>2. ASSUME NEW s \in Requests, Arrive(s) PROVE NoAnswerYet'
  <2>1. PICK statement, p : Begin(s, statement, p)
    BY <1>2 DEF Arrive, BeginIssue, BeginReturn, BeginDeleteUser, BeginDeleteBook, BeginSetCopies
  <2> QED BY <2>1 DEF Begin, At, Goto, NoAnswerYet, TypeOK
<1>3. ASSUME NEW s \in Requests, Finish(s) \/ \E e : Refuse(s, e) PROVE NoAnswerYet'
  BY <1>3 DEF Finish, Refuse, Goto, NoAnswerYet, TypeOK
<1>4. ASSUME NEW s \in Requests, Answer(s) PROVE NoAnswerYet'
  BY <1>4 DEF Answer, Goto, NoAnswerYet, TypeOK
<1>5. ASSUME NEW s \in Requests, NEW statement, pc[s] \notin {"answered", "closed"},
             Goto(s, statement) \/ UNCHANGED pc, UNCHANGED reply
      PROVE  NoAnswerYet'
  BY <1>5 DEF Goto, NoAnswerYet, TypeOK
<1>6. ASSUME NEW s \in Requests, Serve(s) PROVE NoAnswerYet'
  <2>1. CASE HasOverdueLoans(s) \/ HasOpenLoanForBook(s) \/ IncrementBooksOnHand(s) \/ GetUser(s)
    BY <1>3, <1>5, <2>1 DEF HasOverdueLoans, HasOpenLoanForBook, IncrementBooksOnHand, GetUser,
                            Continue, Write, At
  <2>2. CASE TakeAvailableInstance(s) \/ GetBook(s) \/ CreateLoan(s) \/ GetLoanById(s)
    BY <1>3, <1>4, <1>5, <2>2 DEF TakeAvailableInstance, GetBook, CreateLoan, GetLoanById,
                                  Continue, Write, At
  <2>3. CASE MarkLoanReturned(s) \/ ReturnInstance(s) \/ DecrementBooksOnHand(s) \/ DeleteUser(s)
             \/ DeleteBook(s) \/ (\E l \in Loans : CascadeToLoan(s, l)) \/ CascadeDone(s) \/ UpdateBook(s)
    BY <1>3, <1>4, <1>5, <2>3 DEF MarkLoanReturned, ReturnInstance, DecrementBooksOnHand, DeleteUser,
       DeleteBook, CascadeToLoan, CascadeDone, UpdateBook, Write, At
  <2>4. CASE CommitIssue(s) \/ CommitReturn(s) \/ CommitDelete(s) \/ CommitSetCopies(s) \/ Close(s)
    BY <1>3, <2>4 DEF CommitIssue, CommitReturn, CommitDelete, CommitSetCopies, Close
  <2> QED BY <1>6, <2>1, <2>2, <2>3, <2>4 DEF Serve
<1> QED BY <1>1, <1>2, <1>3, <1>6 DEF Next, Fault, DeadlockVictim

\* Nobody is told that a book is out while a copy is on the shelf or on its way
\* back: the look that gives the reason sees a later state than the take it
\* explains, and its answer is right all the same (book_use_cases.py:117-125).
THEOREM AllCopiesOnLoanHolds == Spec => AllCopiesOnLoan
<1> DEFINE Out(r) ==
      \/ Cardinality(OpenLoansOn(req[r].book)) = Stock[req[r].book]
      \/ {"set_copies", "delete_user"} \cap Events # {}
<1>1. IInv /\ StockInv /\ NoAnswerYet /\ [Next]_vars =>
        [\A r \in Requests : At(r, "get_book") /\ reply'[r] = "NoAvailableInstances" => Out(r)]_vars
  <2> SUFFICES ASSUME IInv, StockInv, NoAnswerYet, [Next]_vars, NEW r \in Requests,
                      pc[r] = "get_book", reply'[r] = "NoAvailableInstances"
               PROVE  Out(r)
    BY DEF At
  <2>1. reply[r] = None /\ None # "NoAvailableInstances" /\ TypeOK
    BY DistinctIdentities DEF NoAnswerYet, Refusals, IInv
  <2>2. GetBook(r)
    <3>1. CASE UNCHANGED vars \/ Midnight
      BY <2>1, <3>1 DEF vars, Midnight
    <3>2. ASSUME NEW s \in Requests, s # r, Arrive(s) \/ Serve(s) \/ Fault(s) \/ DeadlockVictim(s)
          PROVE  FALSE
      <4>1. CASE QuietStep(s)
        BY <2>1, <3>2, <4>1 DEF QuietStep, Quiet
      <4>2. CASE Finish(s)
        BY <2>1, <3>2, <4>2, FinishSlot
      <4> QED BY <3>2, <4>1, <4>2, ArriveStep, FaultStep, DeadlockVictimStep, StepsOfServe
    <3>3. CASE Arrive(r) \/ Fault(r) \/ DeadlockVictim(r)
      BY <2>1, <3>3 DEF Arrive, BeginIssue, BeginReturn, BeginDeleteUser, BeginDeleteBook, BeginSetCopies,
              Begin, At, Fault, DeadlockVictim, Refuse, Finish, Goto, TypeOK
    <3>4. CASE Serve(r)
      BY <3>4 DEF Serve, HasOverdueLoans, HasOpenLoanForBook, IncrementBooksOnHand, GetUser,
         TakeAvailableInstance, CreateLoan, CommitIssue, GetLoanById, MarkLoanReturned, ReturnInstance,
         DecrementBooksOnHand, CommitReturn, DeleteUser, DeleteBook, CascadeToLoan, CascadeDone,
         CommitDelete, UpdateBook, CommitSetCopies, Close, Committing, At
    <3> QED BY <3>1, <3>2, <3>3, <3>4 DEF Next
  <2>3. books[req[r].book].live /\ books[req[r].book].available <= 0
    BY <2>1, <2>2 DEF GetBook, Refuse, TypeOK
  <2>4. req[r].book \in Books
    BY IssuePending DEF IssueStatements, IssueInv
  <2>5. books[req[r].book].available = 0
    BY <2>1, <2>3, <2>4 DEF TypeOK
  <2> QED BY <2>3, <2>4, <2>5, LoansOnFinite DEF StockInv, Copies
<1>2. Init => StockInv /\ NoAnswerYet
  <2> SUFFICES ASSUME Init PROVE StockInv /\ NoAnswerYet
    OBVIOUS
  <2>1. \A b \in Books : OpenLoansOn(b) = {} /\ books[b].available = Stock[b]
    BY DEF Init, OpenLoansOn, Open, NoLoan
  <2>2. ASSUME NEW b \in Books PROVE Copies(b) = Stock[b]
    <3>1. Cardinality(OpenLoansOn(b)) = 0
      BY <2>1, FS_EmptySet
    <3>2. books[b].available = Stock[b] /\ Stock[b] \in Nat
      BY <2>1, Limits
    <3> QED BY <3>1, <3>2 DEF Copies
  <2> QED BY <2>2, DistinctIdentities DEF Init, StockInv, NoAnswerYet, NoRequest, Request, EventKinds
<1>3. IInv /\ StockInv /\ NoAnswerYet /\ [Next]_vars => StockInv' /\ NoAnswerYet'
  BY NextKeepsStockInv, NextKeepsNoAnswerYet DEF IInv
<1> QED BY <1>1, <1>2, <1>3, InductiveInvariant, PTL DEF Spec, AllCopiesOnLoan

-----------------------------------------------------------------------------
(* The refinement of Lending *)

Members == {u \in Users : users[u].live}
Catalogue == {b \in Books : books[b].live}
Shelf == [b \in Books |-> books[b].available]
OnLoan == {<<book_loans[l].user, book_loans[l].book>> : l \in {k \in Loans : Open(k)}}

LEMMA OnLoanPairs ==
  ASSUME NEW u, NEW b
  PROVE  /\ <<u, b>> \in OnLoan <=>
              \E l \in Loans : Open(l) /\ book_loans[l].user = u /\ book_loans[l].book = b
         /\ (<<u, b>> \in OnLoan <=>
              \E l \in Loans : Open(l) /\ book_loans[l].user = u /\ book_loans[l].book = b)'
BY DEF OnLoan

\* A user has no more books than open loans.
LEMMA BooksOfBound ==
  ASSUME IInv, NEW u \in Users
  PROVE  Cardinality(Desk!BooksOf(u)) \in Nat /\ Cardinality(Desk!BooksOf(u)) <= Cardinality(OpenLoansOf(u))
<1> DEFINE S == OpenLoansOf(u)
           T == Desk!BooksOf(u)
           f == [l \in S |-> book_loans[l].book]
<1>1. T = {b \in Books : <<u, b>> \in OnLoan}
  BY DEF Desk!BooksOf, OnLoan
<1>2. \A l \in S : l \in Loans /\ Open(l) /\ book_loans[l].user = u /\ book_loans[l].book \in Books
  BY DEF IInv, LoanRowsInv, OpenLoansOf, Open, Stored
<1>3. f \in [S -> T]
  BY <1>1, <1>2, OnLoanPairs
<1>4. \A b \in T : \E l \in S : f[l] = b
  BY <1>1, OnLoanPairs DEF OpenLoansOf
<1>5. f \in Surjection(S, T)
  BY <1>3, <1>4 DEF Surjection
<1> HIDE DEF f, S, T
<1>6. IsFiniteSet(S)
  BY OpenLoansFinite DEF S
<1>7. IsFiniteSet(T) /\ Cardinality(T) <= Cardinality(S)
  BY <1>5, <1>6, FS_Surjection
<1> QED BY <1>7, FS_CardinalityType DEF S, T

LEMMA IssueBorrows ==
  ASSUME IInv, NEW r \in Requests, CommitIssue(r)
  PROVE  Desk!Next
<1>1. PICK u, b, l : u = req[r].user /\ b = req[r].book /\ l = req[r].loan
  OBVIOUS
<1> TypeOK
  BY DEF IInv
<1>2. /\ u \in Users /\ b \in Books /\ l \in Loans /\ book_loans[l].status = "none"
      /\ CanIncrement(u) /\ CanTake(b) /\ OpenLoansFor(u, b) = {}
      /\ users'[u].live /\ (\A v \in Users \ {u} : users'[v] = users[v])
      /\ books'[b].live /\ books'[b].available = books[b].available - 1
      /\ \A v \in Books \ {b} : books'[v] = books[v]
      /\ book_loans'[l] = [status |-> "open", user |-> u, book |-> b, due |-> req[r].as_of + LoanDays]
      /\ \A k \in Loans \ {l} : book_loans'[k] = book_loans[k]
  BY <1>1, CommitIssueEffect
<1>3. Members' = Members /\ Catalogue' = Catalogue /\ u \in Members /\ b \in Catalogue
  BY <1>2 DEF Members, Catalogue, CanIncrement, CanTake
<1>4. Shelf[b] > 0 /\ Shelf' = [Shelf EXCEPT ![b] = @ - 1]
  BY <1>2 DEF Shelf, CanTake
<1>5. OnLoan' = OnLoan \cup {<<u, b>>}
  <2>1. Open(l)' /\ book_loans'[l].user = u /\ book_loans'[l].book = b /\ ~Open(l)
    BY <1>2 DEF Open
  <2>2. \A k \in Loans \ {l} : Open(k)' = Open(k) /\ book_loans'[k] = book_loans[k]
    BY <1>2 DEF Open
  <2> QED BY <1>2, <2>1, <2>2 DEF OnLoan
<1>6. b \notin Desk!BooksOf(u)
  <2>1. <<u, b>> \notin OnLoan
    BY <1>2, OnLoanPairs DEF OpenLoansFor, OpenLoansOf, OpenLoansOn
  <2> QED BY <2>1 DEF Desk!BooksOf, OnLoan
<1>7. Cardinality(Desk!BooksOf(u)) < MaxBooksOnHand
  <2>1. /\ Cardinality(Desk!BooksOf(u)) \in Nat
        /\ Cardinality(Desk!BooksOf(u)) <= Cardinality(OpenLoansOf(u))
    BY <1>2, BooksOfBound
  <2>2. /\ Cardinality(OpenLoansOf(u)) \in Nat /\ users[u].books_on_hand \in Nat
        /\ Cardinality(OpenLoansOf(u)) <= users[u].books_on_hand
        /\ users[u].books_on_hand < MaxBooksOnHand /\ MaxBooksOnHand \in Nat
    BY <1>2, OpenLoansFinite, Limits DEF IInv, TypeOK, CounterInv, CanIncrement
  <2> QED BY <2>1, <2>2
<1>8. Desk!Borrow(u, b)
  <2>1. Desk!Cardinality(Desk!BooksOf(u)) < MaxBooksOnHand
    BY <1>7 DEF Desk!Cardinality, Cardinality
  <2> QED BY <1>3, <1>4, <1>5, <1>6, <2>1 DEF Desk!Borrow, Members, Catalogue, Shelf, OnLoan
<1> QED BY <1>2, <1>8 DEF Desk!Next, Desk!Borrow

LEMMA ReturnGivesBack ==
  ASSUME IInv, NEW r \in Requests, CommitReturn(r)
  PROVE  Desk!Next
<1>1. PICK u, b, l : u = req[r].user /\ b = req[r].book /\ l = req[r].loan
  OBVIOUS
<1> TypeOK
  BY DEF IInv
<1>2. /\ u \in Users /\ b \in Books /\ l \in Loans
      /\ Open(l) /\ book_loans[l].user = u /\ book_loans[l].book = b
      /\ book_loans'[l].status = "returned"
      /\ \A k \in Loans \ {l} : book_loans'[k] = book_loans[k]
  BY <1>1, CommitReturnEffect
<1>3. /\ users'[u].live /\ (\A v \in Users \ {u} : users'[v] = users[v])
      /\ books'[b].live /\ books'[b].available = books[b].available + 1
      /\ \A v \in Books \ {b} : books'[v] = books[v]
  BY <1>1, CommitReturnEffect
<1>4. users[u].live /\ books[b].live
  BY <1>2 DEF IInv, LoanRowsInv, Stored, Open
<1>5. Members' = Members /\ Catalogue' = Catalogue
  BY <1>2, <1>3, <1>4 DEF Members, Catalogue
<1>6. Shelf' = [Shelf EXCEPT ![b] = @ + 1]
  BY <1>2, <1>3 DEF Shelf
<1>7. OnLoan' = OnLoan \ {<<u, b>>}
  <2>1. ~Open(l)'
    BY <1>2 DEF Open
  <2>2. \A k \in Loans \ {l} : Open(k)' = Open(k) /\ book_loans'[k] = book_loans[k]
    BY <1>2 DEF Open
  <2>3. \A k \in Loans \ {l} : Open(k) => ~(book_loans[k].user = u /\ book_loans[k].book = b)
    BY <1>2 DEF IInv, OneOpenLoanPerBook
  <2>4. ASSUME NEW x, NEW y PROVE <<x, y>> \in OnLoan' <=> <<x, y>> \in OnLoan /\ <<x, y>> # <<u, b>>
    BY <1>2, <2>1, <2>2, <2>3, OnLoanPairs
  <2>5. \A p \in OnLoan \cup OnLoan' : \E x, y : p = <<x, y>>
    BY DEF OnLoan
  <2> QED BY <2>4, <2>5
<1>8. b \in Desk!BooksOf(u)
  <2>1. <<u, b>> \in OnLoan
    BY <1>2, OnLoanPairs
  <2> QED BY <1>2, <2>1 DEF Desk!BooksOf, OnLoan
<1>9. Desk!GiveBack(u, b)
  BY <1>5, <1>6, <1>7, <1>8 DEF Desk!GiveBack, Members, Catalogue, Shelf, OnLoan
<1> QED BY <1>2, <1>9 DEF Desk!Next, Desk!GiveBack

\* What the deletion of a row leaves of the loans.
LEMMA LoansAfterDelete ==
  ASSUME IInv, NEW r \in Requests, CommitDelete(r)
  PROVE  OnLoan' = {loan \in OnLoan : loan[1] # req[r].user /\ loan[2] # req[r].book}
<1>1. PICK u, b : u = req[r].user /\ b = req[r].book
  OBVIOUS
<1>2. ASSUME NEW l \in Loans
      PROVE  /\ Open(l)' => Open(l) /\ book_loans'[l] = book_loans[l]
             /\ Open(l) => (Open(l)' <=> book_loans[l].user # u /\ book_loans[l].book # b)
  <2>1. /\ Open(l)' => Open(l) /\ book_loans'[l] = book_loans[l]
        /\ Open(l) /\ ~Open(l)' => book_loans[l].user = u \/ book_loans[l].book = b
    BY <1>1, DeletedLoans
  <2>2. \/ book_loans'[l] = book_loans[l] /\ l \notin Cascaded(r)
        \/ book_loans'[l].status = "gone"
    BY <1>1, CommitDeleteEffect
  <2>3. Open(l) /\ l \notin Cascaded(r) => book_loans[l].user # u /\ book_loans[l].book # b
    BY <1>1 DEF Cascaded, Open, Stored
  <2>4. book_loans'[l].status = "gone" => ~Open(l)'
    BY DEF Open
  <2> QED BY <2>1, <2>2, <2>3, <2>4
<1>3. ASSUME NEW x, NEW y PROVE <<x, y>> \in OnLoan' <=> <<x, y>> \in OnLoan /\ x # u /\ y # b
  BY <1>2, OnLoanPairs
<1>4. \A p \in OnLoan \cup OnLoan' : \E x, y : p = <<x, y>>
  BY DEF OnLoan
<1> QED BY <1>1, <1>3, <1>4

LEMMA DeleteLeavesOrWithdraws ==
  ASSUME IInv, NEW r \in Requests, CommitDelete(r)
  PROVE  Desk!Next
<1>1. PICK u, b : u = req[r].user /\ b = req[r].book
  OBVIOUS
<1> TypeOK
  BY DEF IInv
<1>2. None \notin Books /\ None \notin Users
  BY DistinctIdentities DEF Rows
<1>3. OnLoan' = {loan \in OnLoan : loan[1] # u /\ loan[2] # b}
  BY <1>1, LoansAfterDelete
<1>4. \A loan \in OnLoan : loan[1] \in Users /\ loan[2] \in Books
  BY DEF OnLoan, IInv, LoanRowsInv, Open, Stored
<1>5. CASE Committing(r, "delete_user")
  <2>1. u \in Users /\ b = None /\ users[u].live
    BY <1>1, <1>5, Answered DEF Committing, At, DeleteInv
  <2>2. ~users'[u].live /\ books' = books /\ \A v \in Users \ {u} : users'[v] = users[v]
    BY <1>1, <1>2, <2>1, CommitDeleteEffect
  <2>3. u \in Members /\ Members' = Members \ {u} /\ Catalogue' = Catalogue /\ Shelf' = Shelf
    BY <2>1, <2>2 DEF Members, Catalogue, Shelf
  <2>4. OnLoan' = {loan \in OnLoan : loan[1] # u}
    BY <1>2, <1>3, <1>4, <2>1
  <2>5. Desk!Leave(u)
    BY <2>3, <2>4 DEF Desk!Leave, Members, Catalogue, Shelf, OnLoan
  <2> QED BY <2>1, <2>5 DEF Desk!Next, Desk!Leave
<1>6. CASE Committing(r, "delete_book")
  <2>1. b \in Books /\ u = None /\ books[b].live
    BY <1>1, <1>6, Answered DEF Committing, At, DeleteInv
  <2>2. ~books'[b].live /\ users' = users /\ \A v \in Books \ {b} : books'[v] = books[v]
    BY <1>1, <1>2, <2>1, CommitDeleteEffect
  <2>3. books'[b].available = 0
    BY <1>1, <1>6, <2>1 DEF CommitDelete, Committing, TypeOK
  <2>4. b \in Catalogue /\ Catalogue' = Catalogue \ {b} /\ Members' = Members
    BY <2>1, <2>2 DEF Members, Catalogue
  <2>5. Shelf' = [Shelf EXCEPT ![b] = 0]
    <3>1. \A v \in Books : books'[v].available = IF v = b THEN 0 ELSE books[v].available
      BY <2>2, <2>3
    <3> QED BY <2>1, <3>1 DEF Shelf
  <2>6. OnLoan' = {loan \in OnLoan : loan[2] # b}
    BY <1>2, <1>3, <1>4, <2>1
  <2>7. Desk!Withdraw(b)
    BY <2>4, <2>5, <2>6 DEF Desk!Withdraw, Members, Catalogue, Shelf, OnLoan
  <2> QED BY <2>1, <2>7 DEF Desk!Next, Desk!Withdraw
<1> QED BY <1>5, <1>6 DEF CommitDelete

LEMMA SetCopiesSetsShelf ==
  ASSUME IInv, NEW r \in Requests, CommitSetCopies(r)
  PROVE  Desk!Next
<1>0. PICK b, n : b = req[r].book /\ n = req[r].copies
  OBVIOUS
<1> TypeOK
  BY DEF IInv
<1>1. /\ b \in Books /\ books[b].live /\ n \in 0 .. MaxCopies
      /\ users' = users /\ book_loans' = book_loans
  BY <1>0, Answered DEF CommitSetCopies, Committing, At, CopiesInv, TypeOK, RequestType
<1>2. /\ books'[b].live /\ books'[b].available = n
      /\ \A v \in Books \ {b} : books'[v] = books[v]
  <2>1. books' = [books EXCEPT ![b] = [books[b] EXCEPT !.available = n]]
    BY <1>0 DEF CommitSetCopies
  <2>2. books[b] \in BookRow /\ n \in Nat
    BY <1>1 DEF TypeOK, BookRow
  <2> QED BY <1>1, <2>1, <2>2 DEF TypeOK, BookRow
<1>3. Members' = Members /\ Catalogue' = Catalogue /\ OnLoan' = OnLoan /\ b \in Catalogue
  BY <1>1, <1>2 DEF Members, Catalogue, OnLoan, Open
<1>4. Shelf' = [Shelf EXCEPT ![b] = n]
  BY <1>1, <1>2 DEF Shelf
<1>5. Desk!SetShelf(b, n)
  BY <1>3, <1>4 DEF Desk!SetShelf, Members, Catalogue, Shelf, OnLoan
<1> QED BY <1>1, <1>5 DEF Desk!Next, Desk!SetShelf

\* The behaviours of Circulation, seen through its tables, are behaviours of
\* Lending: each request that commits is one step of the desk and the statements
\* before it do not show (book_use_cases.py:99-147).
THEOREM ImplementsLendingHolds == Spec => ImplementsLending
<1>1. Init => Desk!Init
  <2> SUFFICES ASSUME Init PROVE Desk!Init
    OBVIOUS
  <2>1. \A l \in Loans : ~Open(l)
    BY DEF Init, Open, NoLoan
  <2>2. Members = Users /\ Catalogue = Books /\ OnLoan = {}
    BY <2>1 DEF Init, Members, Catalogue, OnLoan
  <2>3. Shelf = Stock
    BY Limits DEF Init, Shelf
  <2> QED BY <2>2, <2>3 DEF Desk!Init, Members, Catalogue, Shelf, OnLoan
<1>2. IInv /\ [Next]_vars => [Desk!Next]_(Desk!desk)
  <2> SUFFICES ASSUME IInv, [Next]_vars PROVE Desk!Next \/ UNCHANGED Desk!desk
    OBVIOUS
  <2>1. CASE UNCHANGED tables
    BY <2>1 DEF tables, Desk!desk, Open
  <2>2. ASSUME NEW r \in Requests, CommitIssue(r) \/ CommitReturn(r) \/ CommitDelete(r) \/ CommitSetCopies(r)
        PROVE  Desk!Next
    BY <2>2, IssueBorrows, ReturnGivesBack, DeleteLeavesOrWithdraws, SetCopiesSetsShelf
  <2> QED BY <2>1, <2>2, TablesChangeByCommit
<1> QED BY <1>1, <1>2, InductiveInvariant, PTL DEF Spec, ImplementsLending, Desk!Spec

=============================================================================
