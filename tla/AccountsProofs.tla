--------------------------- MODULE AccountsProofs ---------------------------
(***************************************************************************)
(* The invariants of Accounts, its refinement of Directory, and what its   *)
(* refusals and deadlocks mean, for every number of users, names,          *)
(* addresses and concurrent requests.                                      *)
(***************************************************************************)
EXTENDS Accounts, Waits

-----------------------------------------------------------------------------
(* Operations, and the end of a transaction *)

LEMMA OpFacts ==
  /\ None \notin Ops /\ Null \in GivenNames /\ None \in GivenNames
  /\ "register" \in Ops /\ "update_user" \in Ops /\ "delete_user" \in Ops /\ "login" \in Ops
BY DistinctIdentities DEF Ops, GivenNames

\* What the end of the transaction of r releases, and what it leaves to others.
LEMMA Released ==
  ASSUME TypeOK, NEW r \in Requests
  PROVE  /\ LocksWithout(r) \in [Users -> Requests \cup {None}]
         /\ \A x \in Users : LocksWithout(r)[x] # r
         /\ \A s \in Requests \ {r}, x \in Users : LocksWithout(r)[x] = s <=> lock[x] = s
BY DistinctIdentities DEF TypeOK, LocksWithout

-----------------------------------------------------------------------------
(* Requests other than the one that takes the step *)

\* What a step of r does to another request s: it takes no lock from it, gives
\* it none, and changes no row that s has locked or is about to insert.
Spares(s) ==
  /\ pc'[s] = pc[s] /\ req'[s] = req[s]
  /\ \A x \in Users : lock'[x] = s <=> lock[x] = s
  /\ \A x \in Users : lock[x] = s /\ Live(x) => users'[x] = users[x]
  /\ Committing(s, "register") => users'[req[s].row] = users[req[s].row]

Frame(r) == \A s \in Requests \ {r} : Spares(s)

LEMMA OthersKeepSlot ==
  ASSUME NEW s \in Requests, SlotInv(s), Spares(s)
  PROVE  SlotInv(s)'
<1>1. RegisterInv(s)'
  BY DEF SlotInv, RegisterInv, Spares, Committing, Serving, At
<1>2. UpdateInv(s)'
  BY DEF SlotInv, UpdateInv, Spares, Live, Unstorable
<1>3. DeleteInv(s)' /\ LoginInv(s)' /\ LockInv(s)'
  BY DEF SlotInv, DeleteInv, LoginInv, LockInv, Spares, Live
<1> QED BY <1>1, <1>2, <1>3 DEF SlotInv, Spares

\* Entries are symmetric: what r's entry has to do with the others' is enough.
LEMMA OthersKeepEntry ==
  ASSUME NEW r \in Requests, NEW s \in Requests \ {r}, EntryInv(s), EntryInv(r)', UNCHANGED users,
         \A q \in Requests \ {r} : pc'[q] = pc[q] /\ req'[q] = req[q]
  PROVE  EntryInv(s)'
<1>1. \A q \in Requests \ {r} :
        /\ EmailEntered(q)' = EmailEntered(q) /\ NameEntered(q)' = NameEntered(q)
        /\ Committing(q, "register")' = Committing(q, "register")
        /\ req'[q] = req[q]
  BY DEF EmailEntered, NameEntered, Committing, Serving, At
<1>2. EmailOwners(s)' = EmailOwners(s) /\ NameOwners(s)' = NameOwners(s)
  BY <1>1 DEF EmailOwners, NameOwners, Live
<1> QED BY <1>1, <1>2 DEF EntryInv

\* Steps of r that write no table keep the invariant if they keep r's part of it.
QuietStep(r) == TypeOK' /\ Frame(r) /\ SlotInv(r)' /\ EntryInv(r)' /\ UNCHANGED users

LEMMA QuietStepKeepsIInv ==
  ASSUME IInv, NEW r \in Requests, QuietStep(r)
  PROVE  IInv'
<1>1. \A s \in Requests : SlotInv(s)'
  BY OthersKeepSlot DEF IInv, QuietStep, Frame
<1>2. \A s \in Requests : EntryInv(s)'
  BY OthersKeepEntry DEF IInv, QuietStep, Frame, Spares
<1>3. RowsInv' /\ UniqueAccounts'
  BY DEF IInv, QuietStep, RowsInv, UniqueAccounts, Live
<1> QED BY <1>1, <1>2, <1>3 DEF IInv, QuietStep

-----------------------------------------------------------------------------
(* The ways in which a request goes on *)

\* The slot of r changes, and no row or lock.
Moves(r) ==
  /\ UNCHANGED <<users, lock>>
  /\ \A s \in Requests \ {r} : pc'[s] = pc[s] /\ req'[s] = req[s]

LEMMA MovesFrame ==
  ASSUME NEW r \in Requests, Moves(r)
  PROVE  Frame(r)
BY DEF Moves, Frame, Spares

\* The slot of r is given up, with its locks.
LEMMA ReleaseStep ==
  ASSUME IInv, NEW r \in Requests, NEW statement \in {"idle", "closed"},
         Goto(r, statement), req' = [req EXCEPT ![r] = NoRequest], lock' = LocksWithout(r),
         UNCHANGED users, reply' \in [Requests -> Refusals \cup {None, "ok"}]
  PROVE  QuietStep(r)
<1> TypeOK
  BY DEF IInv
<1>1. /\ pc'[r] = statement /\ req'[r] = NoRequest /\ users' = users
      /\ \A s \in Requests \ {r} : pc'[s] = pc[s] /\ req'[s] = req[s]
  BY DEF Goto, TypeOK
<1>2. TypeOK'
  BY Released DEF TypeOK, Goto, NoRequest, Request, GivenNames, GivenEmails
<1>3. Frame(r)
  BY <1>1, Released DEF Frame, Spares
<1>4. SlotInv(r)'
  BY <1>1, Released, OpFacts
    DEF SlotInv, RegisterInv, UpdateInv, DeleteInv, LoginInv, LockInv, NoRequest, Request
<1>5. EntryInv(r)'
  BY <1>1, OpFacts DEF EntryInv, EmailEntered, NameEntered, Committing, Serving, At, NoRequest, Request, Writes
<1> QED BY <1>1, <1>2, <1>3, <1>4, <1>5 DEF QuietStep

LEMMA RefuseStep ==
  ASSUME IInv, NEW r \in Requests, NEW error \in Refusals, Refuse(r, error)
  PROVE  IInv'
<1>1. reply' \in [Requests -> Refusals \cup {None, "ok"}]
  BY DEF Refuse, IInv, TypeOK
<1> QED BY <1>1, ReleaseStep, QuietStepKeepsIInv DEF Refuse

LEMMA FinishStep ==
  ASSUME IInv, NEW r \in Requests, Finish(r), UNCHANGED users
  PROVE  IInv'
<1>1. reply' \in [Requests -> Refusals \cup {None, "ok"}]
  BY DEF Finish, IInv, TypeOK
<1> QED BY <1>1, ReleaseStep, QuietStepKeepsIInv DEF Finish

LEMMA ContinueStep ==
  ASSUME IInv, NEW r \in Requests, NEW statement \in Statements, Continue(r, statement),
         SlotInv(r)', EntryInv(r)'
  PROVE  IInv'
<1>1. TypeOK' /\ Moves(r)
  BY DEF IInv, TypeOK, Continue, Goto, Moves
<1> QED BY <1>1, MovesFrame, QuietStepKeepsIInv DEF QuietStep, Moves

LEMMA BeginStep ==
  ASSUME IInv, NEW r \in Requests, NEW statement \in Statements, NEW op \in Ops,
         NEW row \in Users \cup {None}, NEW n \in GivenNames \cup Emails, NEW e \in GivenEmails,
         Begin(r, statement, Request(op, row, n, e)), statement \notin {"username", "answered"},
         op = "register" => row = None /\ n \in Names /\ e # None /\ statement = "exists",
         op = "update_user" => row \in Users /\ n \in GivenNames /\ statement = "update",
         op = "delete_user" => row \in Users /\ statement = "delete",
         op = "login" => n \in Names \cup Emails /\ statement = "get_by_identifier"
  PROVE  IInv'
<1> TypeOK /\ SlotInv(r)
  BY DEF IInv
<1>1. /\ pc'[r] = statement /\ req'[r] = Request(op, row, n, e) /\ Moves(r) /\ pc[r] = "idle"
  BY DEF Begin, Goto, TypeOK, Moves, At
<1>2. TypeOK'
  BY DEF TypeOK, Begin, Goto, Request
<1>3. \A x \in Users : lock'[x] # r
  BY <1>1, OpFacts DEF SlotInv, LockInv, Moves
<1>4. SlotInv(r)'
  BY <1>1, <1>3, OpFacts
    DEF SlotInv, RegisterInv, UpdateInv, DeleteInv, LoginInv, LockInv, Request, Statements
<1>5. EntryInv(r)'
  BY <1>1 DEF EntryInv, EmailEntered, NameEntered, Committing, Serving, At, Statements
<1> QED BY <1>1, <1>2, <1>4, <1>5, MovesFrame, QuietStepKeepsIInv DEF QuietStep, Moves

LEMMA ArriveKeepsIInv ==
  ASSUME IInv, NEW r \in Requests, Arrive(r)
  PROVE  IInv'
<1> USE OpFacts DEF Statements
<1>1. ASSUME NEW n \in GivenNames, NEW e \in GivenEmails, BeginRegister(r, n, e)
      PROVE  IInv'
  BY <1>1, BeginStep DEF BeginRegister
<1>2. ASSUME NEW x \in Users, NEW n \in GivenNames, NEW e \in GivenEmails, BeginUpdate(r, x, n, e)
      PROVE  IInv'
  BY <1>2, BeginStep DEF BeginUpdate
<1>3. ASSUME NEW x \in Users, BeginDelete(r, x)
      PROVE  IInv'
  <2>1. None \in GivenNames \cup Emails /\ None \in GivenEmails
    BY DEF GivenNames, GivenEmails
  <2> QED BY <1>3, <2>1, BeginStep DEF BeginDelete
<1>4. ASSUME NEW identifier \in Names \cup Emails, BeginLogin(r, identifier)
      PROVE  IInv'
  <2>1. identifier \in GivenNames \cup Emails /\ None \in GivenEmails /\ None \in Users \cup {None}
    BY DEF GivenNames, GivenEmails
  <2> QED BY <1>4, <2>1, BeginStep DEF BeginLogin
<1> QED BY <1>1, <1>2, <1>3, <1>4 DEF Arrive


-----------------------------------------------------------------------------
(* The statements *)

\* The statement that a request executes belongs to its operation.
LEMMA AtStatement ==
  ASSUME NEW r \in Requests, SlotInv(r), TypeOK
  PROVE  /\ pc[r] \in {"exists", "insert"} => req[r].op = "register"
         /\ pc[r] = "update" => req[r].op = "update_user"
         /\ pc[r] \in {"email", "username"} => req[r].op \in Writes
         /\ pc[r] = "delete" => req[r].op = "delete_user"
         /\ pc[r] = "get_by_identifier" => req[r].op = "login"
<1>1. req[r].op \in Ops \cup {None}
  BY DEF TypeOK
<1> QED BY <1>1, OpFacts
    DEF Ops, SlotInv, RegisterInv, UpdateInv, DeleteInv, LoginInv, Writes

LEMMA ExistsKeepsIInv ==
  ASSUME IInv, NEW r \in Requests, Exists(r)
  PROVE  IInv'
<1> TypeOK /\ SlotInv(r)
  BY DEF IInv
<1>1. CASE Continue(r, "insert")
  <2>1. /\ pc'[r] = "insert" /\ pc[r] = "exists"
        /\ UNCHANGED <<users, req, lock>> /\ "insert" \in Statements
    BY <1>1 DEF Exists, Continue, Goto, At, TypeOK, Statements
  <2>2. SlotInv(r)'
    BY <2>1, AtStatement, OpFacts DEF SlotInv, RegisterInv, UpdateInv, DeleteInv, LoginInv, LockInv
  <2>3. EntryInv(r)'
    BY <2>1 DEF EntryInv, EmailEntered, NameEntered, Committing, Serving, At
  <2> QED BY <1>1, <2>1, <2>2, <2>3, ContinueStep
<1> QED BY <1>1, RefuseStep DEF Exists, Refusals

LEMMA InsertKeepsIInv ==
  ASSUME IInv, NEW r \in Requests, Insert(r)
  PROVE  IInv'
<1> TypeOK /\ SlotInv(r)
  BY DEF IInv
<1>1. CASE req[r].email # TooLong /\ Continue(r, "email")
  <2>1. /\ pc'[r] = "email" /\ pc[r] = "insert"
        /\ UNCHANGED <<users, req, lock>> /\ "email" \in Statements
    BY <1>1 DEF Insert, Continue, Goto, At, TypeOK, Statements
  <2>2. SlotInv(r)'
    BY <1>1, <2>1, AtStatement, OpFacts
      DEF SlotInv, RegisterInv, UpdateInv, DeleteInv, LoginInv, LockInv
  <2>3. EntryInv(r)'
    BY <2>1 DEF EntryInv, EmailEntered, NameEntered, Committing, Serving, At
  <2> QED BY <1>1, <2>1, <2>2, <2>3, ContinueStep
<1> QED BY <1>1, RefuseStep DEF Insert, Refusals

\* A request that locks a free row takes it from nobody.
LEMMA LockStep ==
  ASSUME IInv, NEW r \in Requests, NEW x \in Users, HolderOf(x) = {}, Live(x),
         lock' = [lock EXCEPT ![x] = r], UNCHANGED <<users, req>>,
         \A s \in Requests \ {r} : pc'[s] = pc[s]
  PROVE  /\ Frame(r) /\ lock' \in [Users -> Requests \cup {None}] /\ lock'[x] = r
         /\ \A y \in Users : lock'[y] = r => y = x \/ lock[y] = r
BY DEF IInv, TypeOK, HolderOf, Frame, Spares

LEMMA UpdateKeepsIInv ==
  ASSUME IInv, NEW r \in Requests, Update(r)
  PROVE  IInv'
<1> DEFINE x == req[r].row
<1> TypeOK /\ SlotInv(r) /\ UpdateInv(r) /\ req[r].op = "update_user"
  BY AtStatement DEF IInv, Update, At, SlotInv
<1>1. CASE /\ Live(x) /\ HolderOf(x) = {} /\ ~Unstorable(r)
           /\ lock' = [lock EXCEPT ![x] = r]
           /\ Goto(r, "email") /\ UNCHANGED <<users, req, reply>>
  <2>1. pc'[r] = "email" /\ pc[r] = "update" /\ \A s \in Requests \ {r} : pc'[s] = pc[s]
    BY <1>1 DEF Update, Goto, At, TypeOK
  <2>2. x \in Users
    BY DEF UpdateInv
  <2>3. /\ Frame(r) /\ lock' \in [Users -> Requests \cup {None}] /\ lock'[x] = r
        /\ \A y \in Users : lock'[y] = r => y = x \/ lock[y] = r
    BY <1>1, <2>1, <2>2, LockStep
  <2>4. TypeOK'
    BY <1>1, <2>3 DEF TypeOK, Goto, Statements
  <2>5. SlotInv(r)'
    BY <1>1, <2>1, <2>2, <2>3, OpFacts
      DEF SlotInv, RegisterInv, UpdateInv, DeleteInv, LoginInv, LockInv, Live, Unstorable
  <2>6. EntryInv(r)'
    BY <2>1 DEF EntryInv, EmailEntered, NameEntered, Committing, Serving, At
  <2> QED BY <1>1, <2>3, <2>4, <2>5, <2>6, QuietStepKeepsIInv DEF QuietStep
<1> QED BY <1>1, RefuseStep DEF Update, Refusals, Unstorable

\* Nobody else has the entry that r waited for and did not find.
LEMMA FreeEntry ==
  ASSUME IInv, NEW r \in Requests
  PROVE  /\ HoldersOfEmail(r) = {} =>
              \A s \in Requests \ {r} : EmailEntered(s) => req[s].email # req[r].email
         /\ HoldersOfName(r) = {} =>
              \A s \in Requests \ {r} : NameEntered(s) => req[s].username # req[r].username
BY DEF HoldersOfEmail, HoldersOfName

LEMMA IndexEmailKeepsIInv ==
  ASSUME IInv, NEW r \in Requests, IndexEmail(r)
  PROVE  IInv'
<1> TypeOK /\ SlotInv(r)
  BY DEF IInv
<1>1. CASE EmailOwners(r) = {} /\ Continue(r, "username")
  <2>1. /\ pc'[r] = "username" /\ pc[r] = "email" /\ UNCHANGED <<users, req, lock>>
        /\ \A s \in Requests \ {r} : pc'[s] = pc[s]
    BY <1>1 DEF IndexEmail, Continue, Goto, At, TypeOK
  <2>2. req[r].op \in Writes
    BY <2>1, AtStatement
  <2>3. SlotInv(r)'
    BY <2>1, <2>2, OpFacts
      DEF SlotInv, RegisterInv, UpdateInv, DeleteInv, LoginInv, LockInv, Live, Unstorable, Writes
  <2>4. /\ \A s \in Requests \ {r} : EmailEntered(s) => req[s].email # req[r].email
        /\ \A s \in Requests \ {r} : EmailEntered(s)' = EmailEntered(s)
    BY <2>1, FreeEntry DEF IndexEmail, EmailEntered
  <2>5. EmailOwners(r)' = {}
    BY <1>1, <2>1 DEF EmailOwners, Live
  <2>6. ~NameEntered(r)' /\ ~Committing(r, "register")'
    BY <2>1 DEF NameEntered, Committing, Serving, At
  <2>7. EntryInv(r)'
    BY <2>1, <2>4, <2>5, <2>6 DEF EntryInv
  <2>8. "username" \in Statements
    BY DEF Statements
  <2> QED BY <1>1, <2>3, <2>7, <2>8, ContinueStep
<1> QED BY <1>1, RefuseStep DEF IndexEmail, Refusals

LEMMA AnswerType ==
  ASSUME TypeOK, NEW r \in Requests, Answer(r)
  PROVE  /\ pc' \in [Requests -> Statements \cup {"idle", "answered", "closed"}]
         /\ reply' \in [Requests -> Refusals \cup {None, "ok"}]
         /\ pc'[r] = "answered" /\ \A s \in Requests \ {r} : pc'[s] = pc[s]
BY DEF TypeOK, Answer, Goto

LEMMA IndexUsernameKeepsIInv ==
  ASSUME IInv, NEW r \in Requests, IndexUsername(r)
  PROVE  IInv'
<1> TypeOK /\ SlotInv(r) /\ EntryInv(r)
  BY DEF IInv
<1>1. ASSUME NameOwners(r) = {}, NEW x \in NewRow(r), req' = [req EXCEPT ![r].row = x],
             Answer(r), UNCHANGED <<users, lock>>
      PROVE  IInv'
  <2>0. pc[r] = "username" /\ req[r].op \in Writes
    BY AtStatement DEF IndexUsername, At
  <2>1. x \in Users
    BY <1>1, <2>0 DEF NewRow, Unused, SlotInv, UpdateInv, Writes
  <2>2. /\ req'[r] = [req[r] EXCEPT !.row = x]
        /\ \A s \in Requests \ {r} : req'[s] = req[s]
    BY <1>1 DEF TypeOK
  <2>3. /\ req'[r].op = req[r].op /\ req'[r].row = x
        /\ req'[r].username = req[r].username /\ req'[r].email = req[r].email
    BY <2>2 DEF TypeOK
  <2>4. TypeOK'
    BY <1>1, <2>1, AnswerType DEF TypeOK
  <2>5. Moves(r)
    BY <1>1, <2>2, AnswerType DEF Moves
  <2>6. SlotInv(r)'
    <3>1. CASE req[r].op = "register"
      <4>1. users[x].status = "none" /\ \A s \in Requests : req[s].row # x
        BY <1>1, <3>1 DEF NewRow, Unused
      <4> QED BY <1>1, <2>0, <2>1, <2>3, <3>1, <4>1, AnswerType, OpFacts
        DEF SlotInv, RegisterInv, UpdateInv, DeleteInv, LoginInv, LockInv
    <3>2. CASE req[r].op = "update_user"
      <4>1. req[r].row = x
        BY <1>1, <3>2 DEF NewRow
      <4> QED BY <1>1, <2>0, <2>1, <2>3, <3>2, <4>1, AnswerType, OpFacts
        DEF SlotInv, RegisterInv, UpdateInv, DeleteInv, LoginInv, LockInv, Live, Unstorable
    <3> QED BY <2>0, <3>1, <3>2 DEF Writes
  <2>7. EntryInv(r)'
    <3>1. /\ \A s \in Requests \ {r} : /\ EmailEntered(s)' = EmailEntered(s)
                                       /\ NameEntered(s)' = NameEntered(s)
                                       /\ Committing(s, "register")' = Committing(s, "register")
          /\ EmailEntered(r)' = EmailEntered(r)
      BY <2>0, <2>2, <2>3, AnswerType, <1>1 DEF EmailEntered, NameEntered, Committing, Serving, At
    <3>2. EmailOwners(r)' \subseteq EmailOwners(r) /\ NameOwners(r)' \subseteq NameOwners(r)
      <4>1. req[r].row \in {x, None}
        BY <1>1, <2>0 DEF NewRow, SlotInv, RegisterInv, Writes
      <4>2. None \notin Users
        BY DistinctIdentities
      <4> QED BY <1>1, <2>3, <4>1, <4>2 DEF EmailOwners, NameOwners, Live
    <3>3. \A s \in Requests \ {r} : NameEntered(s) => req[s].username # req[r].username
      BY FreeEntry DEF IndexUsername
    <3>4. req[r].op = "register" => \A s \in Requests : req[s].row # x
      BY <1>1 DEF NewRow, Unused
    <3>5. Committing(r, "register")' => req[r].op = "register"
      BY <2>3 DEF Committing, Serving
    <3> QED BY <1>1, <2>2, <2>3, <3>1, <3>2, <3>3, <3>4, <3>5 DEF EntryInv
  <2> QED BY <1>1, <2>4, <2>5, <2>6, <2>7, MovesFrame, QuietStepKeepsIInv DEF QuietStep
<1> QED BY <1>1, RefuseStep DEF IndexUsername, Refusals

LEMMA DeleteKeepsIInv ==
  ASSUME IInv, NEW r \in Requests, Delete(r)
  PROVE  IInv'
<1> DEFINE x == req[r].row
<1> TypeOK /\ SlotInv(r) /\ DeleteInv(r) /\ req[r].op = "delete_user"
  BY AtStatement DEF IInv, Delete, At, SlotInv
<1>1. CASE /\ Live(x) /\ HolderOf(x) = {} /\ lock' = [lock EXCEPT ![x] = r]
           /\ Answer(r) /\ UNCHANGED <<users, req>>
  <2>1. pc'[r] = "answered" /\ pc[r] = "delete" /\ x \in Users
    BY <1>1, AnswerType DEF Delete, At, DeleteInv
  <2>2. /\ Frame(r) /\ lock' \in [Users -> Requests \cup {None}] /\ lock'[x] = r
        /\ \A y \in Users : lock'[y] = r => y = x \/ lock[y] = r
    BY <1>1, <2>1, AnswerType, LockStep
  <2>3. TypeOK'
    BY <1>1, <2>2, AnswerType DEF TypeOK
  <2>4. SlotInv(r)'
    BY <1>1, <2>1, <2>2, OpFacts
      DEF SlotInv, RegisterInv, UpdateInv, DeleteInv, LoginInv, LockInv, Live
  <2>5. EntryInv(r)'
    BY <1>1 DEF EntryInv, EmailEntered, NameEntered, Committing, Serving, Writes
  <2> QED BY <1>1, <2>2, <2>3, <2>4, <2>5, QuietStepKeepsIInv DEF QuietStep
<1> QED BY <1>1, RefuseStep DEF Delete, Refusals

LEMMA GetByIdentifierKeepsIInv ==
  ASSUME IInv, NEW r \in Requests, GetByIdentifier(r)
  PROVE  IInv'
<1> TypeOK /\ SlotInv(r)
  BY DEF IInv
<1>1. ASSUME NEW x \in Users, req' = [req EXCEPT ![r].row = x], Answer(r), UNCHANGED <<users, lock>>
      PROVE  IInv'
  <2>1. req[r].op = "login" /\ pc[r] = "get_by_identifier"
    BY AtStatement DEF GetByIdentifier, At
  <2>2. TypeOK'
    <3>1. req' \in [Requests -> [op : Ops \cup {None}, row : Users \cup {None},
                                 username : GivenNames \cup Emails, email : GivenEmails]]
      BY <1>1 DEF TypeOK
    <3> QED BY <1>1, <3>1, AnswerType DEF TypeOK
  <2>6. Moves(r)
    BY <1>1, AnswerType DEF TypeOK, Moves
  <2>3. req'[r].op = "login" /\ req'[r].username = req[r].username
    BY <1>1, <2>1 DEF TypeOK
  <2>4. SlotInv(r)'
    BY <1>1, <2>1, <2>3, AnswerType, OpFacts
      DEF SlotInv, RegisterInv, UpdateInv, DeleteInv, LoginInv, LockInv
  <2>5. EntryInv(r)'
    BY <2>3 DEF EntryInv, EmailEntered, NameEntered, Committing, Serving, Writes
  <2> QED BY <1>1, <2>2, <2>4, <2>5, <2>6, MovesFrame, QuietStepKeepsIInv DEF QuietStep
<1> QED BY <1>1, RefuseStep DEF GetByIdentifier, Refusals

-----------------------------------------------------------------------------
(* The commits *)

RowType == [status : {"none", "live", "gone"},
            username : Names \cup {None}, email : Emails \cup {Null, None}]

\* A commit of r writes row x, which no other transaction holds, and which gets
\* a name and an address that no other row has and nobody else has entered.
CommitFits(r, x, new) ==
  /\ new \in RowType /\ new.status # "none" /\ (new.status = "gone" => Live(x))
  /\ (new.status = "live" <=> new.username # None) /\ (new.status = "live" <=> new.email # None)
  /\ \A s \in Requests \ {r} :
       /\ lock[x] # s
       /\ Committing(s, "register") => req[s].row # x
       /\ EmailEntered(s) => req[s].email # new.email
       /\ NameEntered(s) => req[s].username # new.username
  /\ new.status = "live" => \A y \in Users \ {x} : Live(y) =>
       /\ users[y].username # new.username
       /\ users[y].email # new.email \/ new.email = Null

Commits(r) ==
  \E x \in Users, new \in RowType :
    CommitFits(r, x, new) /\ users' = [users EXCEPT ![x] = new] /\ Finish(r)

LEMMA CommitStep ==
  ASSUME IInv, NEW r \in Requests, NEW x \in Users, NEW new, CommitFits(r, x, new),
         users' = [users EXCEPT ![x] = new], Finish(r)
  PROVE  IInv'
<1> TypeOK
  BY DEF IInv
<1>1. /\ pc'[r] = "idle" /\ req'[r] = NoRequest
      /\ \A s \in Requests \ {r} : pc'[s] = pc[s] /\ req'[s] = req[s]
      /\ users'[x] = new /\ \A y \in Users \ {x} : users'[y] = users[y]
  BY DEF Finish, Goto, TypeOK
<1>2. TypeOK'
  BY Released DEF TypeOK, CommitFits, RowType, Finish, Goto, NoRequest, Request, GivenNames, GivenEmails
<1>3. RowsInv'
  BY <1>1 DEF IInv, RowsInv, Live, CommitFits
<1>4. UniqueAccounts'
  BY <1>1 DEF IInv, UniqueAccounts, Live, CommitFits
<1>5. lock' = LocksWithout(r)
  BY DEF Finish
<1>6. \A s \in Requests \ {r} : SlotInv(s)'
  <2>1. ASSUME NEW s \in Requests \ {r} PROVE Spares(s)
    <3>1. Committing(s, "register") => req[s].row \in Users \ {x}
      BY DEF IInv, SlotInv, RegisterInv, Committing, Serving, At, CommitFits
    <3> QED BY <1>1, <1>5, <3>1, Released DEF Spares, CommitFits
  <2> QED BY <2>1, OthersKeepSlot DEF IInv
<1>7. SlotInv(r)'
  BY <1>1, <1>5, Released, OpFacts
    DEF SlotInv, RegisterInv, UpdateInv, DeleteInv, LoginInv, LockInv, NoRequest, Request
<1>8. ~EmailEntered(r)' /\ ~NameEntered(r)' /\ ~Committing(r, "register")'
  BY <1>1, OpFacts DEF EmailEntered, NameEntered, Committing, Serving, At, NoRequest, Request, Writes
<1>9. ASSUME NEW s \in Requests \ {r} PROVE EntryInv(s)'
  <2>1. \A q \in Requests \ {r} :
          /\ EmailEntered(q)' = EmailEntered(q) /\ NameEntered(q)' = NameEntered(q)
          /\ Committing(q, "register")' = Committing(q, "register")
          /\ req'[q] = req[q]
    BY <1>1 DEF EmailEntered, NameEntered, Committing, Serving, At
  <2>2. EntryInv(s)
    BY DEF IInv
  <2>3. EmailEntered(s) => EmailOwners(s)' = {}
    BY <1>1, <2>1, <2>2 DEF EntryInv, EmailOwners, Live, CommitFits
  <2>4. NameEntered(s) => NameOwners(s)' = {}
    BY <1>1, <2>1, <2>2 DEF EntryInv, NameOwners, Live, CommitFits
  <2> QED BY <1>8, <2>1, <2>2, <2>3, <2>4 DEF EntryInv
<1> QED BY <1>2, <1>3, <1>4, <1>6, <1>7, <1>8, <1>9 DEF IInv, EntryInv

LEMMA CommitRegisterCommits ==
  ASSUME IInv, NEW r \in Requests, CommitRegister(r)
  PROVE  Commits(r)
<1> DEFINE x == req[r].row
           new == [status |-> "live", username |-> req[r].username, email |-> req[r].email]
<1>1. TypeOK /\ SlotInv(r) /\ EntryInv(r)
  BY DEF IInv
<1>2. /\ pc[r] = "answered" /\ req[r].op = "register" /\ Committing(r, "register")
      /\ x \in Users /\ users[x].status = "none"
      /\ req[r].username \in Names /\ req[r].email \in Emails \cup {Null}
  BY <1>1 DEF CommitRegister, Committing, Serving, At, SlotInv, RegisterInv, TypeOK, GivenEmails
<1>3. NameEntered(r) /\ (req[r].email # Null => EmailEntered(r))
  BY <1>2 DEF NameEntered, EmailEntered, Writes
<1>4. new \in RowType /\ new.username # None /\ new.email # None
  BY <1>2, DistinctIdentities DEF RowType
<1>5. \A s \in Requests \ {r} : lock[x] # s
  BY <1>2, OpFacts DEF IInv, SlotInv, LockInv, UpdateInv, DeleteInv, Live
<1>6. \A s \in Requests \ {r} :
        /\ Committing(s, "register") => req[s].row # x
        /\ EmailEntered(s) => req[s].email # new.email
        /\ NameEntered(s) => req[s].username # new.username
  BY <1>1, <1>2, <1>3, DistinctIdentities DEF EntryInv, EmailEntered
<1>7. \A y \in Users \ {x} : Live(y) =>
        /\ users[y].username # new.username
        /\ users[y].email # new.email \/ new.email = Null
  BY <1>1, <1>2, <1>3 DEF EntryInv, NameOwners, EmailOwners
<1>8. CommitFits(r, x, new)
  BY <1>4, <1>5, <1>6, <1>7 DEF CommitFits
<1> QED BY <1>2, <1>4, <1>8 DEF CommitRegister, Commits

LEMMA CommitUpdateCommits ==
  ASSUME IInv, NEW r \in Requests, CommitUpdate(r)
  PROVE  Commits(r)
<1> DEFINE x == req[r].row
           n == IF req[r].username = None THEN users[x].username ELSE req[r].username
           e == IF req[r].email = None THEN users[x].email ELSE req[r].email
           new == [users[x] EXCEPT !.username = n, !.email = e]
<1>1. TypeOK /\ SlotInv(r) /\ EntryInv(r) /\ RowsInv /\ UniqueAccounts
  BY DEF IInv
<1>2. /\ pc[r] = "answered" /\ req[r].op = "update_user" /\ x \in Users
      /\ Live(x) /\ lock[x] = r
      /\ req[r].username \in Names \cup {None} /\ req[r].email \in Emails \cup {Null, None}
  BY <1>1 DEF CommitUpdate, Committing, Serving, At, SlotInv, UpdateInv, TypeOK,
              GivenNames, GivenEmails, Unstorable
<1>3. /\ req[r].username # None => NameEntered(r)
      /\ req[r].email \notin {Null, None} => EmailEntered(r)
  BY <1>2 DEF NameEntered, EmailEntered, Writes
<1>4. n \in Names /\ e \in Emails \cup {Null} /\ users[x] \in RowType
  BY <1>1, <1>2, DistinctIdentities DEF RowsInv, TypeOK, RowType
<1>5. users' = [users EXCEPT ![x] = new]
  <2> DEFINE both == [[users EXCEPT ![x].username = n] EXCEPT ![x].email = e]
  <2>1. users' = both
    BY <1>1, <1>2 DEF CommitUpdate, TypeOK, RowType
  <2>2. both \in [Users -> RowType] /\ \A y \in Users \ {x} : both[y] = users[y]
    BY <1>1, <1>4 DEF TypeOK, RowType
  <2>4. both[x] = new
    BY <1>1, <1>2 DEF TypeOK, RowType
  <2> HIDE DEF both, new
  <2> QED BY <1>1, <1>2, <2>1, <2>2, <2>4 DEF TypeOK
<1>6. /\ new \in RowType /\ new.status = "live"
      /\ new.username = n /\ n # None /\ new.email = e /\ e # None
  BY <1>2, <1>4, DistinctIdentities DEF RowType, Live
<1>7. ASSUME NEW s \in Requests \ {r}
      PROVE  /\ lock[x] # s
             /\ Committing(s, "register") => req[s].row # x
             /\ EmailEntered(s) => req[s].email # e
             /\ NameEntered(s) => req[s].username # n
  <2>1. SlotInv(s) /\ EntryInv(s)
    BY DEF IInv
  <2>2. lock[x] # s
    BY <1>2
  <2>3. Committing(s, "register") => req[s].row # x
    BY <1>2, <2>1 DEF SlotInv, RegisterInv, Committing, Serving, At, Live
  <2>4. EmailEntered(s) \/ NameEntered(s) => req[s].row # x
    <3>1. CASE req[s].op = "register" /\ pc[s] = "username"
      BY <1>2, <2>1, <3>1, DistinctIdentities DEF SlotInv, RegisterInv
    <3>2. CASE req[s].op = "register" /\ pc[s] = "answered"
      BY <2>3, <3>2 DEF Committing, Serving, At
    <3>3. CASE req[s].op = "update_user" /\ pc[s] \in {"username", "answered"}
      BY <2>1, <2>2, <3>3 DEF SlotInv, UpdateInv
    <3> QED BY <3>1, <3>2, <3>3 DEF EmailEntered, NameEntered, Writes
  <2>5. EmailEntered(s) => req[s].email # users[x].email
    BY <1>2, <2>1, <2>4, DistinctIdentities DEF EntryInv, EmailOwners, EmailEntered
  <2>6. NameEntered(s) => req[s].username # users[x].username
    BY <1>2, <2>1, <2>4 DEF EntryInv, NameOwners
  <2>7. EmailEntered(s) => req[s].email # e
    BY <1>1, <1>2, <1>3, <2>5, DistinctIdentities DEF EntryInv, EmailEntered
  <2>8. NameEntered(s) => req[s].username # n
    BY <1>1, <1>3, <2>6 DEF EntryInv
  <2> QED BY <2>2, <2>3, <2>7, <2>8
<1>8. \A y \in Users \ {x} : Live(y) => users[y].username # n /\ (users[y].email # e \/ e = Null)
  BY <1>1, <1>2, <1>3 DEF EntryInv, NameOwners, EmailOwners, UniqueAccounts
<1>9. CommitFits(r, x, new)
  BY <1>6, <1>7, <1>8 DEF CommitFits
<1> HIDE DEF new, x
<1> QED BY <1>2, <1>5, <1>6, <1>9 DEF CommitUpdate, Commits

LEMMA CommitDeleteCommits ==
  ASSUME IInv, NEW r \in Requests, CommitDelete(r)
  PROVE  Commits(r)
<1> DEFINE x == req[r].row
           new == [status |-> "gone", username |-> None, email |-> None]
<1>1. TypeOK /\ SlotInv(r)
  BY DEF IInv
<1>2. x \in Users /\ Live(x) /\ lock[x] = r
  BY <1>1 DEF CommitDelete, Committing, Serving, At, SlotInv, DeleteInv
<1>3. \A s \in Requests \ {r} :
        /\ lock[x] # s
        /\ Committing(s, "register") => req[s].row # x
        /\ EmailEntered(s) => req[s].email # None
        /\ NameEntered(s) => req[s].username # None
  BY <1>2, DistinctIdentities
    DEF IInv, SlotInv, RegisterInv, Committing, Serving, At, Live, EmailEntered, NameEntered
<1>4. CommitFits(r, x, new)
  BY <1>2, <1>3 DEF CommitFits, RowType
<1> QED BY <1>2, <1>4 DEF CommitDelete, Commits, CommitFits

-----------------------------------------------------------------------------
(* The invariants *)

LEMMA EndKeepsIInv ==
  ASSUME IInv, NEW r \in Requests, Close(r) \/ Fault(r) \/ DeadlockVictim(r)
  PROVE  IInv'
BY RefuseStep, FinishStep DEF Close, Fault, DeadlockVictim, Refusals

LEMMA InitIInv == Init => IInv
<1> SUFFICES ASSUME Init PROVE IInv
  OBVIOUS
<1>1. TypeOK
  BY DEF Init, TypeOK, NoRow, NoRequest, Request, GivenNames, GivenEmails
<1>2. \A r \in Requests : SlotInv(r)
  BY OpFacts, DistinctIdentities
     DEF Init, SlotInv, RegisterInv, UpdateInv, DeleteInv, LoginInv, LockInv, NoRequest, Request
<1>3. \A r \in Requests : EntryInv(r)
  BY DEF Init, EntryInv, EmailEntered, NameEntered, Committing, Serving, At
<1>4. RowsInv /\ UniqueAccounts
  BY DEF Init, RowsInv, UniqueAccounts, Live, NoRow
<1> QED BY <1>1, <1>2, <1>3, <1>4 DEF IInv

LEMMA StutterKeepsIInv ==
  ASSUME IInv, UNCHANGED vars
  PROVE  IInv'
<1>1. TypeOK' /\ RowsInv' /\ UniqueAccounts'
  BY DEF IInv, vars, TypeOK, RowsInv, UniqueAccounts, Live
<1>2. ASSUME NEW r \in Requests PROVE SlotInv(r)'
  BY OthersKeepSlot DEF IInv, vars, Spares
<1>3. ASSUME NEW r \in Requests PROVE EntryInv(r)'
  BY DEF IInv, vars, EntryInv, EmailEntered, NameEntered, Committing, Serving, At, EmailOwners,
         NameOwners, Live
<1> QED BY <1>1, <1>2, <1>3 DEF IInv

\* Rows, locks and index entries always fit the statements that the requests
\* have reached (sqlalchemy_user_repository.py).
THEOREM InductiveInvariant == Spec => []IInv
<1>1. ASSUME IInv, [Next]_vars PROVE IInv'
  <2>1. CASE UNCHANGED vars
    BY <1>1, <2>1, StutterKeepsIInv
  <2>2. ASSUME NEW r \in Requests, Arrive(r) \/ Serve(r) \/ Fault(r) \/ DeadlockVictim(r)
        PROVE  IInv'
    BY <1>1, <2>2, ArriveKeepsIInv, ExistsKeepsIInv, InsertKeepsIInv, UpdateKeepsIInv,
       IndexEmailKeepsIInv, IndexUsernameKeepsIInv, DeleteKeepsIInv, GetByIdentifierKeepsIInv,
       CommitRegisterCommits, CommitUpdateCommits, CommitDeleteCommits, CommitStep, EndKeepsIInv
       DEF Serve, Commits
  <2> QED BY <1>1, <2>1, <2>2 DEF Next
<1> QED BY <1>1, InitIInv, PTL DEF Spec

\* No two accounts ever share a name or an address, for any number of
\* registrations and profile updates at the same time.
THEOREM UniqueAccountsHolds == Spec => []UniqueAccounts
<1>1. IInv => UniqueAccounts
  BY DEF IInv
<1> QED BY <1>1, InductiveInvariant, PTL

-----------------------------------------------------------------------------
(* Refusals *)

LEMMA TwoElements ==
  ASSUME NEW S, Cardinality(S) > 1
  PROVE  \E a, b \in S : a # b
<1> SUFFICES ASSUME \A a, b \in S : a = b PROVE FALSE
  OBVIOUS
<1>1. S = {} \/ \E a : S = {a}
  OBVIOUS
<1>2. ASSUME NEW a, S = {a} PROVE FALSE
  BY <1>2, FS_Singleton
<1>3. CASE S = {}
  BY <1>3, FS_EmptySet
<1> QED BY <1>1, <1>2, <1>3

\* An account is found by its name or its address only: two of them, by one each.
LEMMA TwoFoundAreAmbiguous ==
  ASSUME IInv, NEW r \in Requests, pc[r] = "get_by_identifier",
         Cardinality(Identified(req[r].username)) > 1
  PROVE  Ambiguous(r)
<1>1. PICK x, y \in Identified(req[r].username) : x # y
  BY TwoElements
<1>2. /\ x \in Users /\ y \in Users /\ Live(x) /\ Live(y)
      /\ req[r].username \in {users[x].username, users[x].email}
      /\ req[r].username \in {users[y].username, users[y].email}
  BY DEF Identified
<1>3. CASE users[x].username = req[r].username
  <2>1. users[y].email = req[r].username
    BY <1>1, <1>2, <1>3 DEF IInv, UniqueAccounts
  <2> QED BY <1>1, <1>2, <1>3, <2>1 DEF Ambiguous
<1>4. CASE users[x].email = req[r].username /\ users[y].username = req[r].username
  BY <1>1, <1>2, <1>4 DEF Ambiguous
<1>5. CASE users[x].email = req[r].username /\ users[y].email = req[r].username
  <2>1. req[r].username # Null
    BY DistinctIdentities, AtStatement DEF IInv, SlotInv, LoginInv
  <2> QED BY <1>1, <1>2, <1>5, <2>1 DEF IInv, UniqueAccounts
<1> QED BY <1>2, <1>3, <1>4, <1>5

LEMMA RefusalGrounds ==
  ASSUME TypeOK, NEW s \in Requests, NEW error \in Refusals, Refuse(s, error), Grounds(s, error),
         NEW r \in Requests, reply'[r] # reply[r]
  PROVE  Grounds(r, reply'[r])
BY DEF Refuse, TypeOK

LEMMA NoRefusal ==
  ASSUME TypeOK, NEW s \in Requests, NEW answer \in {"ok", None},
         reply' = [reply EXCEPT ![s] = answer], NEW r \in Requests, reply'[r] # reply[r]
  PROVE  Grounds(r, reply'[r])
<1>1. reply'[r] \in {"ok", None}
  BY DEF TypeOK
<1> QED BY <1>1, DistinctIdentities DEF Grounds, Refusals

\* An error that is sent to a client has its grounds.
LEMMA ErrorHasGrounds ==
  ASSUME IInv, NEW s \in Requests, NEW error \in Refusals, Refuse(s, error),
         Serve(s) \/ Fault(s) \/ DeadlockVictim(s)
  PROVE  Grounds(s, error)
<1> TypeOK /\ SlotInv(s) /\ error # None /\ reply'[s] = error
  BY DistinctIdentities DEF IInv, Refuse, TypeOK
<1> USE OpFacts DEF Refusals
<1> pc'[s] = "closed"
  BY DEF Refuse, Goto, TypeOK
<1>1. CASE Exists(s)
  <2>1. req[s].op = "register" /\ reply'[s] \in {"UserAlreadyExists", "InternalServerError"}
    BY <1>1, AtStatement DEF Exists, At, Continue, Goto, Refuse, TypeOK
  <2>2. NameOwners(s) \cup EmailOwners(s) # {}
    <3>1. ~Continue(s, "insert")
      BY DEF Continue, Goto, TypeOK
    <3>2. Cardinality({}) = 0
      BY FS_EmptySet
    <3>3. \E n \in {1} : Cardinality(NameOwners(s) \cup EmailOwners(s)) = n
                        \/ Cardinality(NameOwners(s) \cup EmailOwners(s)) > 1
      BY <1>1, <3>1 DEF Exists
    <3> QED BY <3>2, <3>3
  <2> QED BY <2>1, <2>2 DEF Grounds, Taken
<1>2. CASE Insert(s) \/ Update(s)
  <2>1. req[s].op \in Writes
    BY <1>2, AtStatement DEF Insert, Update, At, Writes
  <2>2. \/ error = "UserNotFound"
        \/ error = "InternalServerError" /\ Unstorable(s)
    BY <1>2 DEF Insert, Update, Continue, Goto, Refuse, TypeOK, Unstorable
  <2> QED BY <2>1, <2>2 DEF Grounds, Writes
<1>3. CASE IndexEmail(s) \/ IndexUsername(s)
  <2>1. req[s].op \in Writes
    BY <1>3, AtStatement DEF IndexEmail, IndexUsername, At
  <2>2. error = "InternalServerError" /\ Taken(s)
    BY <1>3 DEF IndexEmail, IndexUsername, Continue, Answer, Goto, Refuse, TypeOK, Taken
  <2> QED BY <2>1, <2>2 DEF Grounds, Writes
<1>4. CASE Delete(s)
  BY <1>4 DEF Delete, Answer, Goto, Refuse, TypeOK, Grounds
<1>5. CASE GetByIdentifier(s)
  <2>1. req[s].op = "login" /\ pc[s] = "get_by_identifier"
    BY <1>5, AtStatement DEF GetByIdentifier, At
  <2>2. \/ error = "InvalidCredentials" /\ Identified(req[s].username) = {}
        \/ error = "InternalServerError" /\ Cardinality(Identified(req[s].username)) > 1
    BY <1>5 DEF GetByIdentifier, Answer, Goto, Refuse, TypeOK
  <2> QED BY <2>1, <2>2, TwoFoundAreAmbiguous DEF Grounds
<1>6. CASE CommitRegister(s) \/ CommitUpdate(s) \/ CommitDelete(s) \/ Close(s)
  BY <1>6 DEF CommitRegister, CommitUpdate, CommitDelete, Close, Finish, Goto, TypeOK
<1>7. CASE Fault(s)
  <2>1. error = "ConnectionLost"
    BY <1>7 DEF Fault, Finish, Goto, Refuse, TypeOK
  <2> QED BY <2>1 DEF Grounds
<1>8. CASE DeadlockVictim(s)
  <2>1. error = "InternalServerError" /\ Deadlocked(s)
    BY <1>8 DEF DeadlockVictim, Refuse, TypeOK
  <2>2. WaitsFor(s) # {}
    BY <2>1 DEF Deadlocked
  <2>3. req[s].op # "login"
    BY <2>2 DEF WaitsFor, SlotInv, LoginInv
  <2> QED BY <2>1, <2>3 DEF Grounds
<1> QED BY <1>1, <1>2, <1>3, <1>4, <1>5, <1>6, <1>7, <1>8 DEF Serve

\* Every step leaves the answers alone, refuses, answers, or frees a slot.
LEMMA ReplyChanges ==
  ASSUME NEW s \in Requests, Arrive(s) \/ Serve(s) \/ Fault(s) \/ DeadlockVictim(s)
  PROVE  \/ UNCHANGED reply
         \/ \E answer \in {"ok", None} : reply' = [reply EXCEPT ![s] = answer]
         \/ /\ \E error \in Refusals : Refuse(s, error)
            /\ Serve(s) \/ Fault(s) \/ DeadlockVictim(s)
<1> USE DEF Refusals
<1>1. CASE Arrive(s)
  BY <1>1 DEF Arrive, BeginRegister, BeginUpdate, BeginDelete, BeginLogin, Begin
<1>2. CASE Fault(s) \/ DeadlockVictim(s)
  BY <1>2 DEF Fault, DeadlockVictim, Finish
<1>3. CASE Exists(s) \/ Insert(s) \/ Update(s) \/ IndexEmail(s)
  BY <1>3 DEF Serve, Exists, Insert, Update, IndexEmail, Continue
<1>4. CASE IndexUsername(s) \/ Delete(s) \/ GetByIdentifier(s)
  BY <1>4 DEF Serve, IndexUsername, Delete, GetByIdentifier, Answer
<1>5. CASE CommitRegister(s) \/ CommitUpdate(s) \/ CommitDelete(s) \/ Close(s)
  BY <1>5 DEF CommitRegister, CommitUpdate, CommitDelete, Close, Finish
<1> QED BY <1>1, <1>2, <1>3, <1>4, <1>5 DEF Serve

\* A client is only refused for a reason that holds in committed rows, or as the
\* victim of a deadlock (sqlalchemy_user_repository.py:40-56, 119-127).
THEOREM RefusalIsRealHolds == Spec => RefusalIsReal
<1>1. ASSUME IInv, [Next]_vars, NEW r \in Requests, reply'[r] # reply[r]
      PROVE  Grounds(r, reply'[r])
  <2>1. PICK s \in Requests : Arrive(s) \/ Serve(s) \/ Fault(s) \/ DeadlockVictim(s)
    BY <1>1 DEF Next, vars
  <2> QED BY <1>1, <2>1, ReplyChanges, NoRefusal, ErrorHasGrounds, RefusalGrounds DEF IInv
<1>2. IInv /\ [Next]_vars =>
        [\A r \in Requests : reply'[r] # reply[r] => Grounds(r, reply'[r])]_vars
  BY <1>1
<1> QED BY <1>2, InductiveInvariant, PTL DEF Spec, RefusalIsReal

-----------------------------------------------------------------------------
(* Deadlocks *)

\* A set of requests that wait for nobody outside it.
Closed(S) == \A s \in S : WaitsFor(s) \subseteq S

\* The requests that can end without r.
Free(r) == {t \in Requests : \E T \in SUBSET Requests : Closed(T) /\ t \in T /\ r \notin T}

LEMMA FreeIsClosed ==
  ASSUME NEW r \in Requests
  PROVE  Closed(Free(r)) /\ r \notin Free(r) /\ Free(r) \in SUBSET Requests
BY DEF Closed, Free

LEMMA WaitedForAreRequests ==
  ASSUME NEW r \in Requests
  PROVE  WaitsFor(r) \subseteq Requests
BY DEF WaitsFor, HoldersOfEmail, HoldersOfName, HolderOf

\* Who cannot end without r waits for another one who cannot.
LEMMA BlockedWaits ==
  ASSUME NEW r \in Requests, NEW w \in Requests \ (Free(r) \cup {r})
  PROVE  \E v \in WaitsFor(w) : v \in Requests \ Free(r)
<1> SUFFICES ASSUME WaitsFor(w) \subseteq Free(r) PROVE FALSE
  BY WaitedForAreRequests
<1>1. Closed(Free(r) \cup {w})
  BY FreeIsClosed DEF Closed
<1> QED BY <1>1, FreeIsClosed DEF Free

\* ... and is in a deadlock when r cannot end without it either.
LEMMA BlockedIsDeadlocked ==
  ASSUME NEW r \in Requests, NEW w \in Requests \ (Free(r) \cup {r}),
         \A T \in SUBSET Requests : Closed(T) /\ r \in T => w \in T
  PROVE  Deadlocked(w)
<1>1. WaitsFor(w) # {}
  BY BlockedWaits
<1>2. ASSUME NEW S \in SUBSET Requests, WaitsFor(w) \subseteq S, Closed(S), w \notin S
      PROVE  FALSE
  <2>1. r \notin S
    BY <1>2
  <2>2. S \subseteq Free(r)
    BY <1>2, <2>1 DEF Free
  <2> QED BY <1>2, <2>2, BlockedWaits
<1> QED BY <1>1, <1>2 DEF Deadlocked, Closed

\* Those who are waited for are through with their own row, and a registration
\* has come to the index of names.
LEMMA WaitedFor ==
  ASSUME IInv, NEW r \in Requests, NEW w \in WaitsFor(r)
  PROVE  /\ w # r /\ w \in Requests
         /\ \/ WaitsFor(w) = {}
            \/ req[w].op = "update_user"
            \/ req[w].op = "register" /\ pc[w] = "username" /\ pc[r] # "username"
<1> TypeOK /\ SlotInv(r) /\ w \in Requests /\ SlotInv(w)
  BY WaitedForAreRequests DEF IInv
<1>1. pc[w] = "answered" => WaitsFor(w) = {}
  BY DEF WaitsFor
<1>2. ASSUME NEW x \in Users, lock[x] = w
      PROVE  req[w].op = "update_user" \/ WaitsFor(w) = {}
  BY <1>1, <1>2 DEF SlotInv, LockInv, DeleteInv
<1>3. CASE pc[r] = "email"
  <2>1. /\ w # r
        /\ EmailEntered(w) \/ \E x \in Users : lock[x] = w
    BY <1>3 DEF WaitsFor, HoldersOfEmail, EmailOwners
  <2> QED BY <1>1, <1>2, <1>3, <2>1 DEF EmailEntered, Writes
<1>4. CASE pc[r] = "username"
  <2>1. /\ w # r
        /\ NameEntered(w) \/ \E x \in Users : lock[x] = w
    BY <1>4 DEF WaitsFor, HoldersOfName, NameOwners
  <2> QED BY <1>1, <1>2, <2>1 DEF NameEntered
<1>5. CASE pc[r] \in {"update", "delete"}
  <2>1. req[r].row \in Users
    BY <1>5, AtStatement DEF SlotInv, UpdateInv, DeleteInv
  <2>2. lock[req[r].row] = w
    BY <1>5 DEF WaitsFor, HolderOf
  <2>3. w # r
    BY <1>5, <2>1, <2>2 DEF SlotInv, LockInv
  <2> QED BY <1>2, <2>1, <2>2, <2>3
<1> QED BY <1>3, <1>4, <1>5 DEF WaitsFor

LEMMA AnUpdateIsInEveryDeadlock ==
  ASSUME IInv, NEW r \in Requests, Deadlocked(r)
  PROVE  \E u \in Requests : Deadlocked(u) /\ req[u].op = "update_user"
<1>1. PICK w \in WaitsFor(r) : w \notin Free(r)
  BY FreeIsClosed DEF Deadlocked, Closed
<1>2. w \in Requests \ (Free(r) \cup {r})
  BY <1>1, WaitedFor
<1>3. \A T \in SUBSET Requests : Closed(T) /\ r \in T => w \in T
  BY <1>1 DEF Closed
<1>4. CASE req[w].op = "update_user"
  BY <1>2, <1>3, <1>4, BlockedIsDeadlocked
<1>5. CASE pc[w] = "username" /\ req[w].op = "register"
  <2>1. PICK v \in WaitsFor(w) : v \in Requests \ Free(r)
    BY <1>2, BlockedWaits
  <2>2. CASE v = r
    <3>1. WaitsFor(r) # {}
      BY DEF Deadlocked
    <3> QED BY <1>2, <1>5, <2>1, <2>2, <3>1, WaitedFor
  <2>3. CASE v # r
    <3>1. WaitsFor(v) # {}
      BY <2>1, <2>3, BlockedWaits
    <3>2. req[v].op = "update_user"
      BY <1>2, <1>5, <2>1, <3>1, WaitedFor
    <3>3. \A T \in SUBSET Requests : Closed(T) /\ r \in T => v \in T
      BY <1>3, <2>1 DEF Closed
    <3> QED BY <2>1, <2>3, <3>2, <3>3, BlockedIsDeadlocked
  <2> QED BY <2>2, <2>3
<1>6. WaitsFor(w) # {}
  BY <1>2, BlockedWaits
<1> QED BY <1>1, <1>4, <1>5, <1>6, WaitedFor

\* Without a profile update there is no deadlock between accounts.
THEOREM DeadlockNeedsUpdateHolds == Spec => []DeadlockNeedsUpdate
<1>1. IInv => DeadlockNeedsUpdate
  BY AnUpdateIsInEveryDeadlock DEF DeadlockNeedsUpdate
<1> QED BY <1>1, InductiveInvariant, PTL

-----------------------------------------------------------------------------
(* Work goes on *)

\* Every registration that is yet to insert its account will find an unused row:
\* the bound on the rows ever made never holds up a request that has begun.
Registering == {s \in Requests : req[s].op = "register" /\ req[s].row = None}

EnoughRows == Cardinality(Unused) >= Cardinality(Registering)

LEMMA UnusedFinite ==
  /\ IsFiniteSet(Unused) /\ Cardinality(Unused) \in Nat
  /\ IsFiniteSet(Registering) /\ Cardinality(Registering) \in Nat
<1>1. Unused \subseteq Users /\ Registering \subseteq Requests
  BY DEF Unused, Registering
<1> QED BY <1>1, FiniteInstance, FS_Subset, FS_CardinalityType

\* A step of r that uses no unused row and begins no registration.
LEMMA SpendsNoRow ==
  ASSUME EnoughRows, NEW r \in Requests,
         \A s \in Requests \ {r} : req'[s] = req[s],
         \A x \in Unused : users'[x].status = "none" /\ req'[r].row # x,
         r \in Registering' => r \in Registering
  PROVE  EnoughRows'
<1>1. Unused \subseteq Unused' /\ Unused' \subseteq Users
  BY DEF Unused
<1>2. Registering' \subseteq Registering
  BY DEF Registering
<1>3. Cardinality(Unused) <= Cardinality(Unused') /\ Cardinality(Unused') \in Nat
  BY <1>1, FiniteInstance, FS_Subset, FS_CardinalityType
<1>4. Cardinality(Registering') <= Cardinality(Registering) /\ Cardinality(Registering') \in Nat
  BY <1>2, UnusedFinite, FS_Subset, FS_CardinalityType
<1> QED BY <1>3, <1>4, UnusedFinite DEF EnoughRows

\* A step of r after which its slot is free, or its parameters are what they were.
LEMMA KeepsEnough ==
  ASSUME TypeOK, EnoughRows, NEW r \in Requests,
         \A x \in Unused : users'[x].status = "none",
         req' = req \/ req' = [req EXCEPT ![r] = NoRequest]
  PROVE  EnoughRows'
<1>1. \A s \in Requests \ {r} : req'[s] = req[s]
  BY DEF TypeOK
<1>2. req'[r] = req[r] \/ req'[r] = NoRequest
  BY DEF TypeOK
<1>3. NoRequest.row = None /\ NoRequest.op = None
  BY DEF NoRequest, Request
<1>4. \A x \in Unused : req'[r].row # x
  BY <1>2, <1>3, DistinctIdentities DEF Unused
<1>5. r \in Registering' => r \in Registering
  BY <1>2, <1>3, OpFacts DEF Registering
<1> QED BY <1>1, <1>4, <1>5, SpendsNoRow

LEMMA ArriveKeepsEnough ==
  ASSUME IInv, EnoughRows, NEW r \in Requests, Arrive(r)
  PROVE  EnoughRows'
<1> TypeOK
  BY DEF IInv
<1>0. ASSUME NEW statement, NEW p, Begin(r, statement, p)
      PROVE  /\ req'[r] = p /\ users' = users /\ req[r].op = None
             /\ \A s \in Requests \ {r} : req'[s] = req[s]
  BY <1>0 DEF Begin, At, IInv, SlotInv, TypeOK
<1>1. ASSUME NEW n, NEW e, BeginRegister(r, n, e) PROVE EnoughRows'
  <2> DEFINE p == Request("register", None, n, e)
  <2>1. p.op = "register" /\ p.row = None
    BY DEF Request
  <2>2. Begin(r, "exists", p) /\ Cardinality(Unused) > Cardinality(Registering)
    BY <1>1 DEF BeginRegister, RoomToRegister, Registering
  <2> HIDE DEF p
  <2>3. /\ req'[r] = p /\ users' = users /\ req[r].op = None
        /\ \A s \in Requests \ {r} : req'[s] = req[s]
    BY <1>0, <2>2
  <2>4. Unused \subseteq Unused' /\ Unused' \subseteq Users
    BY <2>1, <2>3, DistinctIdentities DEF Unused
  <2>5. Registering' = Registering \cup {r} /\ r \notin Registering
    BY <2>1, <2>3, OpFacts DEF Registering
  <2>6. Cardinality(Registering') = Cardinality(Registering) + 1
    BY <2>5, UnusedFinite, FS_AddElement
  <2>7. Cardinality(Unused') >= Cardinality(Unused) /\ Cardinality(Unused') \in Nat
    BY <2>4, FiniteInstance, FS_Subset, FS_CardinalityType
  <2> QED BY <2>2, <2>6, <2>7, UnusedFinite DEF EnoughRows
<1>2. ASSUME NEW p, NEW statement, Begin(r, statement, p), p.op # "register", p.row \notin Unused
      PROVE  EnoughRows'
  <2>1. req'[r] = p /\ users' = users /\ \A s \in Requests \ {r} : req'[s] = req[s]
    BY <1>0, <1>2
  <2>2. \A x \in Unused : users'[x].status = "none" /\ req'[r].row # x
    BY <1>2, <2>1 DEF Unused
  <2>3. r \notin Registering'
    BY <1>2, <2>1 DEF Registering
  <2> QED BY <2>1, <2>2, <2>3, SpendsNoRow
<1>3. Known \cap Unused = {} /\ None \notin Unused
  BY DistinctIdentities DEF Known, Unused
<1>4. ASSUME NEW op, NEW x, NEW n, NEW e
      PROVE  Request(op, x, n, e).op = op /\ Request(op, x, n, e).row = x
  BY DEF Request
<1>5. ASSUME NEW x \in Users, NEW n, NEW e, BeginUpdate(r, x, n, e) PROVE EnoughRows'
  BY <1>2, <1>3, <1>4, <1>5 DEF BeginUpdate
<1>6. ASSUME NEW x \in Users, BeginDelete(r, x) PROVE EnoughRows'
  BY <1>2, <1>3, <1>4, <1>6 DEF BeginDelete
<1>7. ASSUME NEW identifier, BeginLogin(r, identifier) PROVE EnoughRows'
  BY <1>2, <1>3, <1>4, <1>7 DEF BeginLogin
<1> QED BY <1>1, <1>5, <1>6, <1>7 DEF Arrive

LEMMA IndexUsernameKeepsEnough ==
  ASSUME IInv, EnoughRows, NEW r \in Requests, IndexUsername(r)
  PROVE  EnoughRows'
<1> TypeOK /\ SlotInv(r)
  BY DEF IInv
<1>0. \A x \in Unused : users'[x].status = "none"
  BY DEF IndexUsername, Refuse, Unused
<1>1. CASE Refuse(r, "InternalServerError")
  BY <1>0, <1>1, KeepsEnough DEF Refuse
<1>2. CASE ~Refuse(r, "InternalServerError")
  <2>1. PICK x \in NewRow(r) : req' = [req EXCEPT ![r].row = x]
    BY <1>2 DEF IndexUsername
  <2>2. req'[r].row = x /\ req'[r].op = req[r].op /\ \A s \in Requests \ {r} : req'[s] = req[s]
    BY <2>1 DEF TypeOK
  <2>3. CASE req[r].op # "register"
    <3>1. x = req[r].row
      BY <2>3 DEF NewRow
    <3>2. \A y \in Unused : req'[r].row # y
      BY <2>2, <3>1 DEF Unused
    <3>3. r \notin Registering'
      BY <2>2, <2>3 DEF Registering
    <3> QED BY <1>0, <2>2, <3>2, <3>3, SpendsNoRow
  <2>4. CASE req[r].op = "register"
    <3>1. x \in Unused /\ x \in Users /\ x # None
      BY <2>4, DistinctIdentities DEF NewRow, Unused
    <3>2. r \in Registering
      BY <2>4 DEF IndexUsername, At, SlotInv, RegisterInv, Registering
    <3>3. Registering' = Registering \ {r}
      BY <2>2, <3>1 DEF Registering
    <3>4. Cardinality(Registering') = Cardinality(Registering) - 1
      BY <3>2, <3>3, UnusedFinite, FS_RemoveElement
    <3>5. Unused \ {x} \subseteq Unused' /\ Unused' \subseteq Users
      BY <1>0, <2>2 DEF Unused
    <3>6. Cardinality(Unused \ {x}) <= Cardinality(Unused') /\ Cardinality(Unused') \in Nat
      BY <3>5, FiniteInstance, FS_Subset, FS_CardinalityType
    <3>7. Cardinality(Unused \ {x}) = Cardinality(Unused) - 1
      BY <3>1, UnusedFinite, FS_RemoveElement
    <3> QED BY <3>4, <3>6, <3>7, UnusedFinite DEF EnoughRows
  <2> QED BY <2>3, <2>4
<1> QED BY <1>1, <1>2

LEMMA GetByIdentifierKeepsEnough ==
  ASSUME IInv, EnoughRows, NEW r \in Requests, GetByIdentifier(r)
  PROVE  EnoughRows'
<1> TypeOK /\ SlotInv(r)
  BY DEF IInv
<1>0. \A x \in Unused : users'[x].status = "none"
  BY DEF GetByIdentifier, Refuse, Unused
<1>1. CASE \E error : Refuse(r, error)
  BY <1>0, <1>1, KeepsEnough DEF Refuse
<1>2. CASE ~\E error : Refuse(r, error)
  <2>1. PICK x \in Users : Identified(req[r].username) = {x} /\ req' = [req EXCEPT ![r].row = x]
    BY <1>2 DEF GetByIdentifier
  <2>2. req'[r].row = x /\ req'[r].op = req[r].op /\ \A s \in Requests \ {r} : req'[s] = req[s]
    BY <2>1 DEF TypeOK
  <2>3. x \notin Unused
    BY <2>1 DEF Identified, Live, Unused
  <2>4. r \notin Registering'
    BY <2>1, <2>2, DistinctIdentities DEF Registering
  <2> QED BY <1>0, <2>2, <2>3, <2>4, SpendsNoRow
<1> QED BY <1>1, <1>2

LEMMA NextKeepsEnough ==
  ASSUME IInv, EnoughRows, [Next]_vars
  PROVE  EnoughRows'
<1> TypeOK
  BY DEF IInv
<1>1. CASE UNCHANGED vars
  BY <1>1 DEF vars, EnoughRows, Unused, Registering
<1>2. ASSUME NEW r \in Requests, (\E e : Refuse(r, e)) \/ UNCHANGED <<users, req>> PROVE EnoughRows'
  BY <1>2, KeepsEnough DEF Refuse, Unused
<1>3. ASSUME NEW r \in Requests, Finish(r), UNCHANGED users PROVE EnoughRows'
  BY <1>3, KeepsEnough DEF Finish, Unused
<1>4. ASSUME NEW r \in Requests, Fault(r) \/ DeadlockVictim(r) \/ Close(r) PROVE EnoughRows'
  BY <1>2, <1>3, <1>4 DEF Fault, DeadlockVictim, Close
<1>5. ASSUME NEW r \in Requests, CommitRegister(r) \/ CommitUpdate(r) \/ CommitDelete(r) PROVE EnoughRows'
  <2>1. ASSUME NEW x \in Unused PROVE users'[x].status = "none"
    <3>1. x \in Users /\ x # req[r].row /\ users[x].status = "none"
      BY DEF Unused
    <3>2. users'[x] = users[x]
      BY <1>5, <3>1 DEF CommitRegister, CommitUpdate, CommitDelete, TypeOK
    <3> QED BY <3>1, <3>2
  <2> QED BY <1>5, <2>1, KeepsEnough DEF CommitRegister, CommitUpdate, CommitDelete, Finish
<1>6. ASSUME NEW r \in Requests, Serve(r) PROVE EnoughRows'
  <2>1. CASE Exists(r) \/ Insert(r) \/ Update(r) \/ IndexEmail(r) \/ Delete(r)
    BY <1>2, <2>1 DEF Exists, Insert, Update, IndexEmail, Delete, Continue
  <2> QED BY <1>4, <1>5, <1>6, <2>1, IndexUsernameKeepsEnough, GetByIdentifierKeepsEnough DEF Serve
<1> QED BY <1>1, <1>4, <1>6, ArriveKeepsEnough DEF Next

\* A request that waits for nobody can go on.
LEMMA NobodyInTheWay ==
  ASSUME IInv, EnoughRows, NEW r \in Requests, pc[r] # "idle", WaitsFor(r) = {}
  PROVE  Ready(r)
<1> TypeOK /\ SlotInv(r)
  BY DEF IInv
<1>1. CASE pc[r] \in {"update", "delete", "email"}
  BY <1>1 DEF Ready, WaitsFor, At
<1>2. CASE pc[r] = "username"
  <2>1. req[r].op = "register" => Unused # {}
    <3> SUFFICES ASSUME req[r].op = "register" PROVE Unused # {}
      OBVIOUS
    <3>1. r \in Registering
      BY <1>2 DEF SlotInv, RegisterInv, Registering
    <3>2. /\ Cardinality(Registering \ {r}) = Cardinality(Registering) - 1
          /\ Cardinality(Registering \ {r}) \in Nat
      BY <3>1, UnusedFinite, FS_RemoveElement, FS_CardinalityType
    <3>3. Cardinality(Unused) # 0
      BY <3>2, UnusedFinite DEF EnoughRows
    <3> QED BY <3>3, FS_EmptySet
  <2>2. NewRow(r) # {}
    BY <2>1 DEF NewRow
  <2> QED BY <1>2, <2>2 DEF Ready, WaitsFor, At
<1> QED BY <1>1, <1>2 DEF Ready, At

\* Those who hold a row or an index entry are at work.
LEMMA HoldersAreBusy ==
  ASSUME IInv, NEW r \in Requests, NEW w \in WaitsFor(r)
  PROVE  w \in Requests /\ pc[w] # "idle"
<1> TypeOK /\ SlotInv(r) /\ w \in Requests /\ SlotInv(w)
  BY WaitedForAreRequests DEF IInv
<1>1. ASSUME NEW x \in Users, lock[x] = w PROVE pc[w] # "idle"
  BY <1>1, OpFacts DEF SlotInv, LockInv
<1>2. CASE pc[r] \in {"email", "username"}
  <2>1. EmailEntered(w) \/ NameEntered(w) \/ \E x \in Users : lock[x] = w
    BY <1>2 DEF WaitsFor, HoldersOfEmail, HoldersOfName, EmailOwners, NameOwners
  <2> QED BY <1>1, <2>1 DEF EmailEntered, NameEntered
<1>3. CASE pc[r] \in {"update", "delete"}
  <2>1. req[r].row \in Users
    BY <1>3, AtStatement DEF SlotInv, UpdateInv, DeleteInv
  <2>2. lock[req[r].row] = w
    BY <1>3 DEF WaitsFor, HolderOf
  <2> QED BY <1>1, <2>1, <2>2
<1> QED BY <1>2, <1>3 DEF WaitsFor

LEMMA SomebodyGoesOn ==
  ASSUME IInv, EnoughRows
  PROVE  WorkGoesOn
<1> SUFFICES ASSUME NEW r \in Requests, NEW S \in SUBSET Requests, pc[r] # "idle", r \in S,
                    \A s \in S : WaitsFor(s) \subseteq S
             PROVE  \E s \in S : Ready(s) \/ Deadlocked(s)
  BY DEF WorkGoesOn, At
<1> DEFINE W == [s \in Requests |-> WaitsFor(s)]
           Busy == {s \in S : pc[s] # "idle"}
<1>1. Busy \in SUBSET Requests /\ Busy # {}
  OBVIOUS
<1>2. ClosedUnder(W, Busy)
  BY HoldersAreBusy DEF ClosedUnder
<1>3. PICK s \in Busy : W[s] = {} \/ OnCircle(W, Requests, s)
  <2> HIDE DEF W, Busy
  <2> QED BY <1>1, <1>2, FiniteInstance, WaitsEnd
<1>4. CASE W[s] = {}
  BY <1>4, NobodyInTheWay
<1>5. CASE W[s] # {} /\ OnCircle(W, Requests, s)
  BY <1>5 DEF OnCircle, ClosedUnder, Deadlocked
<1> QED BY <1>3, <1>4, <1>5

\* Whatever has happened, the registrations, updates, deletions and logins that
\* have begun can be brought to an end: who waits for a row or an index entry,
\* waits for one that is at work, or for one on a circle
\* (dependencies/database.py:39-50).
THEOREM WorkGoesOnHolds == Spec => []WorkGoesOn
<1>1. Init => EnoughRows
  <2> SUFFICES ASSUME Init PROVE EnoughRows
    OBVIOUS
  <2>1. Registering = {}
    BY OpFacts DEF Init, Registering, NoRequest, Request
  <2> QED BY <2>1, FS_EmptySet, UnusedFinite DEF EnoughRows
<1>2. IInv /\ EnoughRows /\ [Next]_vars => EnoughRows'
  BY NextKeepsEnough
<1>3. IInv /\ EnoughRows => WorkGoesOn
  BY SomebodyGoesOn
<1> QED BY <1>1, <1>2, <1>3, InductiveInvariant, PTL DEF Spec

-----------------------------------------------------------------------------
(* What an answer is worth *)

\* A step of one request leaves the others where they are.
LEMMA OthersStay ==
  ASSUME TypeOK, NEW s \in Requests, Arrive(s) \/ Serve(s) \/ Fault(s) \/ DeadlockVictim(s),
         NEW r \in Requests \ {s}
  PROVE  pc'[r] = pc[r]
<1>1. ASSUME \E statement : Goto(s, statement) PROVE pc'[r] = pc[r]
  BY <1>1 DEF Goto, TypeOK
<1>2. CASE Arrive(s) \/ Fault(s) \/ DeadlockVictim(s)
  BY <1>1, <1>2 DEF Arrive, BeginRegister, BeginUpdate, BeginDelete, BeginLogin, Begin, Fault,
                    DeadlockVictim, Refuse, Finish
<1>3. CASE Exists(s) \/ Insert(s) \/ Update(s) \/ IndexEmail(s)
  BY <1>1, <1>3 DEF Exists, Insert, Update, IndexEmail, Continue, Refuse
<1>4. CASE IndexUsername(s) \/ Delete(s) \/ GetByIdentifier(s)
  BY <1>1, <1>4 DEF IndexUsername, Delete, GetByIdentifier, Answer, Refuse
<1>5. CASE CommitRegister(s) \/ CommitUpdate(s) \/ CommitDelete(s) \/ Close(s)
  BY <1>1, <1>5 DEF CommitRegister, CommitUpdate, CommitDelete, Close, Finish
<1> QED BY <1>2, <1>3, <1>4, <1>5 DEF Serve

\* A request that has answered waits for nobody and is stopped by nobody.
LEMMA LeavesAnswered ==
  ASSUME TypeOK, [Next]_vars, NEW r \in Requests, pc[r] = "answered", pc'[r] # "answered"
  PROVE  CommitRegister(r) \/ CommitUpdate(r) \/ CommitDelete(r) \/ Close(r) \/ Fault(r)
<1>1. Arrive(r) \/ Serve(r) \/ Fault(r) \/ DeadlockVictim(r)
  BY OthersStay DEF Next, vars
<1>2. ~Arrive(r)
  BY DEF Arrive, BeginRegister, BeginUpdate, BeginDelete, BeginLogin, Begin, At
<1>3. ~DeadlockVictim(r)
  BY DEF DeadlockVictim, Deadlocked, WaitsFor
<1>4. ~Exists(r) /\ ~Insert(r) /\ ~Update(r) /\ ~IndexEmail(r) /\ ~IndexUsername(r) /\ ~Delete(r)
      /\ ~GetByIdentifier(r)
  BY DEF Exists, Insert, Update, IndexEmail, IndexUsername, Delete, GetByIdentifier, Serving, At
<1> QED BY <1>1, <1>2, <1>3, <1>4 DEF Serve

\* A client that reads its answer before the commit reads the truth, unless a fault
\* intervenes (dependencies/database.py:45).
THEOREM AnswersComeTrueHolds == Spec => AnswersComeTrue
<1>1. IInv /\ [Next]_vars =>
        [\A r \in Requests : At(r, "answered") /\ ~At(r, "answered")' =>
           TakesEffect(r) \/ Fault(r)]_vars
  <2> SUFFICES ASSUME IInv, [Next]_vars, NEW r \in Requests, pc[r] = "answered", pc'[r] # "answered"
               PROVE  TakesEffect(r) \/ Fault(r)
    BY DEF At
  <2>1. TypeOK /\ RegisterInv(r) /\ UpdateInv(r) /\ DeleteInv(r)
    BY DEF IInv, SlotInv
  <2>2. CASE CommitRegister(r)
    BY <2>1, <2>2 DEF CommitRegister, Committing, Serving, At, RegisterInv, TypeOK, TakesEffect
  <2>3. CASE CommitUpdate(r)
    BY <2>1, <2>3 DEF CommitUpdate, Committing, Serving, At, UpdateInv, TypeOK, TakesEffect, Live
  <2>4. CASE CommitDelete(r)
    BY <2>1, <2>4 DEF CommitDelete, Committing, Serving, At, DeleteInv, TypeOK, TakesEffect
  <2>5. CASE Close(r)
    BY <2>5 DEF Close, Committing, Serving, At, TakesEffect
  <2> QED BY <2>1, <2>2, <2>3, <2>4, <2>5, LeavesAnswered
<1> QED BY <1>1, InductiveInvariant, PTL DEF Spec, AnswersComeTrue

-----------------------------------------------------------------------------
(* Refinement of Directory *)

LEMMA UsersChangeByCommit ==
  ASSUME [Next]_vars, ~UNCHANGED users
  PROVE  \E r \in Requests : CommitRegister(r) \/ CommitUpdate(r) \/ CommitDelete(r)
<1>1. \A r \in Requests : ~Arrive(r) /\ ~Fault(r) /\ ~DeadlockVictim(r)
  BY DEF Arrive, BeginRegister, BeginUpdate, BeginDelete, BeginLogin, Begin, Fault,
         DeadlockVictim, Refuse
<1>2. PICK r \in Requests : Serve(r)
  BY <1>1 DEF Next, vars
<1>3. ~Exists(r) /\ ~Insert(r) /\ ~Update(r) /\ ~IndexEmail(r)
  BY DEF Exists, Insert, Update, IndexEmail, Refuse, Continue
<1>4. ~IndexUsername(r) /\ ~Delete(r) /\ ~GetByIdentifier(r) /\ ~Close(r)
  BY DEF IndexUsername, Delete, GetByIdentifier, Close, Refuse
<1> QED BY <1>2, <1>3, <1>4 DEF Serve

\* The names and addresses of the directory change as the rows do.
LEMMA EntriesFollowRows ==
  ASSUME TypeOK, NEW x \in Users, NEW new, users' = [users EXCEPT ![x] = new]
  PROVE  /\ [y \in Users |-> users[y].username]' =
              [[y \in Users |-> users[y].username] EXCEPT ![x] = new.username]
         /\ [y \in Users |-> users[y].email]' =
              [[y \in Users |-> users[y].email] EXCEPT ![x] = new.email]
BY DEF TypeOK

LEMMA CommitIsAtomic ==
  ASSUME IInv, NEW r \in Requests, Commits(r)
  PROVE  Members!Next
<1> DEFINE names == [y \in Users |-> users[y].username]
           addresses == [y \in Users |-> users[y].email]
<1>0. PICK x \in Users, new \in RowType : CommitFits(r, x, new) /\ users' = [users EXCEPT ![x] = new]
  BY DEF Commits
<1>1. PICK n \in Names \cup {None} : n = new.username
  BY DEF RowType
<1>2. PICK e \in Emails \cup {Null, None} : e = new.email
  BY DEF RowType
<1>3. names' = [names EXCEPT ![x] = n] /\ addresses' = [addresses EXCEPT ![x] = e]
  BY <1>0, <1>1, <1>2, EntriesFollowRows DEF IInv
<1>4. CASE new.status = "live"
  <2>1. n \in Names /\ e \in Emails \cup {Null}
    BY <1>0, <1>1, <1>2, <1>4 DEF CommitFits
  <2>2. Members!NameIsFree(x, n)
    BY <1>0, <1>1, <1>4, <2>1, DistinctIdentities DEF Members!NameIsFree, CommitFits, IInv, RowsInv
  <2>3. Members!AddressIsFree(x, e)
    BY <1>0, <1>2, <1>4, <2>1, DistinctIdentities DEF Members!AddressIsFree, CommitFits, IInv, RowsInv
  <2>4. Members!Join(x, n, e) \/ Members!Change(x, n, e)
    BY <1>3, <2>2, <2>3 DEF Members!Join, Members!Change, Members!Enter
  <2> QED BY <2>1, <2>4 DEF Members!Next
<1>5. CASE new.status = "gone"
  <2>1. n = None /\ e = None /\ names[x] # None
    BY <1>0, <1>1, <1>2, <1>5 DEF CommitFits, IInv, RowsInv
  <2>2. Members!Leave(x)
    BY <1>3, <2>1 DEF Members!Leave, Members!Member
  <2> QED BY <2>2 DEF Members!Next
<1> QED BY <1>0, <1>4, <1>5 DEF CommitFits, RowType

\* The behaviours of Accounts, seen through the users table, are behaviours of
\* Directory: each commit is one atomic step of it, and nothing else shows.
THEOREM ImplementsDirectoryHolds == Spec => ImplementsDirectory
<1>1. Init => Members!Init
  BY DEF Init, Members!Init, NoRow
<1>2. ASSUME IInv, [Next]_vars PROVE [Members!Next]_(Members!directory)
  <2>1. CASE UNCHANGED users
    BY <2>1 DEF Members!directory
  <2>2. CASE ~UNCHANGED users
    BY <1>2, <2>2, UsersChangeByCommit, CommitRegisterCommits, CommitUpdateCommits,
       CommitDeleteCommits, CommitIsAtomic
  <2> QED BY <2>1, <2>2
<1>3. IInv /\ [Next]_vars => [Members!Next]_(Members!directory)
  BY <1>2
<1> QED BY <1>1, <1>3, InductiveInvariant, PTL DEF Spec, ImplementsDirectory, Members!Spec

=============================================================================
