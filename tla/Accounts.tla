------------------------------ MODULE Accounts ------------------------------
(***************************************************************************)
(* Accounts: AuthUseCases.register, UserUseCases.update_user, the deletion *)
(* of a user, and the look-up by which a login finds its user.  A user has *)
(* a name and may have an address; each is kept distinct by a unique       *)
(* index, and a login may give either.  Nothing keeps a name from being    *)
(* the address of somebody else: Names and Emails may overlap.             *)
(*                                                                         *)
(* Concurrency is that of Catalog: one SQL statement per action, users     *)
(* holds committed rows, an UPDATE or DELETE locks its row until the end,  *)
(* and an entry of a unique index waits for every transaction that adds or *)
(* takes away an equal one.  A row is entered in ix_users_email first and  *)
(* then in ix_users_username, the order in which the indexes were made.    *)
(***************************************************************************)
EXTENDS Naturals, FiniteSets

CONSTANTS
  Users,          \* identities of rows; they bound the rows ever made
  Names, Emails,  \* usernames and addresses, which may be equal strings
  TooLong,        \* an address of more than the 50 characters of its column
  Null,           \* null: no address; not allowed as a name
  Requests,       \* slots for requests in progress at the same time
  None,           \* no row, no holder, field not given, nothing to answer yet
  Events          \* the kinds of event of this instance (see EventKinds)

Ops == {"register", "update_user", "delete_user", "login"}
EventKinds == Ops \cup {"fault"}

Refusals == {"UserAlreadyExists", "UserNotFound", "InvalidCredentials",
             "InternalServerError", "ConnectionLost"}

Writes == {"register", "update_user"}
GivenNames == Names \cup {Null, None}
GivenEmails == Emails \cup {TooLong, Null, None}

ASSUME DistinctIdentities ==
  /\ None \notin Users \cup Requests \cup Ops \cup Refusals \cup {"ok"}
  /\ Null \notin Names \cup Emails /\ None \notin Names \cup Emails
  /\ TooLong \notin Names \cup Emails \cup {Null, None} /\ Null # None
ASSUME KindsOfEvent == Events \subseteq EventKinds
\* A bound on the rows, and one session of the pool for each request in progress.
ASSUME FiniteInstance == IsFiniteSet(Users) /\ IsFiniteSet(Requests)

VARIABLES
  users,  \* users table: a row's status, username and email
  pc,     \* the statement each request executes next
  req,    \* parameters and local variables of each request
  reply,  \* the answer its client has got, None until then
  lock    \* the request whose transaction has locked each row, or None

vars == <<users, pc, req, reply, lock>>

Request(op, row, username, email) ==
  [op |-> op, row |-> row, username |-> username, email |-> email]

NoRequest == Request(None, None, None, None)

Statements == {"exists", "insert", "update", "email", "username", "delete", "get_by_identifier"}

NoRow == [status |-> "none", username |-> None, email |-> None]

TypeOK ==
  /\ users \in [Users -> [status : {"none", "live", "gone"},
                          username : Names \cup {None}, email : Emails \cup {Null, None}]]
  /\ pc \in [Requests -> Statements \cup {"idle", "answered", "closed"}]
  /\ req \in [Requests -> [op : Ops \cup {None}, row : Users \cup {None},
                           username : GivenNames \cup Emails, email : GivenEmails]]
  /\ reply \in [Requests -> Refusals \cup {None, "ok"}]
  /\ lock \in [Users -> Requests \cup {None}]

-----------------------------------------------------------------------------
(* What the statements read, and what they wait for. *)

Live(x) == users[x].status = "live"

\* Other rows with the name or the address of request r.
NameOwners(r) == {x \in Users \ {req[r].row} : Live(x) /\ users[x].username = req[r].username}

\* Other rows with its address; rows without one are no duplicates of each other.
EmailOwners(r) ==
  {x \in Users \ {req[r].row} : Live(x) /\ users[x].email = req[r].email /\ req[r].email # Null}

\* WHERE username = :identifier OR email = :identifier
Identified(identifier) == {x \in Users : Live(x) /\ identifier \in {users[x].username, users[x].email}}

\* The first index forgotten while the entry waits for the second.
EmailEntered_AtAnswer(r) == req[r].op \in Writes /\ req[r].email \in Emails /\ pc[r] = "answered"

\* r has entered its address, or its name, in the index and has not ended yet.
EmailEntered(r) == req[r].op \in Writes /\ req[r].email \in Emails /\ pc[r] \in {"username", "answered"}
NameEntered(r) == req[r].op \in Writes /\ req[r].username \in Names /\ pc[r] = "answered"

\* Without the wait of the unique index.
HoldersOfName_None(r) == {}

\* The transactions that add or take away an entry equal to r's.
HoldersOfEmail(r) ==
  {s \in Requests \ {r} : \/ EmailEntered(s) /\ req[s].email = req[r].email
                          \/ \E x \in EmailOwners(r) : lock[x] = s}
HoldersOfName(r) ==
  {s \in Requests \ {r} : \/ NameEntered(s) /\ req[s].username = req[r].username
                          \/ \E x \in NameOwners(r) : lock[x] = s}

HolderOf(x) == {s \in Requests : lock[x] = s}

\* The requests that the next statement of r waits for.
WaitsFor(r) ==
  CASE pc[r] = "email" -> HoldersOfEmail(r)
    [] pc[r] = "username" -> HoldersOfName(r)
    [] pc[r] \in {"update", "delete"} /\ Live(req[r].row) -> HolderOf(req[r].row)
    [] OTHER -> {}

\* r is on a cycle of the waits-for relation.
Deadlocked(r) ==
  WaitsFor(r) # {} /\ \A S \in SUBSET Requests :
    WaitsFor(r) \subseteq S /\ (\A s \in S : WaitsFor(s) \subseteq S) => r \in S

-----------------------------------------------------------------------------
(* Ways in which any request goes on. *)

At(r, statement) == pc[r] = statement
Serving(r, op, statement) == req[r].op = op /\ At(r, statement)
Goto(r, statement) == pc' = [pc EXCEPT ![r] = statement]

Begin(r, statement, parameters) ==
  /\ At(r, "idle") /\ Goto(r, statement)
  /\ req' = [req EXCEPT ![r] = parameters]
  /\ UNCHANGED <<users, reply, lock>>

Continue(r, statement) == Goto(r, statement) /\ UNCHANGED <<users, req, reply, lock>>

\* A session that goes back to the pool without the end of its transaction.
LocksWithout_Leak(r) == lock

LocksWithout(r) == [x \in Users |-> IF lock[x] = r THEN None ELSE lock[x]]

\* The handler raises: the session is rolled back, then the client gets the error.
Refuse(r, error) ==
  /\ Goto(r, "closed")
  /\ req' = [req EXCEPT ![r] = NoRequest]
  /\ reply' = [reply EXCEPT ![r] = error]
  /\ lock' = LocksWithout(r)
  /\ UNCHANGED users

\* The handler returns; its transaction is still to be committed.
Answer(r) == Goto(r, "answered") /\ reply' = [reply EXCEPT ![r] = "ok"]

Finish(r) ==
  /\ Goto(r, "idle")
  /\ req' = [req EXCEPT ![r] = NoRequest]
  /\ reply' = [reply EXCEPT ![r] = None]
  /\ lock' = LocksWithout(r)

Committing(r, op) == Serving(r, op, "answered")

\* Rows a client can name: those it has read, and those it was told of.
Known == {x \in Users : users[x].status # "none" \/
                        \E s \in Requests : Committing(s, "register") /\ req[s].row = x}

Unused == {x \in Users : users[x].status = "none" /\ \A s \in Requests : req[s].row # x}

\* The bound on the rows ever made.
RoomToRegister ==
  Cardinality(Unused) > Cardinality({s \in Requests : req[s].op = "register" /\ req[s].row = None})

-----------------------------------------------------------------------------
(* POST /auth/register *)

BeginRegister(r, n, e) ==
  /\ "register" \in Events /\ RoomToRegister
  /\ n \in Names /\ e # None
  /\ Begin(r, "exists", Request("register", None, n, e))

\* The query is asked for one row or none: two rows, one with the name and
\* another one with the address, are an error of SQLAlchemy that nobody catches.
Exists(r) ==
  LET found == NameOwners(r) \cup EmailOwners(r) IN
  /\ At(r, "exists")
  /\ \/ found = {} /\ Continue(r, "insert")
     \/ Cardinality(found) = 1 /\ Refuse(r, "UserAlreadyExists")
     \/ Cardinality(found) > 1 /\ Refuse(r, "InternalServerError")

\* The column takes 50 characters, the validator takes any address.
Insert(r) ==
  /\ At(r, "insert")
  /\ \/ req[r].email = TooLong /\ Refuse(r, "InternalServerError")
     \/ req[r].email # TooLong /\ Continue(r, "email")

-----------------------------------------------------------------------------
(* PATCH /users/me and PATCH /users/{id}; a request with neither field only *)
(* reads.                                                                   *)

BeginUpdate(r, x, n, e) ==
  /\ "update_user" \in Events /\ x \in Known
  /\ n # None \/ e # None
  /\ Begin(r, "update", Request("update_user", x, n, e))

\* An update that does not wait for the row.
Update_Unlocked(r) ==
  LET x == req[r].row IN
  /\ At(r, "update")
  /\ \/ ~Live(x) /\ Refuse(r, "UserNotFound")
     \/ Live(x) /\ Continue(r, "email")

\* A null name or an address that is too long fails before the row is locked.
Update(r) ==
  LET x == req[r].row
      stored == req[r].username # Null /\ req[r].email # TooLong
  IN
  /\ At(r, "update")
  /\ \/ ~Live(x) /\ Refuse(r, "UserNotFound")
     \/ Live(x) /\ ~stored /\ Refuse(r, "InternalServerError")
     \/ /\ Live(x) /\ stored /\ HolderOf(x) = {}
        /\ lock' = [lock EXCEPT ![x] = r]
        /\ Goto(r, "email") /\ UNCHANGED <<users, req, reply>>

-----------------------------------------------------------------------------
(* The new row, or the new version of it, goes into the two indexes.  The   *)
(* repository translates violations of users_username_key and               *)
(* users_email_key; the indexes have other names, and the error goes on.    *)

IndexEmail(r) ==
  /\ At(r, "email") /\ HoldersOfEmail(r) = {}
  /\ \/ EmailOwners(r) # {} /\ Refuse(r, "InternalServerError")
     \/ EmailOwners(r) = {} /\ Continue(r, "username")

NewRow(r) == IF req[r].op = "register" THEN Unused ELSE {req[r].row}

IndexUsername(r) ==
  /\ At(r, "username") /\ HoldersOfName(r) = {}
  /\ \/ NameOwners(r) # {} /\ Refuse(r, "InternalServerError")
     \/ /\ NameOwners(r) = {}
        /\ \E x \in NewRow(r) : req' = [req EXCEPT ![r].row = x]
        /\ Answer(r) /\ UNCHANGED <<users, lock>>

-----------------------------------------------------------------------------
(* DELETE /users/me and DELETE /users/{id}.  Sessions and loans of the user  *)
(* go by ON DELETE CASCADE: see Sessions and Circulation.                    *)

BeginDelete(r, x) ==
  /\ "delete_user" \in Events /\ x \in Known
  /\ Begin(r, "delete", Request("delete_user", x, None, None))

Delete(r) ==
  LET x == req[r].row IN
  /\ At(r, "delete")
  /\ \/ ~Live(x) /\ Refuse(r, "UserNotFound")
     \/ /\ Live(x) /\ HolderOf(x) = {}
        /\ lock' = [lock EXCEPT ![x] = r]
        /\ Answer(r) /\ UNCHANGED <<users, req>>

-----------------------------------------------------------------------------
(* POST /auth/login, as far as finding the user goes; the password is taken *)
(* to be right, and the session that follows is in Sessions.                *)

BeginLogin(r, identifier) ==
  /\ "login" \in Events
  /\ Begin(r, "get_by_identifier", Request("login", None, identifier, None))

\* Again a query for one row or none.
GetByIdentifier(r) ==
  LET found == Identified(req[r].username) IN
  /\ At(r, "get_by_identifier")
  /\ \/ found = {} /\ Refuse(r, "InvalidCredentials")
     \/ Cardinality(found) > 1 /\ Refuse(r, "InternalServerError")
     \/ \E x \in Users :
          /\ found = {x} /\ req' = [req EXCEPT ![r].row = x]
          /\ Answer(r) /\ UNCHANGED <<users, lock>>

-----------------------------------------------------------------------------
(* The commits, the rest of a request's life, and the environment. *)

CommitRegister(r) ==
  /\ Committing(r, "register")
  /\ users' = [users EXCEPT ![req[r].row] =
                [status |-> "live", username |-> req[r].username, email |-> req[r].email]]
  /\ Finish(r)

\* The field that is not given stays.
CommitUpdate(r) ==
  /\ Committing(r, "update_user")
  /\ users' = [users EXCEPT
                ![req[r].row].username = IF req[r].username = None THEN @ ELSE req[r].username,
                ![req[r].row].email = IF req[r].email = None THEN @ ELSE req[r].email]
  /\ Finish(r)

\* A deletion that only marks the row, and leaves its address behind.
CommitDelete_KeepEmail(r) ==
  /\ Committing(r, "delete_user")
  /\ users' = [users EXCEPT ![req[r].row].status = "gone", ![req[r].row].username = None]
  /\ Finish(r)

CommitDelete(r) ==
  /\ Committing(r, "delete_user")
  /\ users' = [users EXCEPT ![req[r].row] = [status |-> "gone", username |-> None, email |-> None]]
  /\ Finish(r)

\* A login writes no account; the client of a closed request has read the error.
Close(r) == (Committing(r, "login") \/ At(r, "closed")) /\ Finish(r) /\ UNCHANGED users

\* The connection or the process goes down: the transaction is rolled back, and
\* a client that was not answered before gets a server error or none at all.
Fault(r) ==
  /\ "fault" \in Events /\ pc[r] \notin {"idle", "closed"}
  /\ IF At(r, "answered") THEN (Finish(r) /\ UNCHANGED users) ELSE Refuse(r, "ConnectionLost")

\* PostgreSQL aborts a transaction of a cycle of waits.
DeadlockVictim(r) == Deadlocked(r) /\ Refuse(r, "InternalServerError")

Init ==
  /\ users = [x \in Users |-> NoRow]
  /\ pc = [r \in Requests |-> "idle"]
  /\ req = [r \in Requests |-> NoRequest]
  /\ reply = [r \in Requests |-> None]
  /\ lock = [x \in Users |-> None]

Arrive(r) ==
  \/ \E n \in GivenNames, e \in GivenEmails :
       BeginRegister(r, n, e) \/ (\E x \in Users : BeginUpdate(r, x, n, e))
  \/ \E x \in Users : BeginDelete(r, x)
  \/ \E identifier \in Names \cup Emails : BeginLogin(r, identifier)

\* One step of the work on request r.
Serve(r) ==
  \/ Exists(r) \/ Insert(r) \/ Update(r) \/ IndexEmail(r) \/ IndexUsername(r)
  \/ Delete(r) \/ GetByIdentifier(r)
  \/ CommitRegister(r) \/ CommitUpdate(r) \/ CommitDelete(r) \/ Close(r)

Next == \E r \in Requests : Arrive(r) \/ Serve(r) \/ Fault(r) \/ DeadlockVictim(r)

Spec == Init /\ [][Next]_vars

-----------------------------------------------------------------------------
(* Safety *)

\* No two accounts have one name or one address, whatever registrations and
\* profile updates run side by side: register looks two statements before it
\* writes, update_user does not look at all (auth_use_cases.py:53,
\* user_use_cases.py:33).
UniqueAccounts ==
  \A x, y \in Users : Live(x) /\ Live(y) /\ x # y =>
    users[x].username # users[y].username /\ (users[x].email # users[y].email \/ users[x].email = Null)

\* Requests wait for each other in a circle only when one of them is a profile
\* update, which holds its row while it waits for an index: registrations among
\* themselves, and with deletions, never do.
DeadlockNeedsUpdate ==
  (\E r \in Requests : Deadlocked(r)) =>
    \E r \in Requests : Deadlocked(r) /\ req[r].op = "update_user"

\* The next statement of r can be executed: the guard of Serve(r).
Ready(r) ==
  CASE At(r, "idle") -> FALSE
    [] At(r, "update") -> Live(req[r].row) /\ req[r].username # Null /\ req[r].email # TooLong
                            => HolderOf(req[r].row) = {}
    [] At(r, "delete") -> Live(req[r].row) => HolderOf(req[r].row) = {}
    [] At(r, "email") -> HoldersOfEmail(r) = {}
    [] At(r, "username") -> HoldersOfName(r) = {} /\ (NameOwners(r) = {} => NewRow(r) # {})
    [] OTHER -> TRUE

\* No request is held up for nothing: among those it waits for, directly or
\* through others, there is one whose next statement can be executed, or one on
\* a circle of waits, which PostgreSQL breaks (dependencies/database.py:39-50).
WorkGoesOn ==
  \A r \in Requests, S \in SUBSET Requests :
    ~At(r, "idle") /\ r \in S /\ (\A s \in S : WaitsFor(s) \subseteq S)
      => \E s \in S : Ready(s) \/ Deadlocked(s)

\* Another account has the name or the address of request r.
Taken(r) == NameOwners(r) \cup EmailOwners(r) # {}

Unstorable(r) == req[r].username = Null \/ req[r].email = TooLong

\* The identifier of login r is one account's name and another one's address.
Ambiguous(r) ==
  \E x, y \in Users : Live(x) /\ Live(y) /\ x # y
    /\ users[x].username = req[r].username /\ users[y].email = req[r].username

\* The reason there must be for each refusal.
Grounds(r, refusal) ==
  CASE refusal = "UserAlreadyExists" -> Taken(r)
    [] refusal = "InvalidCredentials" -> Identified(req[r].username) = {}
    [] refusal = "InternalServerError" /\ req[r].op = "login" -> Ambiguous(r)
    [] refusal = "InternalServerError" /\ req[r].op # "login" ->
         Taken(r) \/ Unstorable(r) \/ Deadlocked(r)
    [] OTHER -> TRUE

\* A refusal has its reason at that time in a committed row, never in one that
\* may yet be rolled back.  In particular an account can always be logged in to
\* by its name or address unless another one uses the same string for the other
\* of the two, and these are all the internal errors there are
\* (sqlalchemy_user_repository.py:40-56, 119-127).
RefusalIsReal ==
  [][\A r \in Requests : reply'[r] # reply[r] => Grounds(r, reply'[r])]_vars

\* This step brings about what the answer of r said, and nothing had before it.
TakesEffect(r) ==
  LET x == req[r].row IN
  \/ /\ req[r].op = "register" /\ users[x].status = "none"
     /\ users'[x] = [status |-> "live", username |-> req[r].username, email |-> req[r].email]
  \/ /\ req[r].op = "update_user" /\ Live(x) /\ users'[x].status = "live"
     /\ req[r].username # None => users'[x].username = req[r].username
     /\ req[r].email # None => users'[x].email = req[r].email
  \/ req[r].op = "delete_user" /\ Live(x) /\ users'[x].status = "gone"
  \/ req[r].op = "login" /\ UNCHANGED users

\* What a request has been answered before its commit is still to be done when the
\* commit comes, and is done by it: nobody takes the name, changes the row or
\* deletes it in between; only a fault undoes an answer (dependencies/database.py:45).
AnswersComeTrue ==
  [][\A r \in Requests : At(r, "answered") /\ ~At(r, "answered")' =>
       TakesEffect(r) \/ Fault(r)]_vars

\* A name or address that is taken is reported as a conflict: "Translates known
\* IntegrityError constraints into domain conflicts"
\* (sqlalchemy_user_repository.py:26).
TakenIsToldAsConflict ==
  [][\A r \in Requests :
       req[r].op \in Writes /\ reply'[r] = "InternalServerError" /\ reply[r] = None =>
         ~Taken(r) \/ Unstorable(r)]_vars

-----------------------------------------------------------------------------
(* The directory that these requests implement *)

Members == INSTANCE Directory WITH
  name <- [x \in Users |-> users[x].username],
  address <- [x \in Users |-> users[x].email]

\* Each request that commits is one atomic step of a directory in which names
\* and addresses stay distinct; all other steps are invisible there
\* (auth_use_cases.py:52-61, user_use_cases.py:28-41).
ImplementsDirectory == Members!Spec

-----------------------------------------------------------------------------
(* What makes the invariants inductive: the rows, locks and index entries *)
(* behind each pc.                                                         *)

RegisterInv(r) ==
  req[r].op = "register" =>
    /\ pc[r] \in {"exists", "insert", "email", "username", "answered"}
    /\ req[r].username \in Names /\ req[r].email # None
    /\ pc[r] \in {"email", "username", "answered"} => req[r].email # TooLong
    /\ pc[r] # "answered" => req[r].row = None
    /\ pc[r] = "answered" => req[r].row \in Users /\ users[req[r].row].status = "none"

UpdateInv(r) ==
  req[r].op = "update_user" =>
    /\ req[r].row \in Users
    /\ pc[r] \in {"update", "email", "username", "answered"}
    /\ req[r].username \in GivenNames
    /\ pc[r] # "update" =>
         /\ lock[req[r].row] = r /\ Live(req[r].row)
         /\ ~Unstorable(r)

DeleteInv(r) ==
  req[r].op = "delete_user" =>
    /\ req[r].row \in Users
    /\ pc[r] \in {"delete", "answered"}
    /\ pc[r] = "answered" => lock[req[r].row] = r /\ Live(req[r].row)

LoginInv(r) ==
  req[r].op = "login" =>
    pc[r] \in {"get_by_identifier", "answered"} /\ req[r].username \in Names \cup Emails

\* A row is locked by the update or deletion of that row, and by nobody else.
LockInv(r) ==
  \A x \in Users : lock[x] = r =>
    req[r].row = x /\ req[r].op \in {"update_user", "delete_user"} /\ pc[r] \notin {"update", "delete"}

SlotInv(r) ==
  /\ req[r].op = None <=> pc[r] \in {"idle", "closed"}
  /\ RegisterInv(r) /\ UpdateInv(r) /\ DeleteInv(r) /\ LoginInv(r) /\ LockInv(r)

\* What the unique indexes guarantee while transactions are in progress: an
\* entry has no equal, and two registrations never get the same new row.
EntryInv(r) ==
  /\ EmailEntered(r) =>
       /\ EmailOwners(r) = {}
       /\ \A s \in Requests \ {r} : EmailEntered(s) => req[s].email # req[r].email
  /\ NameEntered(r) =>
       /\ NameOwners(r) = {}
       /\ \A s \in Requests \ {r} : NameEntered(s) => req[s].username # req[r].username
  /\ Committing(r, "register") =>
       \A s \in Requests \ {r} : Committing(s, "register") => req[s].row # req[r].row

RowsInv == \A x \in Users : (Live(x) <=> users[x].username # None) /\ (Live(x) <=> users[x].email # None)

IInv ==
  /\ TypeOK /\ RowsInv /\ UniqueAccounts
  /\ \A r \in Requests : SlotInv(r) /\ EntryInv(r)

=============================================================================
