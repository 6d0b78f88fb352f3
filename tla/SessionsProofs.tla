--------------------------- MODULE SessionsProofs ---------------------------
(***************************************************************************)
(* The invariants of Sessions, and its refinement of Tickets, for every    *)
(* number of users and concurrent requests and every length of the clock.  *)
(***************************************************************************)
EXTENDS Sessions, Waits

-----------------------------------------------------------------------------
(* Tokens, and the end of a transaction *)

LEMMA TokenFacts ==
  /\ \A t \in Tokens : User(t) \in Users /\ t[2] \in Seconds
  /\ \A u \in Users, n \in Seconds : <<u, n>> \in Tokens /\ User(<<u, n>>) = u
  /\ 0 \in Seconds
BY Limits DEF Tokens, User, Seconds

\* What the end of the transaction of r releases, and what it leaves to others.
LEMMA Released ==
  ASSUME TypeOK, NEW r \in Requests
  PROVE  /\ LocksWithout(r) \in [Rows -> Requests \cup {None}]
         /\ SharesWithout(r) \in [Users -> SUBSET Requests]
         /\ \A row \in Rows : LocksWithout(r)[row] # r
         /\ \A s \in Requests \ {r}, row \in Rows : LocksWithout(r)[row] = s <=> lock[row] = s
         /\ \A s \in Requests \ {r}, u \in Users : s \in SharesWithout(r)[u] <=> s \in sharing[u]
         /\ \A u \in Users : sharing[u] = {} => SharesWithout(r)[u] = {}
BY DistinctIdentities DEF TypeOK, LocksWithout, SharesWithout, Locked

-----------------------------------------------------------------------------
(* Requests other than the one that takes the step *)

\* What a step of r may do to the others: it takes no lock from them, changes no
\* row they have locked, and removes or adds nothing under a user they have.
Frame(r) ==
  /\ \A s \in Requests \ {r} :
       /\ pc'[s] = pc[s] /\ req'[s] = req[s]
       /\ \A row \in Rows : lock'[row] = s <=> lock[row] = s
       /\ \A t \in Tokens : Locked(s, t) => refresh_sessions'[t] = refresh_sessions[t]
       /\ \A u \in users : Locked(s, u) \/ s \in sharing[u] => u \in users'
       /\ \A u \in Users : s \in sharing[u] => s \in sharing'[u]
       /\ \A u \in Users : Locked(s, u) /\ sharing[u] = {} =>
            /\ sharing'[u] = {}
            /\ \A t \in Tokens : User(t) = u /\ refresh_sessions'[t] # "none" => Stored(t)

LEMMA OthersKeepInv ==
  ASSUME TypeOK, NEW r \in Requests, NEW s \in Requests \ {r}, SlotInv(s), Frame(r)
  PROVE  SlotInv(s)'
<1> DEFINE u == req[s].user
           t == req[s].new
           o == req[s].old
<1>1. /\ pc'[s] = pc[s] /\ req'[s] = req[s]
      /\ \A row \in Rows : Locked(s, row)' <=> Locked(s, row)
      /\ \A x \in Tokens : Locked(s, x) => refresh_sessions'[x] = refresh_sessions[x]
  BY DEF Frame, Locked
<1>2. Tokens \subseteq Rows /\ Users \subseteq Rows
  BY DEF Rows
<1>3. IssuerInv(s)'
  <2>1. /\ u \in users /\ s \in sharing[u] /\ u \in Users => u \in users' /\ s \in sharing'[u]
    BY DEF Frame
  <2>2. t \in Tokens /\ Locked(s, t) /\ ~Stored(t) => Locked(s, t)' /\ refresh_sessions'[t] = "none"
    BY <1>1, <1>2 DEF Stored
  <2> QED BY <1>1, <2>1, <2>2 DEF SlotInv, IssuerInv, Stored, Locked
<1>4. PresenterInv(s)'
  <2>1. o \in Tokens => (Locked(s, o)' <=> Locked(s, o))
    BY <1>1, <1>2
  <2>2. o \in Tokens /\ Locked(s, o) => refresh_sessions'[o] = refresh_sessions[o]
    BY <1>1
  <2> QED BY <1>1, <2>1, <2>2 DEF SlotInv, PresenterInv, Active, Locked
<1>5. LeaverInv(s)'
  <2>1. u \in Users /\ Locked(s, u) /\ u \in users /\ sharing[u] = {} =>
          /\ Locked(s, u)' /\ u \in users' /\ sharing'[u] = {}
          /\ \A x \in Tokens : User(x) = u /\ refresh_sessions'[x] # "none" => Stored(x)
    BY <1>1, <1>2 DEF Frame
  <2>2. u \in Users /\ Locked(s, u) /\ u \in users /\ sharing[u] = {} =>
          \A x \in SessionsOf(u)' : x \in SessionsOf(u) /\ x \in Rows
    BY <1>1, <1>2, <2>1 DEF SessionsOf, Stored
  <2> QED BY <1>1, <2>1, <2>2 DEF SlotInv, LeaverInv, Locked
<1> QED BY <1>1, <1>3, <1>4, <1>5 DEF SlotInv

\* Steps of r that write no table.
QuietStep(r) == TypeOK' /\ Frame(r) /\ SlotInv(r)' /\ UNCHANGED tables

LEMMA QuietStepKeepsIInv ==
  ASSUME IInv, NEW r \in Requests, QuietStep(r)
  PROVE  IInv'
<1>1. \A s \in Requests : SlotInv(s)'
  BY OthersKeepInv DEF IInv, QuietStep
<1>2. NoSessionWithoutUser'
  BY DEF IInv, QuietStep, tables, NoSessionWithoutUser, Stored
<1> QED BY <1>1, <1>2 DEF IInv, QuietStep

-----------------------------------------------------------------------------
(* The ways in which a request goes on *)

\* A step of r that changes nothing but its own slot.
LEMMA MoveFrame ==
  ASSUME TypeOK, NEW r \in Requests, UNCHANGED <<tables, lock, sharing>>,
         \A s \in Requests \ {r} : pc'[s] = pc[s] /\ req'[s] = req[s]
  PROVE  Frame(r)
BY DEF Frame, tables, Stored

LEMMA RefuseStep ==
  ASSUME IInv, NEW r \in Requests, NEW error \in Refusals, Refuse(r, error),
         pc[r] \notin {"idle", "answered"}
  PROVE  QuietStep(r)
<1> TypeOK /\ SlotInv(r)
  BY DEF IInv
<1>1. pc'[r] = "closed" /\ UNCHANGED <<tables, req>> /\ lock' = LocksWithout(r)
      /\ sharing' = SharesWithout(r) /\ \A s \in Requests \ {r} : pc'[s] = pc[s]
  BY DEF Refuse, Goto, TypeOK
<1>2. TypeOK'
  BY Released DEF TypeOK, Refuse, Goto, tables
<1>3. Frame(r)
  BY <1>1, Released DEF Frame, tables, Stored
<1>4. SlotInv(r)'
  BY <1>1, Released DEF SlotInv, IssuerInv, PresenterInv, LeaverInv, Locked, TypeOK
<1> QED BY <1>1, <1>2, <1>3, <1>4 DEF QuietStep

LEMMA FinishSlot ==
  ASSUME TypeOK, NEW r \in Requests, Finish(r)
  PROVE  /\ pc'[r] = "idle" /\ req'[r] = NoRequest
         /\ lock' = LocksWithout(r) /\ sharing' = SharesWithout(r)
         /\ \A s \in Requests \ {r} : pc'[s] = pc[s] /\ req'[s] = req[s]
         /\ SlotInv(r)'
<1>1. /\ pc'[r] = "idle" /\ req'[r] = NoRequest
      /\ lock' = LocksWithout(r) /\ sharing' = SharesWithout(r)
      /\ \A s \in Requests \ {r} : pc'[s] = pc[s] /\ req'[s] = req[s]
  BY DEF Finish, Goto, TypeOK
<1>2. SlotInv(r)'
  BY <1>1, Released, DistinctIdentities
     DEF SlotInv, IssuerInv, PresenterInv, LeaverInv, Locked, NoRequest, Request, EventKinds
<1> QED BY <1>1, <1>2

\* The end of a request, whatever it writes: its slot is free and every value typed.
LEMMA FinishType ==
  ASSUME TypeOK, NEW r \in Requests, Finish(r), users' \subseteq Users,
         refresh_sessions' \in [Tokens -> {"none", "active", "revoked"}]
  PROVE  TypeOK'
BY Released, TokenFacts DEF TypeOK, Finish, Goto, NoRequest, Request, RequestType

LEMMA FinishStep ==
  ASSUME IInv, NEW r \in Requests, Finish(r), UNCHANGED tables
  PROVE  QuietStep(r)
<1> TypeOK
  BY DEF IInv
<1>1. TypeOK'
  BY FinishType DEF TypeOK, tables
<1>2. Frame(r)
  BY FinishSlot, Released DEF Frame, tables, Stored
<1> QED BY <1>1, <1>2, FinishSlot DEF QuietStep

LEMMA BeginStep ==
  ASSUME IInv, NEW r \in Requests, NEW p \in RequestType, NEW statement \in Statements,
         Begin(r, statement, p),
         \/ p.op = "login" /\ statement = "get_by_identifier" /\ p.user \in Users
         \/ /\ p.op \in {"refresh", "logout"} /\ statement = "verify"
            /\ p.user \in Users /\ p.old \in Tokens /\ User(p.old) = p.user
         \/ p.op = "delete_user" /\ statement = "delete_user" /\ p.user \in Users
  PROVE  QuietStep(r)
<1> TypeOK /\ SlotInv(r)
  BY DEF IInv
<1>1. /\ pc'[r] = statement /\ req'[r] = p /\ pc[r] = "idle" /\ UNCHANGED <<tables, lock, sharing>>
      /\ \A s \in Requests \ {r} : pc'[s] = pc[s] /\ req'[s] = req[s]
  BY DEF Begin, Goto, At, TypeOK
<1>2. TypeOK'
  BY DEF TypeOK, Begin, Goto, tables
<1>3. \A row \in Rows : ~Locked(r, row)'
  BY <1>1 DEF SlotInv, Locked
<1>4. SlotInv(r)'
  BY <1>1, <1>3, DistinctIdentities
     DEF SlotInv, IssuerInv, PresenterInv, LeaverInv, EventKinds
<1> QED BY <1>1, <1>2, <1>4, MoveFrame DEF QuietStep

LEMMA ArriveStep ==
  ASSUME IInv, NEW r \in Requests, Arrive(r)
  PROVE  QuietStep(r)
<1>0. now \in Seconds /\ known \subseteq Tokens
  BY DEF IInv, TypeOK
<1>1. ASSUME NEW u \in Users, BeginLogin(r, u) PROVE QuietStep(r)
  <2>1. Request("login", u, None, now) \in RequestType
    BY <1>0, <1>1 DEF Request, RequestType, Ops, EventKinds
  <2> QED BY <1>1, <2>1, BeginStep DEF BeginLogin, Statements, Request
<1>2. ASSUME NEW u \in Users, BeginDeleteUser(r, u) PROVE QuietStep(r)
  <2>1. Request("delete_user", u, None, now) \in RequestType
    BY <1>0, <1>2 DEF Request, RequestType, Ops, EventKinds
  <2> QED BY <1>2, <2>1, BeginStep DEF BeginDeleteUser, Statements, Request
<1>3. ASSUME NEW t \in Tokens, BeginRefresh(r, t) PROVE QuietStep(r)
  <2>1. Request("refresh", User(t), t, now) \in RequestType
    BY <1>0, <1>3, TokenFacts DEF Request, RequestType, Ops, EventKinds
  <2> QED BY <1>3, <2>1, BeginStep, TokenFacts DEF BeginRefresh, Statements, Request
<1>4. ASSUME NEW t \in Tokens, BeginLogout(r, t) PROVE QuietStep(r)
  <2>1. Request("logout", User(t), t, now) \in RequestType
    BY <1>0, <1>4, TokenFacts DEF Request, RequestType, Ops, EventKinds
  <2> QED BY <1>4, <2>1, BeginStep, TokenFacts DEF BeginLogout, Statements, Request
<1> QED BY <1>1, <1>2, <1>3, <1>4 DEF Arrive

-----------------------------------------------------------------------------
(* The statements *)

\* A statement that goes on after it has got the lock on row.
LEMMA WriteFacts ==
  ASSUME TypeOK, NEW r \in Requests, NEW row \in Rows, NEW statement \in Statements,
         Write(r, row, statement)
  PROVE  /\ TypeOK' /\ Frame(r) /\ pc'[r] = statement /\ UNCHANGED <<tables, req, sharing>>
         /\ lock'[row] = r /\ \A other \in Rows : lock[other] = r => lock'[other] = r
<1>1. /\ pc'[r] = statement /\ UNCHANGED <<tables, req, sharing>>
      /\ lock'[row] = r /\ \A other \in Rows \ {row} : lock'[other] = lock[other]
      /\ \A s \in Requests \ {r} : pc'[s] = pc[s] /\ lock[row] # s
  BY DistinctIdentities DEF Write, Free, Lock, Goto, TypeOK
<1>2. TypeOK'
  BY DEF TypeOK, Write, Lock, Goto, tables
<1>3. Frame(r)
  BY <1>1 DEF Frame, tables, Stored
<1> QED BY <1>1, <1>2, <1>3

LEMMA IssueTokensStep ==
  ASSUME IInv, NEW r \in Requests, NEW statement \in Statements, IssueTokens(r, statement),
         \/ req[r].op = "login" /\ statement = "insert"
         \/ req[r].op = "refresh" /\ statement = "revoke_for_user",
         pc[r] \notin {"insert", "foreign_key", "cascade", "answered", "idle"}
  PROVE  QuietStep(r)
<1> TypeOK /\ SlotInv(r)
  BY DEF IInv
<1> DEFINE t == <<req[r].user, now>>
<1>1. req[r].user \in Users /\ t \in Tokens /\ User(t) = req[r].user
  BY TokenFacts DEF SlotInv, IssuerInv, TypeOK
<1> HIDE DEF t
<1>2. /\ pc'[r] = statement /\ req'[r] = [req[r] EXCEPT !.new = t] /\ UNCHANGED <<tables, lock, sharing>>
      /\ \A s \in Requests \ {r} : pc'[s] = pc[s] /\ req'[s] = req[s]
  BY DEF IssueTokens, Goto, TypeOK, t
<1>3. TypeOK'
  <2>1. req'[r] \in RequestType
    BY <1>1, <1>2 DEF TypeOK, RequestType
  <2>2. req' \in [Requests -> RequestType]
    BY <2>1 DEF TypeOK, IssueTokens
  <2> QED BY <2>2 DEF TypeOK, IssueTokens, Goto, tables
<1>4. /\ req'[r].op = req[r].op /\ req'[r].user = req[r].user /\ req'[r].old = req[r].old
      /\ req'[r].new = t
  BY <1>2 DEF TypeOK, RequestType
<1>5. \A row \in Rows : ~Locked(r, row)'
  BY <1>2 DEF SlotInv, Locked
<1>6. SlotInv(r)'
  BY <1>1, <1>2, <1>4, <1>5 DEF SlotInv, IssuerInv, PresenterInv, LeaverInv
<1> QED BY <1>2, <1>3, <1>6, MoveFrame DEF QuietStep

LEMMA GetByIdentifierStep ==
  ASSUME IInv, NEW r \in Requests, GetByIdentifier(r)
  PROVE  QuietStep(r)
<1>1. pc[r] = "get_by_identifier" /\ req[r].op = "login"
  BY DEF GetByIdentifier, At, IInv, SlotInv
<1> QED BY <1>1, IssueTokensStep, RefuseStep DEF GetByIdentifier, Statements, Refusals

LEMMA GetByIdStep ==
  ASSUME IInv, NEW r \in Requests, GetById(r)
  PROVE  QuietStep(r)
<1>1. pc[r] = "get_by_id" /\ req[r].op = "refresh"
  BY DEF GetById, At, IInv, SlotInv
<1> QED BY <1>1, IssueTokensStep, RefuseStep DEF GetById, Statements, Refusals

\* Who executes the statements that several handlers share.
LEMMA Executes ==
  ASSUME IInv, NEW r \in Requests
  PROVE  /\ pc[r] \in {"insert", "foreign_key"} => req[r].op \in {"login", "refresh"}
         /\ pc[r] = "verify" => req[r].op \in {"refresh", "logout"}
         /\ pc[r] = "revoke" => req[r].op = "logout"
         /\ pc[r] \in {"delete_user", "cascade"} => req[r].op = "delete_user"
BY DEF IInv, SlotInv, IssuerInv, PresenterInv, LeaverInv, TypeOK, RequestType, Ops, EventKinds

LEMMA InsertSessionStep ==
  ASSUME IInv, NEW r \in Requests, InsertSession(r)
  PROVE  QuietStep(r)
<1> DEFINE t == req[r].new
<1>0. TypeOK /\ SlotInv(r) /\ pc[r] = "insert" /\ req[r].op \in {"login", "refresh"}
  BY Executes DEF IInv, InsertSession, At
<1>1. CASE Stored(t)
  BY <1>0, <1>1, RefuseStep DEF InsertSession, Refusals
<1>2. CASE ~Stored(t)
  <2>1. t \in Tokens /\ t \in Rows /\ req[r].user \in Users
    BY <1>0 DEF SlotInv, IssuerInv, Rows
  <2>2. /\ TypeOK' /\ Frame(r) /\ pc'[r] = "foreign_key" /\ UNCHANGED <<tables, req, sharing>>
        /\ lock'[t] = r /\ \A other \in Rows : lock[other] = r => lock'[other] = r
    BY <1>0, <1>2, <2>1, WriteFacts DEF InsertSession, Statements
  <2>3. SlotInv(r)'
    BY <1>0, <1>2, <2>1, <2>2
       DEF SlotInv, IssuerInv, PresenterInv, LeaverInv, Locked, Active, Stored, tables, Rows
  <2> QED BY <2>2, <2>3 DEF QuietStep
<1> QED BY <1>1, <1>2

LEMMA CheckForeignKeyStep ==
  ASSUME IInv, NEW r \in Requests, CheckForeignKey(r)
  PROVE  QuietStep(r)
<1> DEFINE u == req[r].user
<1>0. TypeOK /\ SlotInv(r) /\ pc[r] = "foreign_key" /\ req[r].op \in {"login", "refresh"}
  BY Executes DEF IInv, CheckForeignKey, At
<1>1. CASE u \notin users
  BY <1>0, <1>1, RefuseStep DEF CheckForeignKey, Refusals
<1>2. CASE u \in users
  <2>1. u \in Users /\ req[r].new \in Tokens /\ u \in Rows
    BY <1>0 DEF SlotInv, IssuerInv, Rows
  <2>2. /\ lock[u] \in {None, r} /\ sharing' = [sharing EXCEPT ![u] = @ \cup {r}]
        /\ pc' = [pc EXCEPT ![r] = "answered"] /\ reply' = [reply EXCEPT ![r] = "ok"]
        /\ known' = known \cup {req[r].new} /\ UNCHANGED <<now, tables, req, lock>>
    BY <1>2 DEF CheckForeignKey, Free, Answer, Goto
  <2>3. TypeOK'
    BY <1>0, <2>1, <2>2 DEF TypeOK, tables
  <2>4. Frame(r)
    BY <1>0, <2>1, <2>2, DistinctIdentities DEF Frame, TypeOK, tables, Stored, Locked
  <2>5. SlotInv(r)'
    BY <1>0, <1>2, <2>1, <2>2
       DEF SlotInv, IssuerInv, PresenterInv, LeaverInv, Locked, Active, Stored, tables, TypeOK
  <2> QED BY <2>2, <2>3, <2>4, <2>5 DEF QuietStep
<1> QED BY <1>1, <1>2

\* An answer of a request that holds what its operation needs to commit.
LEMMA AnswerStep ==
  ASSUME IInv, NEW r \in Requests, Answer(r), UNCHANGED <<now, tables, known, req, sharing>>,
         lock' \in [Rows -> Requests \cup {None}],
         \A s \in Requests \ {r}, row \in Rows : lock'[row] = s <=> lock[row] = s,
         pc[r] # "idle",
         \/ /\ req[r].op = "logout" /\ req[r].old \in Tokens
            /\ lock'[req[r].old] = r => Active(req[r].old)
         \/ /\ req[r].op = "delete_user" /\ lock' = lock
            /\ LeaverInv(r) /\ pc[r] = "cascade"
            /\ \A t \in SessionsOf(req[r].user) : Locked(r, t)
  PROVE  QuietStep(r)
<1>0. TypeOK /\ SlotInv(r)
  BY DEF IInv
<1>1. pc' = [pc EXCEPT ![r] = "answered"] /\ reply' = [reply EXCEPT ![r] = "ok"]
  BY DEF Answer, Goto
<1>2. TypeOK'
  BY <1>0, <1>1 DEF TypeOK, tables
<1>3. Frame(r)
  BY <1>0, <1>1 DEF Frame, tables, TypeOK, Stored
<1>4. pc'[r] = "answered"
  BY <1>0, <1>1 DEF TypeOK
<1>5. SlotInv(r)'
  <2>1. CASE req[r].op = "logout"
    BY <1>0, <1>4, <2>1
       DEF SlotInv, IssuerInv, PresenterInv, LeaverInv, Locked, Active, tables
  <2>2. CASE req[r].op = "delete_user"
    BY <1>0, <1>4, <2>2
       DEF SlotInv, IssuerInv, PresenterInv, LeaverInv, Locked, SessionsOf, Stored, tables
  <2> QED BY <2>1, <2>2
<1> QED BY <1>2, <1>3, <1>5 DEF QuietStep

LEMMA VerifyStep ==
  ASSUME IInv, NEW r \in Requests, Verify(r)
  PROVE  QuietStep(r)
<1>0. TypeOK /\ SlotInv(r) /\ pc[r] = "verify" /\ req[r].op \in {"refresh", "logout"}
  BY Executes DEF IInv, Verify, At
<1>1. CASE Verifies(req[r].old)
  <2> DEFINE next == IF req[r].op = "refresh" THEN "get_by_id" ELSE "revoke"
  <2>1. pc' = [pc EXCEPT ![r] = next] /\ UNCHANGED <<now, tables, known, req, reply, lock, sharing>>
    BY <1>1 DEF Verify, Goto
  <2>2. TypeOK' /\ pc'[r] = next
    BY <1>0, <2>1 DEF TypeOK, tables, Statements
  <2>3. SlotInv(r)'
    BY <1>0, <2>1, <2>2 DEF SlotInv, IssuerInv, PresenterInv, LeaverInv, Locked
  <2>4. Frame(r)
    BY <1>0, <2>1, MoveFrame DEF TypeOK
  <2> QED BY <2>1, <2>2, <2>3, <2>4 DEF QuietStep
<1>2. CASE ~Verifies(req[r].old) /\ req[r].op = "refresh"
  BY <1>0, <1>2, RefuseStep DEF Verify, Refusals
<1>3. CASE ~Verifies(req[r].old) /\ req[r].op = "logout"
  <2>1. req[r].old \in Tokens /\ lock[req[r].old] # r
    BY <1>0, <1>3 DEF SlotInv, PresenterInv, Locked, Rows
  <2> QED BY <1>0, <1>3, <2>1, AnswerStep DEF Verify, TypeOK
<1> QED BY <1>0, <1>1, <1>2, <1>3

LEMMA RevokeForUserStep ==
  ASSUME IInv, NEW r \in Requests, RevokeForUser(r)
  PROVE  QuietStep(r)
<1> DEFINE o == req[r].old
<1>0. TypeOK /\ SlotInv(r) /\ pc[r] = "revoke_for_user" /\ req[r].op = "refresh"
  BY DEF IInv, RevokeForUser, At, SlotInv
<1>1. CASE Active(o) /\ Write(r, o, "insert")
  <2>1. o \in Tokens /\ o \in Rows
    BY <1>0 DEF SlotInv, PresenterInv, Rows
  <2>2. /\ TypeOK' /\ Frame(r) /\ pc'[r] = "insert" /\ UNCHANGED <<tables, req, sharing>>
        /\ lock'[o] = r
    BY <1>0, <1>1, <2>1, WriteFacts DEF Statements
  <2>3. SlotInv(r)'
    BY <1>0, <1>1, <2>1, <2>2
       DEF SlotInv, IssuerInv, PresenterInv, LeaverInv, Locked, Active, tables
  <2> QED BY <2>2, <2>3 DEF QuietStep
<1>2. CASE Refuse(r, "InvalidCredentials")
  BY <1>0, <1>2, RefuseStep DEF Refusals
<1> QED BY <1>1, <1>2 DEF RevokeForUser

LEMMA RevokeStep ==
  ASSUME IInv, NEW r \in Requests, Revoke(r)
  PROVE  QuietStep(r)
<1> DEFINE o == req[r].old
<1>0. TypeOK /\ SlotInv(r) /\ pc[r] = "revoke" /\ req[r].op = "logout"
  BY Executes DEF IInv, Revoke, At
<1>1. o \in Tokens /\ o \in Rows /\ lock[o] # r
  BY <1>0 DEF SlotInv, PresenterInv, Locked, Rows
<1>2. CASE Active(o) /\ Free(r, o) /\ Lock(r, o)
  <2>1. /\ lock' \in [Rows -> Requests \cup {None}]
        /\ \A s \in Requests \ {r}, row \in Rows : lock'[row] = s <=> lock[row] = s
    BY <1>0, <1>1, <1>2, DistinctIdentities DEF Free, Lock, TypeOK
  <2> QED BY <1>0, <1>1, <1>2, <2>1, AnswerStep DEF Revoke
<1>3. CASE ~Active(o) /\ UNCHANGED lock
  BY <1>0, <1>1, <1>3, AnswerStep DEF Revoke, TypeOK
<1> QED BY <1>2, <1>3 DEF Revoke

LEMMA DeleteUserStep ==
  ASSUME IInv, NEW r \in Requests, DeleteUser(r)
  PROVE  QuietStep(r)
<1> DEFINE u == req[r].user
<1>0. TypeOK /\ SlotInv(r) /\ pc[r] = "delete_user" /\ req[r].op = "delete_user"
  BY Executes DEF IInv, DeleteUser, At
<1>1. CASE u \in users /\ sharing[u] = {} /\ Write(r, u, "cascade")
  <2>1. u \in Users /\ u \in Rows
    BY <1>0 DEF SlotInv, LeaverInv, Rows
  <2>2. /\ TypeOK' /\ Frame(r) /\ pc'[r] = "cascade" /\ UNCHANGED <<tables, req, sharing>>
        /\ lock'[u] = r
    BY <1>0, <1>1, <2>1, WriteFacts DEF Statements
  <2>3. SlotInv(r)'
    BY <1>0, <1>1, <2>1, <2>2
       DEF SlotInv, IssuerInv, PresenterInv, LeaverInv, Locked, tables
  <2> QED BY <2>2, <2>3 DEF QuietStep
<1>2. CASE Refuse(r, "UserNotFound")
  BY <1>0, <1>2, RefuseStep DEF Refusals
<1> QED BY <1>1, <1>2 DEF DeleteUser

LEMMA CascadeToSessionStep ==
  ASSUME IInv, NEW r \in Requests, NEW t \in Tokens, CascadeToSession(r, t)
  PROVE  QuietStep(r)
<1>0. TypeOK /\ SlotInv(r) /\ pc[r] = "cascade" /\ req[r].op = "delete_user"
  BY Executes DEF IInv, CascadeToSession, At
<1>1. /\ t \in Rows /\ lock[t] = None /\ lock' = [lock EXCEPT ![t] = r]
      /\ UNCHANGED <<now, tables, known, pc, req, reply, sharing>>
  BY DEF CascadeToSession, Lock, Rows
<1>2. TypeOK'
  BY <1>0, <1>1 DEF TypeOK, tables
<1>3. Frame(r)
  BY <1>0, <1>1, DistinctIdentities DEF Frame, TypeOK, tables, Stored
<1>4. req[r].user \in Rows /\ lock'[req[r].user] = r
  BY <1>0, <1>1 DEF SlotInv, LeaverInv, Locked, TypeOK, Rows
<1>5. SlotInv(r)'
  BY <1>0, <1>1, <1>4 DEF SlotInv, IssuerInv, PresenterInv, LeaverInv, Locked, tables
<1> QED BY <1>1, <1>2, <1>3, <1>5 DEF QuietStep

LEMMA CascadeDoneStep ==
  ASSUME IInv, NEW r \in Requests, CascadeDone(r)
  PROVE  QuietStep(r)
<1>0. TypeOK /\ SlotInv(r) /\ pc[r] = "cascade" /\ req[r].op = "delete_user"
  BY Executes DEF IInv, CascadeDone, At
<1> QED BY <1>0, AnswerStep DEF CascadeDone, TypeOK, SlotInv

LEMMA CloseStep ==
  ASSUME IInv, NEW r \in Requests, Close(r)
  PROVE  QuietStep(r)
BY FinishStep DEF Close

LEMMA FaultStep ==
  ASSUME IInv, NEW r \in Requests, Fault(r)
  PROVE  QuietStep(r)
BY FinishStep, RefuseStep DEF Fault, At, Refusals

LEMMA DeadlockVictimStep ==
  ASSUME IInv, NEW r \in Requests, DeadlockVictim(r)
  PROVE  QuietStep(r)
<1>1. WaitsFor(r) # {}
  BY DEF DeadlockVictim, Deadlocked
<1>2. pc[r] \notin {"idle", "answered"}
  BY <1>1 DEF WaitsFor
<1> QED BY <1>2, RefuseStep DEF DeadlockVictim, Refusals

-----------------------------------------------------------------------------
(* Commits *)

\* A commit of r: what it may do to the rows under the locks of the others.
LEMMA CommitKeepsIInv ==
  ASSUME IInv, NEW r \in Requests, Finish(r), users' \subseteq users,
         refresh_sessions' \in [Tokens -> {"none", "active", "revoked"}],
         \A t \in Tokens : refresh_sessions'[t] # refresh_sessions[t] => Locked(r, t),
         \A t \in Tokens : refresh_sessions'[t] # "none" =>
           Stored(t) \/ (User(t) \in users /\ r \in sharing[User(t)]),
         \A u \in users \ users' : Locked(r, u) /\ sharing[u] = {}
            /\ \A t \in Tokens : User(t) = u => refresh_sessions'[t] = "none"
  PROVE  IInv'
<1> TypeOK
  BY DEF IInv
<1>1. TypeOK'
  BY FinishType DEF TypeOK
<1>2. Frame(r)
  <2> SUFFICES ASSUME NEW s \in Requests \ {r}
               PROVE  /\ pc'[s] = pc[s] /\ req'[s] = req[s]
                      /\ \A row \in Rows : lock'[row] = s <=> lock[row] = s
                      /\ \A t \in Tokens : Locked(s, t) => refresh_sessions'[t] = refresh_sessions[t]
                      /\ \A u \in users : Locked(s, u) \/ s \in sharing[u] => u \in users'
                      /\ \A u \in Users : s \in sharing[u] => s \in sharing'[u]
                      /\ \A u \in Users : Locked(s, u) /\ sharing[u] = {} =>
                           /\ sharing'[u] = {}
                           /\ \A t \in Tokens : User(t) = u /\ refresh_sessions'[t] # "none" => Stored(t)
    BY DEF Frame
  <2>1. /\ pc'[s] = pc[s] /\ req'[s] = req[s]
        /\ \A row \in Rows : lock'[row] = s <=> lock[row] = s
        /\ \A u \in Users : s \in sharing[u] => s \in sharing'[u]
        /\ \A u \in Users : sharing[u] = {} => sharing'[u] = {}
    BY FinishSlot, Released
  <2>2. \A t \in Tokens : Locked(s, t) => refresh_sessions'[t] = refresh_sessions[t]
    BY DEF Locked
  <2>3. \A u \in users : Locked(s, u) \/ s \in sharing[u] => u \in users'
    BY DEF Locked
  <2>4. \A u \in Users : sharing[u] = {} =>
          \A t \in Tokens : User(t) = u /\ refresh_sessions'[t] # "none" => Stored(t)
    OBVIOUS
  <2> QED BY <2>1, <2>2, <2>3, <2>4
<1>3. \A s \in Requests : SlotInv(s)'
  BY <1>2, OthersKeepInv, FinishSlot DEF IInv
<1>4. NoSessionWithoutUser'
  BY DEF IInv, NoSessionWithoutUser, Stored
<1> QED BY <1>1, <1>3, <1>4 DEF IInv

\* What a login or refresh has made sure of when it commits.
LEMMA NewToken ==
  ASSUME IInv, NEW r \in Requests, Committing(r, "login") \/ Committing(r, "refresh")
  PROVE  /\ req[r].new \in Tokens /\ User(req[r].new) = req[r].user
         /\ Locked(r, req[r].new) /\ ~Stored(req[r].new)
         /\ req[r].user \in users /\ r \in sharing[req[r].user]
BY DEF IInv, SlotInv, IssuerInv, Committing, At

LEMMA CommitLoginStep ==
  ASSUME IInv, NEW r \in Requests, CommitLogin(r)
  PROVE  IInv'
<1>1. Committing(r, "login") /\ Finish(r) /\ UNCHANGED users
      /\ refresh_sessions' = [refresh_sessions EXCEPT ![req[r].new] = "active"]
  BY DEF CommitLogin
<1>2. refresh_sessions' \in [Tokens -> {"none", "active", "revoked"}]
      /\ \A t \in Tokens : t = req[r].new \/ refresh_sessions'[t] = refresh_sessions[t]
  BY <1>1 DEF IInv, TypeOK
<1>3. users' \subseteq users /\ users \ users' = {}
  BY <1>1
<1>4. \A t \in Tokens : refresh_sessions'[t] # refresh_sessions[t] => Locked(r, t)
  BY <1>1, <1>2, NewToken
<1>5. \A t \in Tokens : refresh_sessions'[t] # "none" =>
        Stored(t) \/ (User(t) \in users /\ r \in sharing[User(t)])
  BY <1>1, <1>2, NewToken DEF Stored
<1> QED BY <1>1, <1>2, <1>3, <1>4, <1>5, CommitKeepsIInv

\* The token that a refresh presented is another one than it has made.
LEMMA OldToken ==
  ASSUME IInv, NEW r \in Requests, Committing(r, "refresh")
  PROVE  /\ req[r].old \in Tokens /\ Locked(r, req[r].old) /\ Active(req[r].old)
         /\ req[r].old # req[r].new
BY NewToken DEF IInv, SlotInv, PresenterInv, Committing, At, Active, Stored

LEMMA CommitRefreshStep ==
  ASSUME IInv, NEW r \in Requests, CommitRefresh(r)
  PROVE  IInv'
<1> DEFINE o == req[r].old
           n == req[r].new
<1>1. Committing(r, "refresh") /\ Finish(r) /\ UNCHANGED users
      /\ refresh_sessions' = [refresh_sessions EXCEPT ![o] = "revoked", ![n] = "active"]
  BY DEF CommitRefresh
<1>2. refresh_sessions' \in [Tokens -> {"none", "active", "revoked"}]
      /\ \A t \in Tokens : t \in {o, n} \/ refresh_sessions'[t] = refresh_sessions[t]
  BY <1>1 DEF IInv, TypeOK
<1>3. Stored(o) /\ Locked(r, o) /\ Locked(r, n) /\ User(n) \in users /\ r \in sharing[User(n)]
  BY <1>1, NewToken, OldToken DEF Active, Stored
<1> HIDE DEF o, n
<1>4. users' \subseteq users /\ users \ users' = {}
  BY <1>1
<1>5. \A t \in Tokens : refresh_sessions'[t] # refresh_sessions[t] => Locked(r, t)
  BY <1>2, <1>3
<1>6. \A t \in Tokens : refresh_sessions'[t] # "none" =>
        Stored(t) \/ (User(t) \in users /\ r \in sharing[User(t)])
  BY <1>2, <1>3 DEF Stored
<1> QED BY <1>1, <1>2, <1>4, <1>5, <1>6, CommitKeepsIInv

\* A logout that has locked its token found it active.
LEMMA LogoutToken ==
  ASSUME IInv, NEW r \in Requests, Committing(r, "logout"), Locked(r, req[r].old)
  PROVE  req[r].old \in Tokens /\ Active(req[r].old)
BY DEF IInv, SlotInv, PresenterInv, Committing, At

LEMMA CommitLogoutStep ==
  ASSUME IInv, NEW r \in Requests, CommitLogout(r)
  PROVE  IInv'
<1> DEFINE o == req[r].old
<1>1. Committing(r, "logout") /\ Finish(r) /\ UNCHANGED users
  BY DEF CommitLogout
<1>2. refresh_sessions' \in [Tokens -> {"none", "active", "revoked"}]
      /\ \A t \in Tokens : (t = o /\ Locked(r, o) /\ Stored(o)) \/ refresh_sessions'[t] = refresh_sessions[t]
  BY <1>1, LogoutToken DEF CommitLogout, IInv, TypeOK, Active, Stored
<1> HIDE DEF o
<1>3. users' \subseteq users /\ users \ users' = {}
  BY <1>1
<1>4. \A t \in Tokens : refresh_sessions'[t] # refresh_sessions[t] => Locked(r, t)
  BY <1>2
<1>5. \A t \in Tokens : refresh_sessions'[t] # "none" => Stored(t)
  BY <1>2 DEF Stored
<1> QED BY <1>1, <1>2, <1>3, <1>4, <1>5, CommitKeepsIInv

\* A user who is being deleted, when the cascade is over.
LEMMA Leaver ==
  ASSUME IInv, NEW r \in Requests, Committing(r, "delete_user")
  PROVE  /\ req[r].user \in users /\ Locked(r, req[r].user) /\ sharing[req[r].user] = {}
         /\ \A t \in Tokens : User(t) = req[r].user /\ Stored(t) => Locked(r, t)
BY DEF IInv, SlotInv, LeaverInv, Committing, At, SessionsOf

LEMMA CommitDeleteStep ==
  ASSUME IInv, NEW r \in Requests, CommitDelete(r)
  PROVE  IInv'
<1> DEFINE u == req[r].user
<1>1. Committing(r, "delete_user") /\ Finish(r) /\ users' = users \ {u}
      /\ refresh_sessions' = [t \in Tokens |-> IF User(t) = u /\ Locked(r, t)
                                                 THEN "none" ELSE refresh_sessions[t]]
  BY DEF CommitDelete
<1>2. refresh_sessions' \in [Tokens -> {"none", "active", "revoked"}]
  BY <1>1 DEF IInv, TypeOK
<1>3. /\ \A t \in Tokens : refresh_sessions'[t] # refresh_sessions[t] => Locked(r, t)
      /\ \A t \in Tokens : refresh_sessions'[t] # "none" => Stored(t)
  BY <1>1 DEF Stored
<1>4. \A t \in Tokens : User(t) = u => refresh_sessions'[t] = "none"
  BY <1>1, Leaver DEF Stored
<1>5. Locked(r, u) /\ sharing[u] = {}
  BY <1>1, Leaver
<1> HIDE DEF u
<1>6. users' \subseteq users /\ \A x \in users \ users' : x = u
  BY <1>1
<1>7. \A x \in users \ users' : Locked(r, x) /\ sharing[x] = {}
        /\ \A t \in Tokens : User(t) = x => refresh_sessions'[t] = "none"
  BY <1>4, <1>5, <1>6
<1> QED BY <1>1, <1>2, <1>3, <1>6, <1>7, CommitKeepsIInv

-----------------------------------------------------------------------------
(* The inductive invariant *)

LEMMA InitIInv == Init => IInv
<1> SUFFICES ASSUME Init PROVE IInv
  OBVIOUS
<1>1. TypeOK
  BY TokenFacts DEF Init, TypeOK, NoRequest, Request, RequestType
<1>2. NoSessionWithoutUser
  BY DEF Init, NoSessionWithoutUser, Stored
<1>3. ASSUME NEW r \in Requests PROVE SlotInv(r)
  BY DistinctIdentities
     DEF Init, SlotInv, IssuerInv, PresenterInv, LeaverInv, Locked, NoRequest, Request, EventKinds
<1> QED BY <1>1, <1>2, <1>3 DEF IInv

\* Everything a request does before it commits is a quiet step.
LEMMA ServeStep ==
  ASSUME IInv, NEW r \in Requests, Serve(r)
  PROVE  QuietStep(r) \/ CommitLogin(r) \/ CommitRefresh(r) \/ CommitLogout(r) \/ CommitDelete(r)
BY GetByIdentifierStep, InsertSessionStep, CheckForeignKeyStep, VerifyStep, GetByIdStep,
   RevokeForUserStep, RevokeStep, DeleteUserStep, CascadeToSessionStep, CascadeDoneStep, CloseStep
   DEF Serve

LEMMA OutsideStep ==
  ASSUME IInv, UNCHANGED <<tables, pc, req, reply, lock, sharing, known>>, now' \in Seconds
  PROVE  IInv'
<1>1. TypeOK'
  BY DEF IInv, TypeOK, tables
<1>2. NoSessionWithoutUser'
  BY DEF IInv, NoSessionWithoutUser, Stored, tables
<1>3. ASSUME NEW r \in Requests PROVE SlotInv(r)'
  BY DEF IInv, SlotInv, IssuerInv, PresenterInv, LeaverInv, Locked, Active, Stored, SessionsOf, tables
<1> QED BY <1>1, <1>2, <1>3 DEF IInv

LEMMA NextKeepsIInv == IInv /\ [Next]_vars => IInv'
<1> SUFFICES ASSUME IInv, [Next]_vars PROVE IInv'
  OBVIOUS
<1>1. ASSUME NEW r \in Requests, Serve(r) PROVE IInv'
  BY <1>1, ServeStep, QuietStepKeepsIInv, CommitLoginStep, CommitRefreshStep, CommitLogoutStep,
     CommitDeleteStep
<1>2. ASSUME NEW r \in Requests, Arrive(r) \/ Fault(r) \/ DeadlockVictim(r) PROVE IInv'
  BY <1>2, ArriveStep, FaultStep, DeadlockVictimStep, QuietStepKeepsIInv
<1>3. CASE Tick
  <2>1. now' \in Seconds
    BY <1>3, Limits DEF Tick, Seconds, IInv, TypeOK
  <2> QED BY <1>3, <2>1, OutsideStep DEF Tick
<1>4. CASE UNCHANGED vars
  BY <1>4, OutsideStep DEF vars, tables, IInv, TypeOK
<1> QED BY <1>1, <1>2, <1>3, <1>4 DEF Next

\* What each request relies on holds at every step.
THEOREM InductiveInvariant == Spec => []IInv
BY InitIInv, NextKeepsIInv, PTL DEF Spec

\* Every value stays in its type: only tokens that exist are stored or given out.
THEOREM TypeCorrect == Spec => []TypeOK
<1>1. IInv => TypeOK
  BY DEF IInv
<1> QED BY <1>1, InductiveInvariant, PTL

\* No refresh session is left behind by its user, who may be deleted at any time
\* of a login or refresh (auth_use_cases.py:67-81, 92-115).
THEOREM NoSessionWithoutUserHolds == Spec => []NoSessionWithoutUser
<1>1. IInv => NoSessionWithoutUser
  BY DEF IInv
<1> QED BY <1>1, InductiveInvariant, PTL

\* A token that is announced and not stored yet is safe: nobody else makes its
\* row, and nobody deletes its user.
THEOREM AnnouncedTokenIsSafeHolds == Spec => []AnnouncedTokenIsSafe
<1>1. ASSUME IInv, NEW r \in Requests, At(r, "answered"), req[r].op \in {"login", "refresh"}
      PROVE  /\ Locked(r, req[r].new) /\ ~Stored(req[r].new)
             /\ req[r].user \in users /\ r \in sharing[req[r].user]
  BY <1>1, NewToken DEF Committing
<1>2. ASSUME IInv, NEW r \in Requests, r \in sharing[req[r].user],
             NEW s \in Requests, req[s].op = "delete_user", req[s].user = req[r].user
      PROVE  pc[s] \notin {"cascade", "answered"}
  BY <1>2 DEF IInv, SlotInv, LeaverInv
<1>3. IInv => AnnouncedTokenIsSafe
  BY <1>1, <1>2 DEF AnnouncedTokenIsSafe
<1> QED BY <1>3, InductiveInvariant, PTL

-----------------------------------------------------------------------------
(* What a step may do to the tokens *)

\* The committed tables change in four kinds of step only.
LEMMA TablesChangeByCommit ==
  ASSUME IInv, [Next]_vars
  PROVE  \/ UNCHANGED tables
         \/ \E r \in Requests : CommitLogin(r) \/ CommitRefresh(r) \/ CommitLogout(r) \/ CommitDelete(r)
<1>1. ASSUME NEW r \in Requests, Serve(r)
      PROVE  UNCHANGED tables \/ CommitLogin(r) \/ CommitRefresh(r) \/ CommitLogout(r) \/ CommitDelete(r)
  BY <1>1, ServeStep DEF QuietStep
<1>2. ASSUME NEW r \in Requests, Arrive(r) \/ Fault(r) \/ DeadlockVictim(r) PROVE UNCHANGED tables
  BY <1>2, ArriveStep, FaultStep, DeadlockVictimStep DEF QuietStep
<1>3. CASE Tick \/ UNCHANGED vars
  BY <1>3 DEF Tick, vars, tables
<1> QED BY <1>1, <1>2, <1>3 DEF Next

\* A refresh stores its new token only by taking the active old one out of use
\* (refresh_sessions.py:42-68).
THEOREM OneTokenForAnotherHolds == Spec => OneTokenForAnother
<1> DEFINE Swapped(r) ==
      Committing(r, "refresh") /\ ~Stored(req[r].new) /\ refresh_sessions'[req[r].new] # "none"
         => Active(req[r].old) /\ refresh_sessions'[req[r].old] # "active"
<1>1. ASSUME IInv, [Next]_vars, NEW r \in Requests, Committing(r, "refresh"),
             refresh_sessions'[req[r].new] # "none"
      PROVE  refresh_sessions'[req[r].old] # "active"
  <2> DEFINE n == req[r].new
             o == req[r].old
  <2>0. /\ n \in Tokens /\ Locked(r, n) /\ refresh_sessions[n] = "none" /\ o \in Tokens /\ o # n
        /\ refresh_sessions \in [Tokens -> {"none", "active", "revoked"}]
    BY <1>1, NewToken, OldToken DEF Stored, IInv, TypeOK
  <2>1. PICK s \in Requests : CommitLogin(s) \/ CommitRefresh(s) \/ CommitLogout(s) \/ CommitDelete(s)
    BY <1>1, <2>0, TablesChangeByCommit DEF tables
  <2>2. CASE CommitLogin(s)
    <3>1. n = req[s].new
      BY <1>1, <2>0, <2>2 DEF CommitLogin
    <3>2. Committing(s, "login") /\ s = r
      BY <1>1, <2>0, <2>2, <3>1, NewToken DEF CommitLogin, Locked
    <3> QED BY <1>1, <3>2 DEF Committing
  <2>3. CASE CommitRefresh(s)
    <3>1. Committing(s, "refresh") /\ Active(req[s].old)
      BY <1>1, <2>3, OldToken DEF CommitRefresh
    <3>2. n # req[s].old
      BY <2>0, <3>1 DEF Active
    <3>3. n = req[s].new
      BY <1>1, <2>0, <2>3, <3>2 DEF CommitRefresh
    <3>4. s = r
      BY <1>1, <2>0, <3>1, <3>3, NewToken DEF Locked
    <3> QED BY <2>0, <2>3, <3>4 DEF CommitRefresh
  <2>4. CASE CommitLogout(s)
    <3>1. n = req[s].old /\ Locked(s, n)
      BY <1>1, <2>0, <2>4 DEF CommitLogout
    <3>2. Active(n)
      BY <1>1, <2>4, <3>1, LogoutToken DEF CommitLogout
    <3> QED BY <2>0, <3>2 DEF Active
  <2>5. CASE CommitDelete(s)
    BY <1>1, <2>0, <2>5 DEF CommitDelete
  <2> QED BY <2>1, <2>2, <2>3, <2>4, <2>5
<1>2. ASSUME IInv, [Next]_vars, NEW r \in Requests PROVE Swapped(r)
  BY <1>1, <1>2, OldToken
<1>3. IInv /\ [Next]_vars => [\A r \in Requests : Swapped(r)]_vars
  BY <1>2
<1> QED BY <1>3, InductiveInvariant, PTL DEF Spec, OneTokenForAnother

-----------------------------------------------------------------------------
(* What an answer is worth *)

\* A request that has answered waits for nobody and is stopped by nobody.
LEMMA LeavesAnswered ==
  ASSUME IInv, [Next]_vars, NEW r \in Requests, pc[r] = "answered", pc'[r] # "answered"
  PROVE  CommitLogin(r) \/ CommitRefresh(r) \/ CommitLogout(r) \/ CommitDelete(r) \/ Fault(r)
<1>1. CASE UNCHANGED vars \/ Tick
  BY <1>1 DEF vars, Tick
<1>2. ASSUME NEW s \in Requests, Arrive(s) \/ Serve(s) \/ Fault(s) \/ DeadlockVictim(s), s # r
      PROVE  FALSE
  <2>1. CASE QuietStep(s)
    BY <1>2, <2>1 DEF QuietStep, Frame
  <2>2. CASE Finish(s)
    BY <1>2, <2>2, FinishSlot DEF IInv
  <2> QED BY <1>2, <2>1, <2>2, ArriveStep, FaultStep, DeadlockVictimStep, ServeStep
      DEF CommitLogin, CommitRefresh, CommitLogout, CommitDelete
<1>3. ASSUME Arrive(r) PROVE FALSE
  BY <1>3 DEF Arrive, BeginLogin, BeginRefresh, BeginLogout, BeginDeleteUser, Begin, At
<1>4. ASSUME DeadlockVictim(r) PROVE FALSE
  <2>1. WaitsFor(r) = {}
    BY DEF WaitsFor
  <2> QED BY <1>4, <2>1 DEF DeadlockVictim, Deadlocked
<1>5. CASE Serve(r)
  BY <1>5 DEF Serve, GetByIdentifier, InsertSession, CheckForeignKey, Verify, GetById, RevokeForUser,
     Revoke, DeleteUser, CascadeToSession, CascadeDone, Close, At
<1> QED BY <1>1, <1>2, <1>3, <1>4, <1>5 DEF Next

\* A client that reads its answer before the commit reads the truth, unless a fault
\* intervenes (dependencies/database.py:45).
THEOREM AnswersComeTrueHolds == Spec => AnswersComeTrue
<1>1. IInv /\ [Next]_vars =>
        [\A r \in Requests : At(r, "answered") /\ ~At(r, "answered")' =>
           TakesEffect(r) \/ Fault(r)]_vars
  <2> SUFFICES ASSUME IInv, [Next]_vars, NEW r \in Requests, pc[r] = "answered", pc'[r] # "answered"
               PROVE  TakesEffect(r) \/ Fault(r)
    BY DEF At
  <2>1. refresh_sessions \in [Tokens -> {"none", "active", "revoked"}]
    BY DEF IInv, TypeOK
  <2>2. CASE CommitLogin(r)
    BY <2>1, <2>2, NewToken DEF CommitLogin, Committing, TakesEffect
  <2>3. CASE CommitRefresh(r)
    BY <2>1, <2>3, NewToken, OldToken DEF CommitRefresh, Committing, TakesEffect
  <2>4. CASE CommitLogout(r)
    BY <2>1, <2>4, LogoutToken DEF CommitLogout, Committing, TakesEffect
  <2>5. CASE CommitDelete(r)
    BY <2>1, <2>5, Leaver DEF CommitDelete, Committing, TakesEffect, Stored
  <2> QED BY <2>2, <2>3, <2>4, <2>5, LeavesAnswered
<1> QED BY <1>1, InductiveInvariant, PTL DEF Spec, AnswersComeTrue

-----------------------------------------------------------------------------
(* Refresh tokens are single-use tickets *)

\* The behaviours of Sessions, seen through its tables, are behaviours of Tickets:
\* each commit is one atomic step there and nothing else shows.
THEOREM ImplementsTicketsHolds == Spec => ImplementsTickets
<1> DEFINE Valid == {t \in Tokens : Active(t)}
           Used == {t \in Tokens : refresh_sessions[t] = "revoked"}
<1>1. Init => Desk!Init
  BY DEF Init, Desk!Init, Active
<1>2. ASSUME IInv, NEW r \in Requests, CommitLogin(r) PROVE Desk!SignIn(req[r].new)
  <2>1. Committing(r, "login") /\ refresh_sessions' = [refresh_sessions EXCEPT ![req[r].new] = "active"]
        /\ UNCHANGED users
    BY <1>2 DEF CommitLogin
  <2>2. Valid' = Valid \cup {req[r].new} /\ Used' = Used
    BY <1>2, <2>1, NewToken DEF IInv, TypeOK, Active, Stored
  <2> QED BY <1>2, <2>1, <2>2, NewToken DEF Desk!SignIn, Desk!Unused, Active, Stored, User
<1>3. ASSUME IInv, NEW r \in Requests, CommitRefresh(r) PROVE Desk!Exchange(req[r].old, req[r].new)
  <2> DEFINE o == req[r].old
             n == req[r].new
  <2>1. Committing(r, "refresh") /\ UNCHANGED users
        /\ refresh_sessions' = [refresh_sessions EXCEPT ![o] = "revoked", ![n] = "active"]
    BY <1>3 DEF CommitRefresh
  <2>2. o \in Tokens /\ n \in Tokens /\ o # n /\ refresh_sessions[o] = "active" /\ refresh_sessions[n] = "none"
    BY <1>3, <2>1, NewToken, OldToken DEF Active, Stored
  <2>3. Valid' = (Valid \ {o}) \cup {n} /\ Used' = Used \cup {o}
    BY <1>3, <2>1, <2>2 DEF IInv, TypeOK, Active
  <2>4. User(o) = User(n)
    BY <1>3, <2>1, NewToken DEF IInv, SlotInv, PresenterInv, Committing, At
  <2> QED BY <2>1, <2>2, <2>3, <2>4 DEF Desk!Exchange, Desk!Unused, Active, User
<1>4. ASSUME IInv, NEW r \in Requests, CommitLogout(r)
      PROVE  UNCHANGED tables \/ Desk!SignOut(req[r].old)
  <2> DEFINE o == req[r].old
  <2>1. Committing(r, "logout") /\ UNCHANGED users
    BY <1>4 DEF CommitLogout
  <2>2. CASE Locked(r, o)
    <3>1. o \in Tokens /\ Active(o)
      BY <1>4, <2>1, <2>2, LogoutToken
    <3>2. Valid' = Valid \ {o} /\ Used' = Used \cup {o}
      BY <1>4, <2>2, <3>1 DEF CommitLogout, IInv, TypeOK, Active
    <3> QED BY <2>1, <3>1, <3>2 DEF Desk!SignOut
  <2>3. CASE ~Locked(r, o)
    BY <1>4, <2>1, <2>3 DEF CommitLogout, tables
  <2> QED BY <2>2, <2>3
<1>5. ASSUME IInv, NEW r \in Requests, CommitDelete(r) PROVE Desk!Leave(req[r].user)
  <2> DEFINE u == req[r].user
  <2>1. Committing(r, "delete_user") /\ users' = users \ {u}
        /\ refresh_sessions' = [t \in Tokens |-> IF User(t) = u /\ Locked(r, t)
                                                   THEN "none" ELSE refresh_sessions[t]]
    BY <1>5 DEF CommitDelete
  <2>2. u \in users /\ \A t \in Tokens : User(t) = u /\ Stored(t) => Locked(r, t)
    BY <1>5, <2>1, Leaver
  <2>3. Valid' = {t \in Valid : User(t) # u} /\ Used' = {t \in Used : User(t) # u}
    BY <2>1, <2>2 DEF Active, Stored
  <2> QED BY <2>1, <2>2, <2>3 DEF Desk!Leave, Desk!IsOf, User
<1>6. ASSUME IInv, [Next]_vars PROVE [Desk!Next]_(Desk!desk)
  <2>1. ASSUME UNCHANGED tables PROVE UNCHANGED Desk!desk
    BY <2>1 DEF tables, Desk!desk, Active
  <2>2. ASSUME NEW r \in Requests, CommitLogin(r) PROVE Desk!Next
    <3>1. req[r].new \in Desk!Tickets
      BY <1>6, <2>2, NewToken DEF CommitLogin, Desk!Tickets, Tokens
    <3>2. Desk!SignIn(req[r].new)
      BY <1>2, <1>6, <2>2
    <3> QED BY <3>1, <3>2 DEF Desk!Next, Desk!SignIn
  <2>3. ASSUME NEW r \in Requests, CommitRefresh(r) PROVE Desk!Next
    <3>1. req[r].new \in Desk!Tickets /\ req[r].old \in Desk!Tickets
      BY <1>6, <2>3, NewToken, OldToken DEF CommitRefresh, Desk!Tickets, Tokens
    <3>2. Desk!Exchange(req[r].old, req[r].new)
      BY <1>3, <1>6, <2>3
    <3> QED BY <3>1, <3>2 DEF Desk!Next, Desk!Exchange
  <2>4. ASSUME NEW r \in Requests, CommitLogout(r), ~UNCHANGED tables PROVE Desk!Next
    <3>1. Desk!SignOut(req[r].old)
      BY <1>4, <1>6, <2>4
    <3>2. req[r].old \in Desk!Tickets
      BY <3>1 DEF Desk!SignOut, Desk!Tickets, Tokens
    <3> QED BY <3>1, <3>2 DEF Desk!Next, Desk!SignOut
  <2>5. ASSUME NEW r \in Requests, CommitDelete(r) PROVE Desk!Next
    <3>1. req[r].user \in Users
      BY <1>6, <2>5, Leaver DEF CommitDelete, IInv, TypeOK
    <3>2. Desk!Leave(req[r].user)
      BY <1>5, <1>6, <2>5
    <3> QED BY <3>1, <3>2 DEF Desk!Next, Desk!Leave
  <2> QED BY <1>6, <2>1, <2>2, <2>3, <2>4, <2>5, TablesChangeByCommit
<1>7. IInv /\ [Next]_vars => [Desk!Next]_(Desk!desk)
  BY <1>6
<1> QED BY <1>1, <1>7, InductiveInvariant, PTL DEF Spec, ImplementsTickets, Desk!Spec

-----------------------------------------------------------------------------
(* Deadlocks *)

\* What r may hold where it is: a user if it deletes that user, the old token
\* before its new one, a share of a user only when it has answered; and a token is
\* never exchanged for an earlier one.
Held(r) ==
  /\ \A t \in Tokens : lock[t] = r /\ pc[r] = "insert" => req[r].op = "refresh" /\ t = req[r].old
  /\ \A u \in Users : lock[u] = r => req[r].op = "delete_user" /\ req[r].user = u
  /\ \A u \in Users : r \in sharing[u] => pc[r] = "answered"
  /\ req[r].old \in Tokens => req[r].old[2] <= now
  /\ pc[r] \in {"revoke_for_user", "insert", "foreign_key"} =>
       /\ req[r].new[2] <= now
       /\ req[r].op = "refresh" => req[r].old[2] <= req[r].new[2]

HeldInv ==
  /\ \A t \in known : t[2] <= now
  /\ \A r \in Requests : Held(r)

LEMMA OthersKeepHeld ==
  ASSUME HeldInv, NEW r \in Requests, now' = now, Held(r)', \A t \in known' : t[2] <= now,
         \A s \in Requests \ {r} :
           /\ pc'[s] = pc[s] /\ req'[s] = req[s]
           /\ \A row \in Rows : lock'[row] = s => lock[row] = s
           /\ \A u \in Users : s \in sharing'[u] => s \in sharing[u]
  PROVE  HeldInv'
<1>1. ASSUME NEW s \in Requests \ {r} PROVE Held(s)'
  BY <1>1 DEF HeldInv, Held, Rows
<1> QED BY <1>1 DEF HeldInv

\* A step of r that takes nothing, to a place where nothing is promised.
LEMMA ReleaseKeepsHeld ==
  ASSUME IInv, HeldInv, NEW r \in Requests, UNCHANGED <<now, known>>,
         lock' = LocksWithout(r), sharing' = SharesWithout(r),
         pc'[r] \in {"closed", "idle"}, req'[r] \in {req[r], NoRequest},
         \A s \in Requests \ {r} : pc'[s] = pc[s] /\ req'[s] = req[s]
  PROVE  HeldInv'
<1> TypeOK
  BY DEF IInv
<1>1. \A row \in Rows : lock'[row] # r
  BY Released
<1>2. \A u \in Users : r \notin sharing'[u]
  BY DEF SharesWithout
<1>3. None \notin Tokens
  BY DistinctIdentities DEF Rows
<1>4. Held(r)'
  BY <1>1, <1>2, <1>3 DEF Held, HeldInv, Rows, NoRequest, Request
<1>5. \A s \in Requests \ {r} :
        /\ pc'[s] = pc[s] /\ req'[s] = req[s]
        /\ \A row \in Rows : lock'[row] = s => lock[row] = s
        /\ \A u \in Users : s \in sharing'[u] => s \in sharing[u]
  BY Released
<1>6. now' = now /\ \A t \in known' : t[2] <= now
  BY DEF HeldInv
<1> QED BY <1>4, <1>5, <1>6, OthersKeepHeld

LEMMA RefuseKeepsHeld ==
  ASSUME IInv, HeldInv, NEW r \in Requests, NEW error, Refuse(r, error)
  PROVE  HeldInv'
BY ReleaseKeepsHeld DEF Refuse, Goto, IInv, TypeOK

LEMMA FinishKeepsHeld ==
  ASSUME IInv, HeldInv, NEW r \in Requests, Finish(r)
  PROVE  HeldInv'
BY ReleaseKeepsHeld DEF Finish, Goto, IInv, TypeOK

LEMMA ArriveKeepsHeld ==
  ASSUME IInv, HeldInv, NEW r \in Requests, Arrive(r)
  PROVE  HeldInv'
<1> TypeOK /\ SlotInv(r)
  BY DEF IInv
<1>1. PICK statement, p :
        /\ Begin(r, statement, p)
        /\ statement \notin {"revoke_for_user", "insert", "foreign_key"}
        /\ p.old \in known \cup {None}
  <2>1. ASSUME NEW op, NEW u, NEW t, NEW second PROVE Request(op, u, t, second).old = t
    BY DEF Request
  <2>2. ASSUME NEW u, BeginLogin(r, u) \/ BeginDeleteUser(r, u)
        PROVE  \E op \in {"login", "delete_user"}, statement \in {"get_by_identifier", "delete_user"} :
                 Begin(r, statement, Request(op, u, None, now))
    BY <2>2 DEF BeginLogin, BeginDeleteUser
  <2>3. ASSUME NEW t, BeginRefresh(r, t) \/ BeginLogout(r, t)
        PROVE  t \in known /\ \E op : Begin(r, "verify", Request(op, User(t), t, now))
    BY <2>3 DEF BeginRefresh, BeginLogout
  <2> QED BY <2>1, <2>2, <2>3 DEF Arrive
<1>2. /\ pc[r] = "idle" /\ pc'[r] = statement /\ req'[r] = p
      /\ UNCHANGED <<now, known, lock, sharing>>
      /\ \A s \in Requests \ {r} : pc'[s] = pc[s] /\ req'[s] = req[s]
  BY <1>1 DEF Begin, At, Goto, TypeOK
<1>3. None \notin Tokens /\ \A row \in Rows : lock[row] # r
  BY <1>2, DistinctIdentities DEF SlotInv, Locked, Rows
<1>4. Held(r)'
  BY <1>1, <1>2, <1>3 DEF Held, HeldInv, Rows
<1> QED BY <1>2, <1>4, OthersKeepHeld DEF HeldInv

\* A token that is issued now is not earlier than any that was presented.
LEMMA IssueKeepsHeld ==
  ASSUME IInv, HeldInv, NEW r \in Requests, NEW statement, IssueTokens(r, statement),
         pc[r] \in {"get_by_identifier", "get_by_id"}
  PROVE  HeldInv'
<1> TypeOK /\ SlotInv(r) /\ Held(r)
  BY DEF IInv, HeldInv
<1>1. /\ pc'[r] = statement /\ UNCHANGED <<now, known, lock, sharing>>
      /\ req'[r].old = req[r].old /\ req'[r].op = req[r].op /\ req'[r].new = <<req[r].user, now>>
      /\ \A s \in Requests \ {r} : pc'[s] = pc[s] /\ req'[s] = req[s]
  BY DEF IssueTokens, Goto, TypeOK, RequestType
<1>2. \A row \in Rows : lock[row] # r
  BY DEF SlotInv, Locked
<1>3. req[r].op = "refresh" => req[r].old \in Tokens
  BY DEF SlotInv, PresenterInv
<1>4. now \in Int
  BY Limits DEF TypeOK, Seconds
<1>5. Held(r)'
  BY <1>1, <1>2, <1>3, <1>4 DEF Held, Rows
<1> QED BY <1>1, <1>5, OthersKeepHeld DEF HeldInv

\* A statement that locks row: a token, or the user it deletes.
LEMMA WriteKeepsHeld ==
  ASSUME IInv, HeldInv, NEW r \in Requests, NEW row \in Rows, NEW statement \in Statements,
         Write(r, row, statement),
         \/ /\ row \in Tokens /\ statement = "insert" /\ pc[r] = "revoke_for_user"
            /\ req[r].op = "refresh" /\ row = req[r].old
         \/ row \in Tokens /\ statement = "foreign_key" /\ pc[r] = "insert"
         \/ req[r].op = "delete_user" /\ req[r].user = row /\ statement = "cascade" /\ pc[r] = "delete_user"
  PROVE  HeldInv'
<1> TypeOK /\ SlotInv(r) /\ Held(r)
  BY DEF IInv, HeldInv
<1>1. /\ lock' = [lock EXCEPT ![row] = r] /\ lock[row] \in {None, r}
      /\ pc' = [pc EXCEPT ![r] = statement] /\ UNCHANGED <<now, known, req, sharing>>
  BY DEF Write, Lock, Free, Goto
<1>2. /\ lock'[row] = r /\ \A x \in Rows \ {row} : lock'[x] = lock[x]
      /\ pc'[r] = statement /\ \A s \in Requests \ {r} : pc'[s] = pc[s]
  BY <1>1 DEF TypeOK
<1>3. Users \cap Tokens = {}
  BY DistinctIdentities
<1>4. pc[r] = "revoke_for_user" => \A x \in Rows : lock[x] # r
  BY DEF SlotInv, Locked
<1>5. Held(r)'
  BY <1>1, <1>2, <1>3, <1>4 DEF Held, Rows
<1> QED BY <1>1, <1>2, <1>5, OthersKeepHeld DEF HeldInv

LEMMA ServeKeepsHeld ==
  ASSUME IInv, HeldInv, NEW r \in Requests, Serve(r)
  PROVE  HeldInv'
<1> TypeOK /\ SlotInv(r) /\ Held(r)
  BY DEF IInv, HeldInv
<1>1. CASE GetByIdentifier(r) \/ GetById(r)
  BY <1>1, IssueKeepsHeld, RefuseKeepsHeld DEF GetByIdentifier, GetById, At
<1>2. CASE InsertSession(r)
  <2>1. pc[r] = "insert" /\ req[r].new \in Tokens /\ req[r].new \in Rows
    BY <1>2, Executes DEF InsertSession, At, SlotInv, IssuerInv, Rows
  <2> QED BY <1>2, <2>1, WriteKeepsHeld, RefuseKeepsHeld DEF InsertSession, Statements
<1>3. CASE CheckForeignKey(r)
  <2>1. CASE req[r].user \notin users
    BY <1>3, <2>1, RefuseKeepsHeld DEF CheckForeignKey
  <2>2. CASE req[r].user \in users
    <3>1. /\ pc[r] = "foreign_key" /\ pc' = [pc EXCEPT ![r] = "answered"]
          /\ sharing' = [sharing EXCEPT ![req[r].user] = @ \cup {r}]
          /\ known' = known \cup {req[r].new} /\ UNCHANGED <<now, req, lock>>
      BY <1>3, <2>2 DEF CheckForeignKey, At, Answer, Goto
    <3>2. \A s \in Requests \ {r}, u \in Users : s \in sharing'[u] => s \in sharing[u]
      BY <3>1 DEF TypeOK
    <3>3. pc'[r] = "answered" /\ \A s \in Requests \ {r} : pc'[s] = pc[s]
      BY <3>1 DEF TypeOK
    <3>4. Held(r)' /\ req[r].new[2] <= now
      BY <3>1, <3>3 DEF Held
    <3> QED BY <3>1, <3>2, <3>3, <3>4, OthersKeepHeld DEF HeldInv
  <2> QED BY <2>1, <2>2
<1>4. CASE Verify(r)
  <2>1. pc[r] = "verify" /\ \A row \in Rows : lock[row] # r
    BY <1>4 DEF Verify, At, SlotInv, Locked
  <2>2. CASE Refuse(r, "InvalidCredentials")
    BY <2>2, RefuseKeepsHeld
  <2>3. CASE ~Refuse(r, "InvalidCredentials")
    <3>1. /\ pc'[r] \in {"get_by_id", "revoke", "answered"} /\ UNCHANGED <<now, known, req, lock, sharing>>
          /\ \A s \in Requests \ {r} : pc'[s] = pc[s]
      BY <1>4, <2>3 DEF Verify, Answer, Goto, TypeOK
    <3>2. Held(r)'
      BY <2>1, <3>1 DEF Held, Rows
    <3> QED BY <3>1, <3>2, OthersKeepHeld DEF HeldInv
  <2> QED BY <2>2, <2>3
<1>5. CASE RevokeForUser(r)
  <2>1. /\ pc[r] = "revoke_for_user" /\ req[r].op = "refresh"
        /\ req[r].old \in Tokens /\ req[r].old \in Rows
    BY <1>5 DEF RevokeForUser, At, SlotInv, PresenterInv, Rows
  <2> QED BY <1>5, <2>1, WriteKeepsHeld, RefuseKeepsHeld DEF RevokeForUser, Statements
<1>6. CASE Revoke(r)
  <2>1. /\ pc[r] = "revoke" /\ req[r].op = "logout" /\ req[r].old \in Tokens
        /\ \A row \in Rows : lock[row] # r
    BY <1>6, Executes DEF Revoke, At, SlotInv, PresenterInv, Locked
  <2>2. /\ pc' = [pc EXCEPT ![r] = "answered"] /\ UNCHANGED <<now, known, req, sharing>>
        /\ \/ lock' = [lock EXCEPT ![req[r].old] = r]
           \/ lock' = lock
    BY <1>6 DEF Revoke, Answer, Goto, Lock
  <2>3. /\ pc'[r] = "answered" /\ \A s \in Requests \ {r} : pc'[s] = pc[s]
        /\ \A row \in Rows : lock'[row] = lock[row] \/ (row = req[r].old /\ lock'[row] = r)
    BY <2>1, <2>2 DEF TypeOK
  <2>4. Users \cap Tokens = {}
    BY DistinctIdentities
  <2>5. Held(r)'
    BY <2>1, <2>2, <2>3, <2>4 DEF Held, Rows
  <2>6. \A s \in Requests \ {r}, row \in Rows : lock'[row] = s => lock[row] = s
    BY <2>3
  <2> QED BY <2>2, <2>3, <2>5, <2>6, OthersKeepHeld DEF HeldInv
<1>7. CASE DeleteUser(r)
  <2>1. /\ pc[r] = "delete_user" /\ req[r].op = "delete_user"
        /\ req[r].user \in Users /\ req[r].user \in Rows
    BY <1>7, Executes DEF DeleteUser, At, SlotInv, LeaverInv, Rows
  <2> QED BY <1>7, <2>1, WriteKeepsHeld, RefuseKeepsHeld DEF DeleteUser, Statements
<1>8. ASSUME NEW t \in Tokens, CascadeToSession(r, t) PROVE HeldInv'
  <2>1. /\ pc[r] = "cascade" /\ lock' = [lock EXCEPT ![t] = r]
        /\ UNCHANGED <<now, known, pc, req, sharing>>
    BY <1>8 DEF CascadeToSession, At, Lock
  <2>2. /\ \A row \in Rows \ {t} : lock'[row] = lock[row]
        /\ lock'[t] = r /\ Users \cap Tokens = {}
    BY <2>1, DistinctIdentities DEF TypeOK, Rows
  <2>3. Held(r)'
    BY <2>1, <2>2 DEF Held, Rows
  <2> QED BY <2>1, <2>2, <2>3, OthersKeepHeld DEF HeldInv
<1>9. CASE CascadeDone(r)
  <2>1. /\ pc'[r] = "answered" /\ \A s \in Requests \ {r} : pc'[s] = pc[s]
        /\ UNCHANGED <<now, known, req, lock, sharing>>
    BY <1>9 DEF CascadeDone, Answer, Goto, TypeOK
  <2>2. Held(r)'
    BY <2>1 DEF Held
  <2> QED BY <2>1, <2>2, OthersKeepHeld DEF HeldInv
<1>10. CASE CommitLogin(r) \/ CommitRefresh(r) \/ CommitLogout(r) \/ CommitDelete(r) \/ Close(r)
  BY <1>10, FinishKeepsHeld DEF CommitLogin, CommitRefresh, CommitLogout, CommitDelete, Close
<1> QED BY <1>1, <1>2, <1>3, <1>4, <1>5, <1>6, <1>7, <1>8, <1>9, <1>10 DEF Serve

LEMMA TickKeepsHeld ==
  ASSUME IInv, HeldInv, Tick
  PROVE  HeldInv'
<1>1. now \in Int /\ now' = now + 1 /\ UNCHANGED <<known, pc, req, lock, sharing>>
  BY Limits DEF Tick, IInv, TypeOK, Seconds
<1>2. known \subseteq Tokens /\ \A t \in Tokens : t[2] \in Int
  BY TokenFacts DEF IInv, TypeOK, Seconds
<1>3. ASSUME NEW r \in Requests PROVE Held(r)'
  <2>1. pc[r] \in {"revoke_for_user", "insert", "foreign_key"} => req[r].new \in Tokens
    BY Executes DEF IInv, SlotInv, IssuerInv
  <2> QED BY <1>1, <1>2, <2>1 DEF Held, HeldInv
<1> QED BY <1>1, <1>2, <1>3 DEF HeldInv

LEMMA NextKeepsHeld ==
  ASSUME IInv, HeldInv, [Next]_vars
  PROVE  HeldInv'
<1>1. CASE UNCHANGED vars
  BY <1>1 DEF vars, HeldInv, Held
<1>2. ASSUME NEW r \in Requests, Arrive(r) \/ Serve(r) \/ Fault(r) \/ DeadlockVictim(r)
      PROVE  HeldInv'
  BY <1>2, ArriveKeepsHeld, ServeKeepsHeld, RefuseKeepsHeld, FinishKeepsHeld DEF Fault, DeadlockVictim
<1> QED BY <1>1, <1>2, TickKeepsHeld DEF Next

\* Those that a request of each place waits for, while no deletion cascades.
LEMMA WaitedFor ==
  ASSUME IInv, HeldInv, \A s \in Requests : pc[s] # "cascade",
         NEW r \in Requests, NEW w \in WaitsFor(r)
  PROVE  /\ w \in Requests /\ w # r
         /\ pc[w] \in {"insert", "foreign_key", "answered"}
         /\ pc[r] \in {"foreign_key", "delete_user"} => pc[w] = "answered"
         /\ pc[r] = "insert" => lock[req[r].new] = w /\ req[r].new \in Tokens
         /\ pc[r] \in {"insert", "foreign_key", "delete_user", "revoke", "revoke_for_user"}
<1> TypeOK /\ SlotInv(r)
  BY DEF IInv
<1>1. /\ pc[r] \in {"insert", "foreign_key", "delete_user", "revoke", "revoke_for_user"}
      /\ w # None /\ w # r
  BY DEF WaitsFor
<1>2. ASSUME NEW row \in Rows, lock[row] = w
      PROVE  /\ w \in Requests /\ pc[w] \in {"insert", "foreign_key", "answered"}
             /\ row \in Users => pc[w] = "answered"
  <2>1. w \in Requests
    BY <1>1, <1>2 DEF TypeOK
  <2>2. SlotInv(w) /\ Held(w) /\ Locked(w, row)
    BY <1>2, <2>1 DEF IInv, HeldInv, Locked
  <2>3. pc[w] \in {"insert", "foreign_key", "answered"}
    BY <2>1, <2>2 DEF SlotInv
  <2>4. row \in Users => req[w].op = "delete_user"
    BY <2>2 DEF Held, Locked
  <2>5. req[w].op = "delete_user" => pc[w] \in {"delete_user", "cascade", "answered", "closed"}
    BY <2>2 DEF SlotInv, LeaverInv
  <2> QED BY <2>1, <2>3, <2>4, <2>5
<1>3. CASE pc[r] \in {"revoke_for_user", "revoke"}
  <2>1. lock[req[r].old] = w /\ req[r].old \in Rows
    BY <1>3, Executes DEF WaitsFor, SlotInv, PresenterInv, Rows
  <2> QED BY <1>1, <1>2, <1>3, <2>1
<1>4. CASE pc[r] = "insert"
  <2>1. lock[req[r].new] = w /\ req[r].new \in Tokens /\ req[r].new \in Rows
    BY <1>4, Executes DEF WaitsFor, SlotInv, IssuerInv, Rows
  <2> QED BY <1>1, <1>2, <1>4, <2>1
<1>5. CASE pc[r] = "foreign_key"
  <2>1. lock[req[r].user] = w /\ req[r].user \in Users /\ req[r].user \in Rows
    BY <1>5, Executes DEF WaitsFor, SlotInv, IssuerInv, Rows
  <2> QED BY <1>1, <1>2, <1>5, <2>1
<1>6. CASE pc[r] = "delete_user"
  <2>1. /\ w \in {lock[req[r].user]} \cup sharing[req[r].user]
        /\ req[r].user \in Users /\ req[r].user \in Rows
    BY <1>6, Executes DEF WaitsFor, SlotInv, LeaverInv, Rows
  <2>2. ASSUME w \in sharing[req[r].user] PROVE w \in Requests /\ pc[w] = "answered"
    BY <2>1, <2>2 DEF TypeOK, HeldInv, Held
  <2> QED BY <1>1, <1>2, <1>6, <2>1, <2>2
<1> QED BY <1>1, <1>3, <1>4, <1>5, <1>6

\* A refresh at its insert that holds the token r inserts makes a later one, or
\* the same, which then is its own.
LEMMA LaterInsert ==
  ASSUME IInv, HeldInv, \A s \in Requests : pc[s] # "cascade",
         NEW r \in Requests, NEW w \in WaitsFor(r), pc[r] = "insert", pc[w] = "insert"
  PROVE  req[w].new[2] > req[r].new[2] \/ WaitsFor(w) = {}
<1> DEFINE t == req[r].new
<1>1. w \in Requests /\ lock[t] = w /\ t \in Tokens
  BY WaitedFor
<1>2. req[w].op = "refresh" /\ t = req[w].old /\ t[2] <= req[w].new[2]
  BY <1>1 DEF HeldInv, Held
<1>3. req[w].new \in Tokens /\ User(req[w].new) = req[w].user /\ User(t) = req[w].user
  BY <1>1, <1>2 DEF IInv, SlotInv, IssuerInv, PresenterInv
<1>4. CASE req[w].new[2] = t[2]
  <2>1. req[w].new = t
    BY <1>1, <1>3, <1>4 DEF Tokens, User
  <2> QED BY <1>1, <2>1 DEF WaitsFor
<1>5. CASE req[w].new[2] # t[2]
  BY <1>1, <1>2, <1>3, <1>5, TokenFacts DEF Seconds
<1> QED BY <1>4, <1>5

LEMMA NoCircleWithoutCascade ==
  ASSUME IInv, HeldInv, \A s \in Requests : pc[s] # "cascade", NEW r \in Requests
  PROVE  ~Deadlocked(r)
<1> SUFFICES ASSUME Deadlocked(r) PROVE FALSE
  OBVIOUS
<1> DEFINE in(places) == {t \in Requests : pc[t] \in places}
           Settled == {t \in Requests : WaitsFor(t) = {}}
           Late(k) == {t \in Requests : pc[t] = "insert" /\ req[t].new[2] > k}
<1>1. \A t \in Requests : pc[t] = "answered" => WaitsFor(t) = {}
  BY DEF WaitsFor
<1>2. \A t \in in({"foreign_key", "delete_user"}) : WaitsFor(t) \subseteq in({"answered"})
  BY WaitedFor
<1>3. \A t \in Requests : WaitsFor(t) \subseteq in({"insert", "foreign_key", "answered"})
  BY WaitedFor
<1>4. WaitsFor(r) # {}
  BY DEF Deadlocked
<1>5. pc[r] \in {"insert", "foreign_key", "delete_user", "revoke", "revoke_for_user"}
  BY <1>4, WaitedFor
<1>6. CASE pc[r] \in {"foreign_key", "delete_user"}
  <2>1. \A t \in in({"answered"}) : WaitsFor(t) \subseteq in({"answered"})
    BY <1>1
  <2>2. r \notin in({"answered"}) /\ WaitsFor(r) \subseteq in({"answered"})
    BY <1>2, <1>6
  <2> QED BY <2>1, <2>2 DEF Deadlocked
<1>7. CASE pc[r] \in {"revoke", "revoke_for_user"}
  <2> DEFINE S == in({"insert", "foreign_key", "answered"})
  <2>1. r \notin S /\ WaitsFor(r) \subseteq S /\ \A t \in S : WaitsFor(t) \subseteq S
    BY <1>3, <1>7
  <2>2. S \in SUBSET Requests
    OBVIOUS
  <2> HIDE DEF S
  <2> QED BY <2>1, <2>2 DEF Deadlocked
<1>8. CASE pc[r] = "insert"
  <2> DEFINE k == req[r].new[2]
             S == in({"foreign_key", "answered"}) \cup Late(k) \cup Settled
  <2>0. k \in Int
    BY <1>4, <1>8, WaitedFor, TokenFacts DEF Seconds
  <2>1. ASSUME NEW t \in Requests, NEW w \in WaitsFor(t), pc[t] = "insert",
               t = r \/ req[t].new[2] > k
        PROVE  w \in S
    <3>1. w \in Requests /\ pc[w] \in {"insert", "foreign_key", "answered"}
      BY WaitedFor
    <3>2. CASE pc[w] = "insert"
      <4>1. req[w].new[2] > req[t].new[2] \/ WaitsFor(w) = {}
        BY <2>1, <3>2, LaterInsert
      <4>2. req[w].new \in Tokens /\ req[t].new \in Tokens
        BY <2>1, <3>1, <3>2, Executes DEF IInv, SlotInv, IssuerInv
      <4>3. req[w].new[2] \in Int /\ req[t].new[2] \in Int
        BY <4>2, TokenFacts DEF Seconds
      <4>4. req[w].new[2] > k \/ WaitsFor(w) = {}
        BY <2>0, <2>1, <4>1, <4>3
      <4> QED BY <3>1, <3>2, <4>4
    <3> QED BY <3>1, <3>2
  <2>2. \A t \in S : WaitsFor(t) \subseteq S
    <3> SUFFICES ASSUME NEW t \in S, NEW w \in WaitsFor(t) PROVE w \in S
      OBVIOUS
    <3>1. CASE t \in in({"foreign_key", "answered"})
      BY <1>1, <1>2, <3>1
    <3>2. CASE t \in Late(k)
      BY <2>1, <3>2
    <3> QED BY <3>1, <3>2
  <2>3. WaitsFor(r) \subseteq S
    BY <1>8, <2>1
  <2>4. r \notin S
    BY <1>4, <1>8, <2>0
  <2>5. S \in SUBSET Requests
    OBVIOUS
  <2> HIDE DEF S
  <2> QED BY <2>2, <2>3, <2>4, <2>5 DEF Deadlocked
<1> QED BY <1>5, <1>6, <1>7, <1>8

\* Logins, refreshes and logouts alone never wait for each other in a circle,
\* although a refresh locks two tokens that others may present or make
\* (refresh_sessions.py:44-68): the second is never the earlier one.
THEOREM DeadlockNeedsDeletionHolds == Spec => []DeadlockNeedsDeletion
<1>1. Init => HeldInv
  BY DistinctIdentities DEF Init, HeldInv, Held, NoRequest, Request, Rows
<1>2. IInv /\ HeldInv => DeadlockNeedsDeletion
  BY NoCircleWithoutCascade DEF DeadlockNeedsDeletion, At
<1>3. IInv /\ HeldInv /\ [Next]_vars => HeldInv'
  BY NextKeepsHeld
<1> QED BY <1>1, <1>2, <1>3, InductiveInvariant, PTL DEF Spec

-----------------------------------------------------------------------------
(* Work goes on *)

\* A user who is being deleted is there until that commits.
LEMMA LockedUserIsThere ==
  ASSUME IInv, HeldInv, NEW u \in Users, lock[u] # None
  PROVE  u \in users
<1>1. PICK w \in Requests : lock[u] = w
  BY DEF IInv, TypeOK, Rows
<1>2. SlotInv(w) /\ Held(w) /\ Locked(w, u) /\ u \in Rows
  BY <1>1 DEF IInv, HeldInv, Locked, Rows
<1>3. pc[w] \in {"insert", "foreign_key", "cascade", "answered"} /\ req[w].op = "delete_user" /\ req[w].user = u
  BY <1>2 DEF SlotInv, Held, Locked
<1> QED BY <1>2, <1>3 DEF SlotInv, LeaverInv

\* A request that waits for nobody can go on.
LEMMA NobodyInTheWay ==
  ASSUME IInv, HeldInv, NEW r \in Requests, pc[r] # "idle", WaitsFor(r) = {}
  PROVE  Ready(r)
<1> TypeOK /\ SlotInv(r) /\ Held(r)
  BY DEF IInv, HeldInv
<1>1. CASE pc[r] \in {"insert", "revoke_for_user", "revoke"}
  BY <1>1 DEF Ready, WaitsFor, At, Free
<1>2. CASE pc[r] = "foreign_key"
  <2>1. req[r].user \in Users
    BY <1>2, Executes DEF SlotInv, IssuerInv
  <2>2. CASE req[r].user \in users
    BY <1>2, <2>2 DEF Ready, WaitsFor, At, Free
  <2>3. CASE req[r].user \notin users
    BY <1>2, <2>1, <2>3, LockedUserIsThere DEF Ready, At, Free
  <2> QED BY <2>2, <2>3
<1>3. CASE pc[r] = "delete_user"
  <2>1. req[r].user \in Users
    BY <1>3, Executes DEF SlotInv, LeaverInv
  <2>2. r \notin sharing[req[r].user] /\ None \notin Requests
    BY <1>3, <2>1, DistinctIdentities DEF Held
  <2>3. sharing[req[r].user] \subseteq Requests
    BY <2>1 DEF TypeOK
  <2>4. req[r].user \in users => {lock[req[r].user]} \cup sharing[req[r].user] \subseteq {None, r}
    BY <1>3 DEF WaitsFor
  <2>5. req[r].user \in users => lock[req[r].user] \in {None, r} /\ sharing[req[r].user] = {}
    BY <2>2, <2>3, <2>4
  <2> QED BY <1>3, <2>5 DEF Ready, At, Free
<1>4. CASE pc[r] = "cascade"
  <2>1. \A t \in SessionsOf(req[r].user) : lock[t] \in {None, r}
    BY <1>4 DEF WaitsFor
  <2> QED BY <1>4, <2>1 DEF Ready, At, Locked
<1> QED BY <1>1, <1>2, <1>3, <1>4 DEF Ready, At

\* Those who hold a lock, or keep a user from being deleted, are at work.
LEMMA HoldersAreBusy ==
  ASSUME IInv, HeldInv, NEW r \in Requests, NEW w \in WaitsFor(r)
  PROVE  w \in Requests /\ pc[w] # "idle"
<1> TypeOK /\ SlotInv(r)
  BY DEF IInv
<1>1. w # None
  BY DEF WaitsFor
<1>2. ASSUME NEW row \in Rows, lock[row] = w PROVE w \in Requests /\ pc[w] # "idle"
  <2>1. w \in Requests /\ Locked(w, row)
    BY <1>1, <1>2 DEF TypeOK, Locked
  <2> QED BY <2>1 DEF IInv, SlotInv
<1>3. ASSUME NEW u \in Users, w \in sharing[u] PROVE w \in Requests /\ pc[w] # "idle"
  <2>1. w \in Requests
    BY <1>3 DEF TypeOK
  <2> QED BY <1>3, <2>1 DEF HeldInv, Held
<1>4. CASE pc[r] \in {"revoke_for_user", "revoke"}
  <2>1. lock[req[r].old] = w /\ req[r].old \in Rows
    BY <1>4, Executes DEF WaitsFor, SlotInv, PresenterInv, Rows
  <2> QED BY <1>2, <2>1
<1>5. CASE pc[r] = "insert"
  <2>1. lock[req[r].new] = w /\ req[r].new \in Rows
    BY <1>5, Executes DEF WaitsFor, SlotInv, IssuerInv, Rows
  <2> QED BY <1>2, <2>1
<1>6. CASE pc[r] \in {"foreign_key", "delete_user"}
  <2>1. /\ w \in {lock[req[r].user]} \cup sharing[req[r].user]
        /\ req[r].user \in Users /\ req[r].user \in Rows
    BY <1>6, Executes DEF WaitsFor, SlotInv, IssuerInv, LeaverInv, Rows
  <2> QED BY <1>2, <1>3, <2>1
<1>7. CASE pc[r] = "cascade"
  <2>1. PICK t \in SessionsOf(req[r].user) : lock[t] = w
    BY <1>7 DEF WaitsFor
  <2> QED BY <1>2, <2>1 DEF SessionsOf, Rows
<1>8. pc[r] \in {"revoke_for_user", "revoke", "insert", "foreign_key", "delete_user", "cascade"}
  BY DEF WaitsFor
<1> QED BY <1>4, <1>5, <1>6, <1>7, <1>8

LEMMA SomebodyGoesOn ==
  ASSUME IInv, HeldInv
  PROVE  WorkGoesOn
<1> SUFFICES ASSUME NEW r \in Requests, NEW S \in SUBSET Requests, pc[r] # "idle", r \in S,
                    \A s \in S : WaitsFor(s) \subseteq S
             PROVE  \E s \in S : Ready(s) \/ Deadlocked(s)
  BY DEF WorkGoesOn, At
<1> DEFINE W == [s \in Requests |-> WaitsFor(s)]
           Busy == {s \in S : pc[s] # "idle"}
<1>1. Busy \in SUBSET Requests /\ Busy # {}
  OBVIOUS
<1>2. ClosedUnder(W, Busy)
  BY HoldersAreBusy DEF ClosedUnder
<1>3. PICK s \in Busy : W[s] = {} \/ OnCircle(W, Requests, s)
  <2> HIDE DEF W, Busy
  <2> QED BY <1>1, <1>2, FiniteRequests, WaitsEnd
<1>4. CASE W[s] = {}
  BY <1>4, NobodyInTheWay
<1>5. CASE OnCircle(W, Requests, s)
  BY <1>5 DEF OnCircle, ClosedUnder, Deadlocked
<1> QED BY <1>3, <1>4, <1>5

\* Whatever has happened, the logins, refreshes, logouts and deletions that have
\* begun can be brought to an end: who waits, waits for one that is at work, or
\* for one on a circle (dependencies/database.py:39-50).
THEOREM WorkGoesOnHolds == Spec => []WorkGoesOn
<1>1. Init => HeldInv
  BY DistinctIdentities DEF Init, HeldInv, Held, NoRequest, Request, Rows
<1>2. IInv /\ HeldInv => WorkGoesOn
  BY SomebodyGoesOn
<1>3. IInv /\ HeldInv /\ [Next]_vars => HeldInv'
  BY NextKeepsHeld
<1> QED BY <1>1, <1>2, <1>3, InductiveInvariant, PTL DEF Spec

=============================================================================
