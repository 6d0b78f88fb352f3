------------------------------ MODULE Sessions ------------------------------
(***************************************************************************)
(* Refresh sessions: AuthUseCases.login, refresh and logout, and what the  *)
(* deletion of a user does to them.  A refresh token is a JWT whose claims *)
(* are the user, the second of its creation and an expiry derived from it, *)
(* signed with one key: two tokens of a user made in the same second are   *)
(* the same string.  A token is therefore the pair <<user, second>>, and   *)
(* its row in refresh_sessions is keyed by it (token_hash is unique).      *)
(*                                                                         *)
(* As in Circulation a request is one transaction, runs one statement per  *)
(* action, and its writes become visible to the others when it commits.    *)
(* Besides the locks on rows, an insert waits for another transaction that *)
(* inserts or changes a row with the same token, and then locks the user   *)
(* against deletion (FOR KEY SHARE), which many inserts can do at a time.  *)
(***************************************************************************)
EXTENDS Integers, FiniteSets

CONSTANTS
  Users,
  Requests,    \* slots for requests in progress at the same time
  None,        \* no holder, no token, nothing to answer yet
  Lifetime,    \* JWT_REFRESH_TOKEN_EXPIRE_DAYS, in seconds of the model
  LastSecond,  \* bound on the clock
  Events       \* the kinds of event of this instance (see EventKinds)

EventKinds == {"login", "refresh", "logout", "delete_user", "fault"}

Refusals == {"InvalidCredentials", "UserNotFound", "InternalServerError"}

Seconds == 0 .. LastSecond
Tokens == Users \X Seconds
Rows == Users \cup Tokens

ASSUME DistinctIdentities ==
  /\ Users \cap Tokens = {}
  /\ None \notin Rows \cup Requests \cup EventKinds \cup Refusals \cup Seconds
ASSUME Limits ==
  Lifetime \in Nat \ {0} /\ LastSecond \in Nat /\ Events \subseteq EventKinds
\* A request that has begun holds one of the sessions of a bounded pool.
ASSUME FiniteRequests == IsFiniteSet(Requests)

VARIABLES
  now,               \* the clock, in whole seconds
  users,             \* the users that exist
  refresh_sessions,  \* each token's committed row, "none" when there is none
  known,             \* the tokens that clients have been given
  pc,                \* the statement each request executes next
  req,               \* parameters and local variables of each request
  reply,             \* the answer its client has got, None until then
  lock,              \* the request that has locked, written or inserted a row
  sharing            \* the requests that keep a user from being deleted

vars == <<now, users, refresh_sessions, known, pc, req, reply, lock, sharing>>
tables == <<users, refresh_sessions>>

Request(op, user, old, as_of) ==
  [op |-> op, user |-> user, old |-> old, new |-> None, as_of |-> as_of]

NoRequest == Request(None, None, None, 0)

Statements == {"get_by_identifier", "verify", "get_by_id", "revoke_for_user", "revoke",
               "insert", "foreign_key", "delete_user", "cascade"}

Ops == EventKinds \ {"fault"}

RequestType == [op : Ops \cup {None}, user : Users \cup {None}, old : Tokens \cup {None},
                new : Tokens \cup {None}, as_of : Seconds]

TypeOK ==
  /\ now \in Seconds
  /\ users \subseteq Users
  /\ refresh_sessions \in [Tokens -> {"none", "active", "revoked"}]
  /\ known \subseteq Tokens
  /\ pc \in [Requests -> Statements \cup {"idle", "answered", "closed"}]
  /\ req \in [Requests -> RequestType]
  /\ reply \in [Requests -> Refusals \cup {None, "ok"}]
  /\ lock \in [Rows -> Requests \cup {None}]
  /\ sharing \in [Users -> SUBSET Requests]

-----------------------------------------------------------------------------
(* Tokens and rows *)

User(t) == t[1]
Expiry(t) == t[2] + Lifetime

Active(t) == refresh_sessions[t] = "active"
Stored(t) == refresh_sessions[t] # "none"
SessionsOf(u) == {t \in Tokens : User(t) = u /\ Stored(t)}

\* jwt.decode accepts a token up to and including the second of its expiry.
Verifies(t) == now <= Expiry(t)

\* WHERE expires_at > now: the two instants can lie in the same second either
\* way round, because the row's expiry keeps the fraction that the token drops.
Unexpired(t, second) == second < Expiry(t)
MaybeUnexpired(t, second) == second <= Expiry(t)

Locked(r, row) == lock[row] = r
Free(r, row) == lock[row] \in {None, r}
Lock(r, row) == lock' = [lock EXCEPT ![row] = r]

\* A session that goes back to the pool without the end of its transaction.
LocksWithout_Leak(r) == lock

LocksWithout(r) == [row \in Rows |-> IF Locked(r, row) THEN None ELSE lock[row]]
SharesWithout(r) == [u \in Users |-> sharing[u] \ {r}]

\* The requests whose end the next statement of r may have to wait for.
WaitsFor(r) ==
  LET u == req[r].user
      Holder(row) == {lock[row]} IN
  (CASE pc[r] \in {"revoke_for_user", "revoke"} /\ Active(req[r].old) -> Holder(req[r].old)
     [] pc[r] = "insert" -> Holder(req[r].new)
     [] pc[r] = "foreign_key" /\ u \in users -> Holder(u)
     [] pc[r] = "delete_user" /\ u \in users -> Holder(u) \cup sharing[u]
     [] pc[r] = "cascade" -> UNION {Holder(t) : t \in SessionsOf(u)}
     [] OTHER -> {}) \ {None, r}

\* r is on a cycle of the waits-for relation.
Deadlocked(r) ==
  \A S \in SUBSET Requests :
    WaitsFor(r) \subseteq S /\ (\A s \in S : WaitsFor(s) \subseteq S) => r \in S

-----------------------------------------------------------------------------
(* Ways in which any request goes on. *)

At(r, statement) == pc[r] = statement
Goto(r, statement) == pc' = [pc EXCEPT ![r] = statement]

Begin(r, statement, parameters) ==
  /\ At(r, "idle") /\ Goto(r, statement)
  /\ req' = [req EXCEPT ![r] = parameters]
  /\ UNCHANGED <<now, tables, known, reply, lock, sharing>>

\* A statement that waits until row is free, and writes it.
Write(r, row, statement) ==
  /\ Free(r, row) /\ Lock(r, row) /\ Goto(r, statement)
  /\ UNCHANGED <<now, tables, known, req, reply, sharing>>

\* The transaction is rolled back, then the client gets the error.
Refuse(r, error) ==
  /\ Goto(r, "closed")
  /\ reply' = [reply EXCEPT ![r] = error]
  /\ lock' = LocksWithout(r) /\ sharing' = SharesWithout(r)
  /\ UNCHANGED <<now, tables, known, req>>

\* The handler returns: the response goes out before the commit.
Answer(r) == Goto(r, "answered") /\ reply' = [reply EXCEPT ![r] = "ok"]

Committing(r, op) == At(r, "answered") /\ req[r].op = op

Finish(r) ==
  /\ Goto(r, "idle")
  /\ req' = [req EXCEPT ![r] = NoRequest]
  /\ reply' = [reply EXCEPT ![r] = None]
  /\ lock' = LocksWithout(r) /\ sharing' = SharesWithout(r)
  /\ UNCHANGED <<now, known>>

-----------------------------------------------------------------------------
(* POST /auth/login *)

\* The user exists and the password is right.
BeginLogin(r, u) ==
  /\ "login" \in Events
  /\ Begin(r, "get_by_identifier", Request("login", u, None, now))

\* _issue_tokens makes the new token of r.
IssueTokens(r, statement) ==
  /\ req' = [req EXCEPT ![r].new = <<req[r].user, now>>]
  /\ Goto(r, statement)
  /\ UNCHANGED <<now, tables, known, reply, lock, sharing>>

GetByIdentifier(r) ==
  /\ At(r, "get_by_identifier")
  /\ IF req[r].user \in users THEN IssueTokens(r, "insert") ELSE Refuse(r, "InvalidCredentials")

\* INSERT INTO refresh_sessions with no unique index on token_hash.
InsertSession_NoUniqueIndex(r) ==
  /\ At(r, "insert")
  /\ Write(r, req[r].new, "foreign_key")

\* INSERT INTO refresh_sessions: the unique index on token_hash comes first.
\* Its violation is not translated by the repository.
InsertSession(r) ==
  LET t == req[r].new IN
  /\ At(r, "insert") /\ Free(r, t)
  /\ IF Stored(t) THEN Refuse(r, "InternalServerError") ELSE Write(r, t, "foreign_key")

\* The insert without the foreign key to users.
CheckForeignKey_None(r) ==
  /\ At(r, "foreign_key")
  /\ Answer(r) /\ known' = known \cup {req[r].new}
  /\ UNCHANGED <<now, tables, req, lock, sharing>>

\* A response made from the token that was presented.
CheckForeignKey_OldToken(r) ==
  /\ At(r, "foreign_key")
  /\ Answer(r) /\ known' = known \cup {req[r].old}
  /\ UNCHANGED <<now, tables, req, lock, sharing>>

\* ... and the foreign key to users at the end of the statement.
CheckForeignKey(r) ==
  LET u == req[r].user IN
  /\ At(r, "foreign_key") /\ Free(r, u)
  /\ IF u \notin users
       THEN Refuse(r, "InternalServerError")
       ELSE /\ sharing' = [sharing EXCEPT ![u] = @ \cup {r}]
            /\ Answer(r) /\ known' = known \cup {req[r].new}
            /\ UNCHANGED <<now, tables, req, lock>>

CommitLogin_NeverCommitted(r) ==
  Committing(r, "login") /\ UNCHANGED tables /\ Finish(r)

CommitLogin(r) ==
  /\ Committing(r, "login")
  /\ refresh_sessions' = [refresh_sessions EXCEPT ![req[r].new] = "active"]
  /\ UNCHANGED users
  /\ Finish(r)

-----------------------------------------------------------------------------
(* POST /auth/refresh *)

\* Any client may present any token it has ever been given, and more than once.
BeginRefresh(r, t) ==
  /\ "refresh" \in Events /\ t \in known
  /\ Begin(r, "verify", Request("refresh", User(t), t, now))

\* A logout with an invalid token ends there, as if it had done something.
Verify(r) ==
  /\ At(r, "verify")
  /\ \/ /\ Verifies(req[r].old)
        /\ Goto(r, IF req[r].op = "refresh" THEN "get_by_id" ELSE "revoke")
        /\ UNCHANGED <<now, tables, known, req, reply, lock, sharing>>
     \/ /\ ~Verifies(req[r].old) /\ req[r].op = "refresh"
        /\ Refuse(r, "InvalidCredentials")
     \/ /\ ~Verifies(req[r].old) /\ req[r].op = "logout"
        /\ Answer(r) /\ UNCHANGED <<now, tables, known, req, lock, sharing>>

GetById(r) ==
  /\ At(r, "get_by_id")
  /\ IF req[r].user \in users
       THEN IssueTokens(r, "revoke_for_user")
       ELSE Refuse(r, "InvalidCredentials")

\* rotate that looks at the row first and revokes it without a condition.
RevokeForUser_Unconditional(r) ==
  /\ At(r, "revoke_for_user")
  /\ Write(r, req[r].old, "insert")

\* UPDATE ... WHERE token_hash = old AND user_id = u AND revoked_at IS NULL AND
\* expires_at > now.  No row means a ValueError, answered as bad credentials.
RevokeForUser(r) ==
  LET t == req[r].old IN
  /\ At(r, "revoke_for_user")
  /\ \/ Active(t) /\ MaybeUnexpired(t, req[r].as_of) /\ Write(r, t, "insert")
     \/ ~(Active(t) /\ Unexpired(t, req[r].as_of)) /\ Refuse(r, "InvalidCredentials")

\* rotate without the revocation of the old token.
CommitRefresh_KeepOld(r) ==
  /\ Committing(r, "refresh")
  /\ refresh_sessions' = [refresh_sessions EXCEPT ![req[r].new] = "active"]
  /\ UNCHANGED users
  /\ Finish(r)

CommitRefresh(r) ==
  /\ Committing(r, "refresh")
  /\ refresh_sessions' =
       [refresh_sessions EXCEPT ![req[r].old] = "revoked", ![req[r].new] = "active"]
  /\ UNCHANGED users
  /\ Finish(r)

-----------------------------------------------------------------------------
(* POST /auth/logout *)

BeginLogout(r, t) ==
  /\ "logout" \in Events /\ t \in known
  /\ Begin(r, "verify", Request("logout", User(t), t, now))

\* UPDATE ... WHERE token_hash = old AND revoked_at IS NULL; the number of rows
\* it changes is not looked at.
Revoke(r) ==
  LET t == req[r].old IN
  /\ At(r, "revoke")
  /\ \/ Active(t) /\ Free(r, t) /\ Lock(r, t)
     \/ ~Active(t) /\ UNCHANGED lock
  /\ Answer(r) /\ UNCHANGED <<now, tables, known, req, sharing>>

CommitLogout(r) ==
  /\ Committing(r, "logout")
  /\ refresh_sessions' = IF Locked(r, req[r].old)
                           THEN [refresh_sessions EXCEPT ![req[r].old] = "revoked"]
                           ELSE refresh_sessions
  /\ UNCHANGED users
  /\ Finish(r)

-----------------------------------------------------------------------------
(* DELETE /users/me and /users/{id} *)

BeginDeleteUser(r, u) ==
  /\ "delete_user" \in Events
  /\ Begin(r, "delete_user", Request("delete_user", u, None, now))

DeleteUser(r) ==
  LET u == req[r].user IN
  /\ At(r, "delete_user")
  /\ \/ u \in users /\ sharing[u] = {} /\ Write(r, u, "cascade")
     \/ u \notin users /\ Refuse(r, "UserNotFound")

CascadeToSession(r, t) ==
  /\ At(r, "cascade") /\ t \in SessionsOf(req[r].user) /\ lock[t] = None
  /\ Lock(r, t) /\ UNCHANGED <<now, tables, known, pc, req, reply, sharing>>

CascadeDone(r) ==
  /\ At(r, "cascade") /\ \A t \in SessionsOf(req[r].user) : Locked(r, t)
  /\ Answer(r) /\ UNCHANGED <<now, tables, known, req, lock, sharing>>

\* A deletion without the cascade to refresh_sessions.
CommitDelete_KeepSessions(r) ==
  /\ Committing(r, "delete_user")
  /\ users' = users \ {req[r].user}
  /\ UNCHANGED refresh_sessions
  /\ Finish(r)

CommitDelete(r) ==
  /\ Committing(r, "delete_user")
  /\ users' = users \ {req[r].user}
  /\ refresh_sessions' = [t \in Tokens |-> IF User(t) = req[r].user /\ Locked(r, t)
                                             THEN "none" ELSE refresh_sessions[t]]
  /\ Finish(r)

-----------------------------------------------------------------------------
(* The rest of a request's life, and the environment. *)

Close(r) == At(r, "closed") /\ Finish(r) /\ UNCHANGED tables

\* A connection or the process goes down before the commit.
Fault(r) ==
  /\ "fault" \in Events /\ pc[r] \notin {"idle", "closed"}
  /\ IF At(r, "answered") THEN Finish(r) /\ UNCHANGED tables
                          ELSE Refuse(r, "InternalServerError")

DeadlockVictim(r) == Deadlocked(r) /\ Refuse(r, "InternalServerError")

Tick ==
  /\ now < LastSecond /\ now' = now + 1
  /\ UNCHANGED <<tables, known, pc, req, reply, lock, sharing>>

Init ==
  /\ now = 0 /\ users = Users /\ known = {}
  /\ refresh_sessions = [t \in Tokens |-> "none"]
  /\ pc = [r \in Requests |-> "idle"]
  /\ req = [r \in Requests |-> NoRequest]
  /\ reply = [r \in Requests |-> None]
  /\ lock = [row \in Rows |-> None]
  /\ sharing = [u \in Users |-> {}]

Arrive(r) ==
  \/ \E u \in Users : BeginLogin(r, u) \/ BeginDeleteUser(r, u)
  \/ \E t \in Tokens : BeginRefresh(r, t) \/ BeginLogout(r, t)

Serve(r) ==
  \/ GetByIdentifier(r) \/ InsertSession(r) \/ CheckForeignKey(r) \/ CommitLogin(r)
  \/ Verify(r) \/ GetById(r) \/ RevokeForUser(r) \/ CommitRefresh(r)
  \/ Revoke(r) \/ CommitLogout(r)
  \/ DeleteUser(r) \/ (\E t \in Tokens : CascadeToSession(r, t)) \/ CascadeDone(r)
  \/ CommitDelete(r) \/ Close(r)

Next ==
  \/ \E r \in Requests : Arrive(r) \/ Serve(r) \/ Fault(r) \/ DeadlockVictim(r)
  \/ Tick

Spec == Init /\ [][Next]_vars

\* As in Circulation: accepted requests are worked on, waiters for a lock are
\* queued, deadlocks are looked for.
FairSpec ==
  Spec /\ \A r \in Requests : SF_vars(Serve(r)) /\ WF_vars(DeadlockVictim(r))

-----------------------------------------------------------------------------
(* Safety *)

\* No row of refresh_sessions outlives its user, although login and refresh look
\* the user up two statements before they insert it (models.py:74).
NoSessionWithoutUser ==
  \A t \in Tokens : Stored(t) => User(t) \in users

\* The holder of a new token that is announced and not yet stored keeps its user
\* from being deleted, and the token's row from being made by another request.
AnnouncedTokenIsSafe ==
  \A r \in Requests : At(r, "answered") /\ req[r].op \in {"login", "refresh"} =>
    /\ Locked(r, req[r].new) /\ ~Stored(req[r].new)
    /\ req[r].user \in users /\ r \in sharing[req[r].user]
    /\ \A s \in Requests : req[s].op = "delete_user" /\ req[s].user = req[r].user
                             => pc[s] \notin {"cascade", "answered"}

\* Logins, refreshes and logouts never wait for each other in a circle; only the
\* cascade of a user's deletion can meet a refresh that way round.
DeadlockNeedsDeletion ==
  (\E r \in Requests : Deadlocked(r)) => \E s \in Requests : At(s, "cascade")

\* A refresh stores its new token only in the step that takes an old one, active
\* until then, out of use: what rotate saw four statements before still holds, and
\* one token never turns into two (refresh_sessions.py:52-57).
OneTokenForAnother ==
  [][\A r \in Requests :
       Committing(r, "refresh") /\ ~Stored(req[r].new) /\ refresh_sessions'[req[r].new] # "none"
         => Active(req[r].old) /\ refresh_sessions'[req[r].old] # "active"]_vars

\* A login with the right password is not answered with a server error: a user may
\* have several sessions, one per device (models.py:68).
LoginMakesASession ==
  [][\A r \in Requests : At(r, "insert") /\ req[r].op = "login"
                           => reply'[r] # "InternalServerError"]_vars

\* The next statement of r can be executed: the guard of Serve(r).
Ready(r) ==
  LET u == req[r].user t == req[r].old IN
  CASE At(r, "idle") -> FALSE
    [] At(r, "insert") -> Free(r, req[r].new)
    [] At(r, "foreign_key") -> Free(r, u)
    [] At(r, "revoke_for_user") -> Active(t) /\ Unexpired(t, req[r].as_of) => Free(r, t)
    [] At(r, "revoke") -> Active(t) => Free(r, t)
    [] At(r, "delete_user") -> u \in users => sharing[u] = {} /\ Free(r, u)
    [] At(r, "cascade") -> \/ \E s \in SessionsOf(u) : lock[s] = None
                           \/ \A s \in SessionsOf(u) : Locked(r, s)
    [] OTHER -> TRUE

\* No request is held up for nothing: among those it waits for, directly or
\* through others, there is one whose next statement can be executed, or one on
\* a circle of waits, which PostgreSQL breaks (dependencies/database.py:39-50).
WorkGoesOn ==
  \A r \in Requests, S \in SUBSET Requests :
    ~At(r, "idle") /\ r \in S /\ (\A s \in S : WaitsFor(s) \subseteq S)
      => \E s \in S : Ready(s) \/ Deadlocked(s)

\* This step brings about what the answer of r said, and nothing had before it.  A
\* logout is answered in the same way whether or not its row was found.
TakesEffect(r) ==
  LET u == req[r].user old == req[r].old new == req[r].new IN
  \/ req[r].op = "login" /\ ~Stored(new) /\ refresh_sessions'[new] = "active"
  \/ /\ req[r].op = "refresh" /\ ~Stored(new) /\ refresh_sessions'[new] = "active"
     /\ Active(old) /\ refresh_sessions'[old] = "revoked"
  \/ /\ req[r].op = "logout"
     /\ Locked(r, old) => Active(old) /\ refresh_sessions'[old] = "revoked"
  \/ /\ req[r].op = "delete_user" /\ u \in users /\ u \notin users'
     /\ \A t \in Tokens : User(t) = u => refresh_sessions'[t] = "none"

\* What a request has been answered before its commit is still to be done when the
\* commit comes, and is done by it: no deadlock, no other request and no deletion
\* comes between, only a fault (dependencies/database.py:45).
AnswersComeTrue ==
  [][\A r \in Requests : At(r, "answered") /\ ~At(r, "answered")' =>
       TakesEffect(r) \/ Fault(r)]_vars

-----------------------------------------------------------------------------
(* Liveness *)

\* Every request ends, though it may wait for rows of others or be in a deadlock.
EveryRequestEnds ==
  \A r \in Requests : pc[r] # "idle" ~> pc[r] = "idle"

\* A token that a client has been given is stored at last, unless the server fails.
AnsweredTokenIsStored ==
  "fault" \notin Events =>
    \A t \in Tokens : (\E r \in Requests : At(r, "answered") /\ req[r].new = t)
                        ~> Stored(t) \/ User(t) \notin users

\* A token that a client has logged out with, before it expired, is not valid any
\* more once the logout is through ("logout (server-side revocation)", models.py:66).
LogoutIsFinal ==
  \A r \in Requests, t \in Tokens :
    Committing(r, "logout") /\ req[r].old = t /\ Verifies(t) ~> []~Active(t)

-----------------------------------------------------------------------------
(* The single-use tickets that refresh tokens implement *)

Desk == INSTANCE Tickets WITH
  Numbers <- Seconds,
  members <- users,
  valid <- {t \in Tokens : Active(t)},
  used <- {t \in Tokens : refresh_sessions[t] = "revoked"}

\* Login, refresh and logout are atomic: a token is exchanged at most once, for
\* exactly one new one, and is never valid again (auth_use_cases.py:67-115).
ImplementsTickets == Desk!Spec

-----------------------------------------------------------------------------
(* What makes the invariants inductive: the rows and locks behind each pc *)

\* login and refresh, once they have made a new token.
IssuerInv(r) ==
  LET u == req[r].user t == req[r].new IN
  req[r].op \in {"login", "refresh"} =>
    /\ pc[r] \in {"get_by_identifier", "verify", "get_by_id", "revoke_for_user",
                  "insert", "foreign_key", "answered", "closed"}
    /\ u \in Users
    /\ pc[r] \in {"revoke_for_user", "insert", "foreign_key", "answered"} =>
         t \in Tokens /\ User(t) = u
    /\ pc[r] \in {"foreign_key", "answered"} => Locked(r, t) /\ ~Stored(t)
    /\ pc[r] = "answered" => u \in users /\ r \in sharing[u]

\* refresh and logout, which present an old one.
PresenterInv(r) ==
  LET t == req[r].old IN
  /\ req[r].op \in {"refresh", "logout"} => t \in Tokens /\ User(t) = req[r].user
  /\ req[r].op = "refresh" /\ pc[r] \in {"insert", "foreign_key", "answered"} =>
       Locked(r, t) /\ Active(t)
  /\ req[r].op = "logout" =>
       /\ pc[r] \in {"verify", "revoke", "answered", "closed"}
       /\ pc[r] = "answered" /\ Locked(r, t) => Active(t)

LeaverInv(r) ==
  LET u == req[r].user IN
  req[r].op = "delete_user" =>
    /\ u \in Users /\ pc[r] \in {"delete_user", "cascade", "answered", "closed"}
    /\ pc[r] \in {"cascade", "answered"} => Locked(r, u) /\ u \in users /\ sharing[u] = {}
    /\ pc[r] = "answered" => \A t \in SessionsOf(u) : Locked(r, t)

SlotInv(r) ==
  /\ req[r].op = None <=> pc[r] = "idle"
  /\ pc[r] \notin {"insert", "foreign_key", "cascade", "answered"} =>
       \A row \in Rows : ~Locked(r, row)
  /\ pc[r] = "get_by_identifier" => req[r].op = "login"
  /\ pc[r] = "verify" => req[r].op \in {"refresh", "logout"}
  /\ pc[r] \in {"get_by_id", "revoke_for_user"} => req[r].op = "refresh"
  /\ IssuerInv(r) /\ PresenterInv(r) /\ LeaverInv(r)

\* What every statement relies on: the rows it has locked are as it left them.
IInv == TypeOK /\ (\A r \in Requests : SlotInv(r)) /\ NoSessionWithoutUser

=============================================================================
