------------------------------- MODULE Service -------------------------------
(***************************************************************************)
(* The process around the use cases: how a request passes the middleware,  *)
(* its dependencies, the handler and the error handlers, when it holds a   *)
(* connection of the pool, what its client is told and what is logged.     *)
(*                                                                         *)
(* From the outside in, a request passes ServerErrorMiddleware (which      *)
(* calls exception_handler for anything unexpected), the middleware that   *)
(* binds the logging context, ExceptionMiddleware (which calls it for a    *)
(* DomainError), the dependencies and the handler.  All dependencies of a  *)
(* request share one session; it takes its connection for the first        *)
(* statement and gives it back after the commit, which follows the answer, *)
(* or after the rollback, which precedes it.                               *)
(*                                                                         *)
(* What the statements do is the matter of the other modules: here some    *)
(* handlers write a row that all of them want.                             *)
(***************************************************************************)
EXTENDS Naturals, FiniteSets, Sequences

CONSTANTS
  Requests,     \* slots for requests in progress at the same time
  None,         \* no request, no error, no answer yet
  Connections,  \* pool_size + max_overflow
  Events        \* the kinds of event of this instance (see EventKinds)

\* Files, endpoints for everyone, endpoints for users, /health and /health/db.
Kinds == {"static", "public", "protected", "health"}
EventKinds == Kinds \cup {"fault", "stop", "kill"}

ASSUME PoolSize == Connections \in Nat \ {0}
ASSUME NobodyNone == None \notin Requests \cup Nat \cup Kinds \cup {"refusal", "unexpected"}
ASSUME KindsOfEvent == Events \subseteq EventKinds

VARIABLES
  process,      \* the server: down, up, or finishing its last requests
  initialized,  \* the database manager has its engine and session factory
  pc,           \* how far each request has come
  kind,         \* what it asks for
  error,        \* the exception that is on its way through the middleware
  context,      \* the fields that are bound to its log entries
  status_code,  \* what the middleware has seen of its answer
  answer,       \* what its client has been told
  log,          \* the entries logged for it
  pool,         \* the requests that have a connection checked out
  owner         \* the request whose transaction has written the row

request == <<pc, kind, error, context, status_code, answer, log>>
vars == <<process, initialized, request, pool, owner>>

\* Any 4xx stands for all of them: which one is a table.
Statuses == {200, 400, 500}

Entry == [event : {"request_completed", "domain_error", "unhandled_exception"},
          status : Statuses \cup {0}, context : SUBSET {"request_id", "user_id"}]

Places == {"routed", "connecting", "authenticating", "pinging", "working", "locking", "wrote",
           "answered", "rollback", "raised", "reporting", "leaving", "escaped", "done"}

TypeOK ==
  /\ process \in {"down", "up", "stopping"} /\ initialized \in BOOLEAN
  /\ pc \in [Requests -> Places \cup {"idle"}]
  /\ kind \in [Requests -> Kinds \cup {None}]
  /\ error \in [Requests -> {None, "refusal", "unexpected"}]
  /\ context \in [Requests -> SUBSET {"request_id", "user_id"}]
  /\ status_code \in [Requests -> Statuses \cup {0}]
  /\ answer \in [Requests -> Statuses \cup {None}]
  /\ log \in [Requests -> Seq(Entry)]
  /\ pool \in SUBSET Requests
  /\ owner \in Requests \cup {None}

-----------------------------------------------------------------------------
(* Ways in which any request goes on. *)

At(r, place) == pc[r] = place
Goto(r, place) == pc' = [pc EXCEPT ![r] = place]

UsesSession(r) == kind[r] \in {"public", "protected"}
Exhausted == Cardinality(pool) >= Connections

Log(r, event, status) ==
  log' = [log EXCEPT ![r] = Append(@, [event |-> event, status |-> status, context |-> context[r]])]

\* The answer starts, and passes the middleware, which notes its status.
Send(r, status) ==
  /\ answer' = [answer EXCEPT ![r] = status]
  /\ status_code' = [status_code EXCEPT ![r] = status]

Move(r, place) ==
  /\ Goto(r, place)
  /\ UNCHANGED <<process, initialized, kind, error, context, status_code, answer, log, pool, owner>>

\* An exception leaves the handler or a dependency of it.
Raise(r, exception) ==
  /\ Goto(r, "rollback")
  /\ error' = [error EXCEPT ![r] = exception]
  /\ UNCHANGED <<process, initialized, kind, context, status_code, answer, log, pool, owner>>

\* The row stays written: a connection that goes back without a rollback.
Release_KeepRow(r) == pool' = pool \ {r} /\ owner' = owner

\* The end of the transaction, and of the session with it.
Release(r) == pool' = pool \ {r} /\ owner' = IF owner = r THEN None ELSE owner

-----------------------------------------------------------------------------
(* The request comes in. *)

Receive(r, k) ==
  /\ process = "up" /\ k \in Events /\ At(r, "idle")
  /\ Goto(r, "routed")
  /\ kind' = [kind EXCEPT ![r] = k]
  /\ context' = [context EXCEPT ![r] = {"request_id"}]
  /\ UNCHANGED <<process, initialized, error, status_code, answer, log, pool, owner>>

\* A file, or a request that is malformed or has no token: no statement is
\* executed.
AnswerAtOnce(r, status) ==
  /\ At(r, "routed")
  /\ \/ kind[r] = "static" /\ status \in {200, 400}
     \/ UsesSession(r) /\ status = 400
  /\ Send(r, status) /\ Goto(r, "leaving")
  /\ UNCHANGED <<process, initialized, kind, error, context, log, pool, owner>>

\* The first statement of a session asks for a connection.
FirstStatement(r) == At(r, "routed") /\ kind[r] # "static" /\ Move(r, "connecting")

-----------------------------------------------------------------------------
(* The pool hands out its connections and makes a client wait when all are *)
(* taken, for a limited time.                                              *)

Connect(r) ==
  /\ At(r, "connecting") /\ ~Exhausted
  /\ pool' = pool \cup {r}
  /\ Goto(r, CASE kind[r] = "protected" -> "authenticating"
               [] kind[r] = "public" -> "working"
               [] kind[r] = "health" -> "pinging")
  /\ UNCHANGED <<process, initialized, kind, error, context, status_code, answer, log, owner>>

\* The wait is over, or the database cannot be reached.  The health check
\* reports it.
NoConnection(r) ==
  /\ At(r, "connecting")
  /\ Exhausted \/ "fault" \in Events
  /\ \/ UsesSession(r) /\ Raise(r, "unexpected")
     \/ kind[r] = "health" /\ Move(r, "reporting")

-----------------------------------------------------------------------------
(* GET /health and GET /health/db: SELECT 1 in a session of its own, which *)
(* is closed before the answer is sent, whether the statement failed or not *)

Ping(r) ==
  /\ At(r, "pinging") /\ Release(r) /\ Goto(r, "reporting")
  /\ UNCHANGED <<process, initialized, kind, error, context, status_code, answer, log>>

Report(r) ==
  /\ At(r, "reporting") /\ Send(r, 200) /\ Goto(r, "leaving")
  /\ UNCHANGED <<process, initialized, kind, error, context, log, pool, owner>>

-----------------------------------------------------------------------------
(* get_current_user, the handler, and its transaction *)

\* The look-up of the user in a session that the handler does not share: the
\* handler has to wait for a second connection.
Authenticate_OwnSession(r) ==
  /\ At(r, "authenticating") /\ Goto(r, "connecting")
  /\ context' = [context EXCEPT ![r] = @ \cup {"user_id"}]
  /\ UNCHANGED <<process, initialized, kind, error, status_code, answer, log, pool, owner>>

\* The user of the token is read and bound to the log entries to come, or the
\* request is refused.
Authenticate(r) ==
  /\ At(r, "authenticating")
  /\ \/ Raise(r, "refusal")
     \/ /\ Goto(r, "working")
        /\ context' = [context EXCEPT ![r] = @ \cup {"user_id"}]
        /\ UNCHANGED <<process, initialized, kind, error, status_code, answer, log, pool, owner>>

\* Some handlers write the row, and wait for a transaction that has written it.
Write(r) == At(r, "working") /\ Move(r, "locking")

LockRow(r) ==
  /\ At(r, "locking") /\ owner = None
  /\ owner' = r /\ Goto(r, "wrote")
  /\ UNCHANGED <<process, initialized, kind, error, context, status_code, answer, log, pool>>

Return(r) ==
  /\ pc[r] \in {"working", "wrote"}
  /\ Send(r, 200) /\ Goto(r, "answered")
  /\ UNCHANGED <<process, initialized, kind, error, context, log, pool, owner>>

\* A DomainError of the use case; a statement or a connection that fails.
Fail(r) ==
  \/ pc[r] \in {"working", "wrote"} /\ Raise(r, "refusal")
  \/ pc[r] \in {"authenticating", "working", "locking", "wrote"} /\ "fault" \in Events
     /\ Raise(r, "unexpected")

Commit(r) ==
  /\ At(r, "answered") /\ Release(r) /\ Goto(r, "leaving")
  /\ UNCHANGED <<process, initialized, kind, error, context, status_code, answer, log>>

CommitFails(r) == At(r, "answered") /\ "fault" \in Events /\ Raise(r, "unexpected")

\* The session is rolled back and closed before any error handler sees the
\* exception.
Rollback(r) ==
  /\ At(r, "rollback") /\ Release(r)
  /\ Goto(r, IF error[r] = "refusal" THEN "raised" ELSE "leaving")
  /\ UNCHANGED <<process, initialized, kind, error, context, status_code, answer, log>>

-----------------------------------------------------------------------------
(* The way out: exception_handler, the middleware, exception_handler again *)

\* ExceptionMiddleware: every DomainError and HTTPException has a 4xx status.
HandleRefusal(r) ==
  /\ At(r, "raised") /\ Send(r, 400) /\ Goto(r, "leaving")
  /\ error' = [error EXCEPT ![r] = None]
  /\ Log(r, "domain_error", 400) \/ UNCHANGED log
  /\ UNCHANGED <<process, initialized, kind, context, pool, owner>>

\* An entry only for requests that come through without an exception.
Complete_OnSuccess(r) ==
  /\ At(r, "leaving")
  /\ IF error[r] = None THEN Log(r, "request_completed", status_code[r]) ELSE UNCHANGED log
  /\ context' = [context EXCEPT ![r] = {}]
  /\ Goto(r, IF error[r] = None THEN "done" ELSE "escaped")
  /\ UNCHANGED <<process, initialized, kind, error, status_code, answer, pool, owner>>

\* The finally clause of the middleware: an entry with the status it has seen,
\* and the context is cleared; an exception goes on.
Complete(r) ==
  /\ At(r, "leaving")
  /\ Log(r, "request_completed", status_code[r])
  /\ context' = [context EXCEPT ![r] = {}]
  /\ Goto(r, IF error[r] = None THEN "done" ELSE "escaped")
  /\ UNCHANGED <<process, initialized, kind, error, status_code, answer, pool, owner>>

\* ServerErrorMiddleware, outside the others: the client gets 500 unless its
\* answer has begun.
ServerError(r) ==
  /\ At(r, "escaped") /\ Goto(r, "done")
  /\ Log(r, "unhandled_exception", 500)
  /\ answer' = [answer EXCEPT ![r] = IF @ = None THEN 500 ELSE @]
  /\ UNCHANGED <<process, initialized, kind, error, context, status_code, pool, owner>>

FreshRequests(slots) ==
  /\ pc' = [r \in Requests |-> IF r \in slots THEN "idle" ELSE pc[r]]
  /\ kind' = [r \in Requests |-> IF r \in slots THEN None ELSE kind[r]]
  /\ error' = [r \in Requests |-> IF r \in slots THEN None ELSE error[r]]
  /\ context' = [r \in Requests |-> IF r \in slots THEN {} ELSE context[r]]
  /\ status_code' = [r \in Requests |-> IF r \in slots THEN 0 ELSE status_code[r]]
  /\ answer' = [r \in Requests |-> IF r \in slots THEN None ELSE answer[r]]
  /\ log' = [r \in Requests |-> IF r \in slots THEN <<>> ELSE log[r]]

Close(r) == At(r, "done") /\ FreshRequests({r}) /\ UNCHANGED <<process, initialized, pool, owner>>

-----------------------------------------------------------------------------
(* The life of the process *)

\* lifespan: the database manager is made and initialized before any request
\* is accepted ...
Start ==
  /\ process = "down" /\ process' = "up" /\ initialized' = TRUE
  /\ UNCHANGED <<request, pool, owner>>

\* ... the server stops accepting them ...
Stop ==
  /\ "stop" \in Events /\ process = "up" /\ process' = "stopping"
  /\ UNCHANGED <<initialized, request, pool, owner>>

\* An engine that is disposed of before the last requests have ended.
Shutdown_AtOnce ==
  /\ process = "stopping" /\ process' = "down" /\ initialized' = FALSE
  /\ UNCHANGED <<request, pool, owner>>

\* ... and the engine is disposed of when the last of them has ended.
Shutdown ==
  /\ process = "stopping" /\ \A r \in Requests : At(r, "idle")
  /\ process' = "down" /\ initialized' = FALSE
  /\ UNCHANGED <<request, pool, owner>>

\* The process dies: the server rolls its transactions back.
Kill ==
  /\ "kill" \in Events /\ process # "down" /\ process' = "down" /\ initialized' = FALSE
  /\ FreshRequests(Requests) /\ pool' = {} /\ owner' = None

Init ==
  /\ process = "down" /\ initialized = FALSE
  /\ pc = [r \in Requests |-> "idle"]
  /\ kind = [r \in Requests |-> None]
  /\ error = [r \in Requests |-> None]
  /\ context = [r \in Requests |-> {}]
  /\ status_code = [r \in Requests |-> 0]
  /\ answer = [r \in Requests |-> None]
  /\ log = [r \in Requests |-> <<>>]
  /\ pool = {} /\ owner = None

\* A request on its way in, in the handler, and on its way out.
Enter(r) == (\E status \in Statuses : AnswerAtOnce(r, status)) \/ FirstStatement(r) \/ NoConnection(r)
Handle(r) == Ping(r) \/ Authenticate(r) \/ Write(r) \/ Return(r) \/ Fail(r)
Finish(r) == Commit(r) \/ CommitFails(r) \/ Rollback(r)
Leave(r) == Report(r) \/ HandleRefusal(r) \/ Complete(r) \/ ServerError(r) \/ Close(r)

Serve(r) == Enter(r) \/ Connect(r) \/ Handle(r) \/ LockRow(r) \/ Finish(r) \/ Leave(r)

Lifespan == Start \/ Stop \/ Shutdown \/ Kill

Next == Lifespan \/ \E r \in Requests : Serve(r) \/ \E k \in Kinds : Receive(r, k)

Spec == Init /\ [][Next]_vars

\* The event loop resumes every task, the database answers every statement or
\* the driver raises, a wait for the pool has a limit, and the queue for a row
\* lock is served in the order of arrival.
Fairness == \A r \in Requests : WF_vars(Serve(r)) /\ SF_vars(LockRow(r))

FairSpec == Spec /\ Fairness

-----------------------------------------------------------------------------
(* Safety *)

\* The requests that r waits for: those with a connection when there is none
\* left, or the one that has written the row.
WaitsFor(r) ==
  CASE At(r, "connecting") /\ Exhausted -> pool
    [] At(r, "locking") /\ owner # None -> {owner}
    [] OTHER -> {}

\* Whoever waits, for a connection or for the row, waits for somebody who can go
\* on: nobody waits for the pool with a connection or a lock in hand, because
\* all dependencies of a request share one session (dependencies/database.py).
HoldersGoOn ==
  \A r \in Requests : WaitsFor(r) # {} => \E s \in WaitsFor(r) : WaitsFor(s) = {}

Entries(r, event) == {i \in DOMAIN log[r] : log[r][i].event = event}

\* When a request is over there is one request_completed entry for it, with the
\* status its client got, or with none at all and a 500 for the client; an
\* unexpected error is logged, even if it came after the answer, as the failure
\* of a commit does (middleware.py:95-116, 151).
LogTellsAnswer ==
  \A r \in Requests : At(r, "done") =>
    /\ \E i \in DOMAIN log[r] :
         /\ Entries(r, "request_completed") = {i}
         /\ log[r][i].status = answer[r] \/ (log[r][i].status = 0 /\ answer[r] = 500)
    /\ Entries(r, "unhandled_exception") # {} <=> error[r] = "unexpected"

\* "4xx are client-side issues; only 5xx counts as a server error"
\* (middleware.py:101): a request that is answered 500 is completed with an entry
\* of that status, which is one of level error.
ServerErrorIsLogged ==
  \A r \in Requests : At(r, "done") /\ answer[r] = 500 =>
    \A i \in Entries(r, "request_completed") : log[r][i].status >= 500

-----------------------------------------------------------------------------
(* Liveness *)

\* Every request ends, also when the pool is exhausted and rows are locked.
EveryRequestEnds == \A r \in Requests : ~At(r, "idle") ~> At(r, "idle")

-----------------------------------------------------------------------------
(* What makes the invariants inductive: connection, lock, error, answer and *)
(* log behind each place.  No request ever meets a database manager without *)
(* its engine, the case in which get_session raises.                        *)

Holding == {"authenticating", "pinging", "working", "locking", "wrote", "answered"}

PlaceInv(r) ==
  /\ pc[r] \in Holding => r \in pool
  /\ r \in pool => pc[r] \in Holding \cup {"rollback"}
  /\ owner = r => pc[r] \in {"wrote", "answered", "rollback"} /\ r \in pool
  /\ pc[r] # "idle" => initialized /\ kind[r] \in Kinds
  /\ pc[r] \in {"connecting", "pinging"} => kind[r] # "static"

OutcomeInv(r) ==
  /\ pc[r] \in {"rollback", "escaped"} => error[r] # None
  /\ pc[r] = "raised" => error[r] = "refusal"
  /\ pc[r] \in {"leaving", "escaped", "done"} => error[r] # "refusal"
  /\ pc[r] \notin {"rollback", "raised", "leaving", "escaped", "done"} => error[r] = None
  /\ error[r] = "refusal" => answer[r] = None

AnswerInv(r) ==
  /\ answer[r] = None => status_code[r] = 0
  /\ answer[r] # None /\ pc[r] # "done" => status_code[r] = answer[r]
  /\ pc[r] = "done" => answer[r] = status_code[r] \/ (status_code[r] = 0 /\ answer[r] = 500)
  /\ pc[r] \in {"leaving", "escaped"} /\ answer[r] = None => error[r] = "unexpected"
  /\ pc[r] = "answered" => answer[r] # None
  /\ answer[r] # None => pc[r] \in {"answered", "rollback", "leaving", "escaped", "done"}

LogInv(r) ==
  /\ pc[r] \in {"escaped", "done"} <=> Entries(r, "request_completed") # {}
  /\ \A i, j \in Entries(r, "request_completed") : i = j
  /\ \A i \in Entries(r, "request_completed") : log[r][i].status = status_code[r]
  /\ Entries(r, "unhandled_exception") # {} <=> pc[r] = "done" /\ error[r] = "unexpected"

IInv ==
  /\ TypeOK
  /\ initialized <=> process # "down"
  /\ \A r \in Requests : PlaceInv(r) /\ OutcomeInv(r) /\ AnswerInv(r) /\ LogInv(r)

=============================================================================
