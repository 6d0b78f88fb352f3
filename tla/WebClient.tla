----------------------------- MODULE WebClient -----------------------------
(***************************************************************************)
(* The session handling of the web client, static/app.js, in one browser   *)
(* profile: tabs that share localStorage, each with calls of apiRequest in *)
(* flight and at most one refresh of its own.  The server answers a login  *)
(* or a refresh before it commits: a tab may store and present a token     *)
(* whose row nobody sees yet, or that a failed commit has undone.  How a   *)
(* request gets as far as its answer is the matter of Sessions.            *)
(*                                                                         *)
(* A session is an access token, a refresh token and the user, which are   *)
(* stored and cleared together; both tokens are named by the ticket.       *)
(* Between two awaits JavaScript runs undisturbed, so an action is the     *)
(* answer to one fetch with everything it makes a tab do up to the next.   *)
(***************************************************************************)
CONSTANTS
  Users,
  Numbers,  \* tell the tokens of a user apart; their number is a bound
  Tabs,
  Calls,    \* slots for calls of apiRequest in flight
  None      \* no token, no call

Tokens == Users \X Numbers

ASSUME DistinctIdentities ==
  None \notin Tokens \cup Calls \cup Tabs /\ "nobody" \notin Tabs

VARIABLES
  stored,          \* the session in localStorage
  view,            \* what each tab shows
  refreshPromise,  \* the call whose answer the tab's refreshPromise waits for
  calls,           \* each call in flight
  logouts,         \* the tokens of logout requests on their way
  abandoned,       \* the tokens of refresh requests whose tab no longer listens
  valid, used,     \* the committed rows of refresh_sessions: active, revoked
  pending,         \* the logins and refreshes answered and not committed yet
  lost,            \* history: the tokens of those whose commit failed
  heir             \* history: who is told the token that each was exchanged for

browser == <<stored, view, refreshPromise, calls>>
network == <<logouts, abandoned>>
tickets == <<valid, used>>
server == <<tickets, pending, lost>>
vars == <<browser, network, server, heir>>

\* "early" is a refusal too: of a token whose row is not committed yet.
States == {"idle", "sent", "done", "denied", "waiting",
           "refresh", "renewed", "refused", "early", "failed"}

\* A refresh replaces the row of one token, a login that of none.
Transaction == [old : SUBSET Tokens, new : Tokens]

Idle == [state |-> "idle", kind |-> None, tab |-> None,
         token |-> None, new |-> None, retried |-> FALSE]

Fetch(kind, x, t, retried) ==
  [state |-> "sent", kind |-> kind, tab |-> x, token |-> t, new |-> None, retried |-> retried]

\* The one repetition of a call.  A login does not look at the token it carries.
Again(call, t) == Fetch(call.kind, call.tab, IF call.kind = "login" THEN None ELSE t, TRUE)

CallType == [state : States, kind : {"page", "login", "sync", None}, tab : Tabs \cup {None},
             token : Tokens \cup {None}, new : Tokens \cup {None}, retried : BOOLEAN]

TypeOK ==
  /\ stored \in Tokens \cup {None}
  /\ view \in [Tabs -> {"login", "app"}]
  /\ refreshPromise \in [Tabs -> Calls \cup {None}]
  /\ calls \in [Calls -> CallType]
  /\ logouts \subseteq Tokens /\ abandoned \subseteq Tokens
  /\ valid \subseteq Tokens /\ used \subseteq Tokens /\ lost \subseteq Tokens
  /\ pending \subseteq Transaction
  /\ heir \in [Tokens -> Tabs \cup {None, "nobody"}]

-----------------------------------------------------------------------------
In(c, state) == calls[c].state = state
Refreshing(c) == calls[c].state \in {"refresh", "renewed", "refused", "early", "failed"}
Put(c, call) == calls' = [calls EXCEPT ![c] = call]
Become(c, state) == calls' = [calls EXCEPT ![c].state = state]

\* A queue of waiters that a rejected refresh forgets to empty.
Party_OwnerOnly(c) == {c}

\* The calls that await the refresh of c, its own included.
Party(c) == {c} \cup {d \in Calls : In(d, "waiting") /\ calls[d].tab = calls[c].tab}

NotRefreshing(S) ==
  refreshPromise' = [x \in Tabs |-> IF refreshPromise[x] \in S THEN None ELSE refreshPromise[x]]

End(S) == calls' = [c \in Calls |-> IF c \in S THEN Idle ELSE calls[c]]

-----------------------------------------------------------------------------
(* What a user does in a tab *)

\* route: without a session every view is the login, with one the login is not.
Route(x) ==
  /\ view' = [view EXCEPT ![x] = IF stored = None THEN "login" ELSE "app"]
  /\ UNCHANGED <<stored, refreshPromise, calls, network, server, heir>>

Page(c, x) ==
  /\ In(c, "idle") /\ view[x] = "app"
  /\ Put(c, Fetch("page", x, stored, FALSE))
  /\ UNCHANGED <<stored, view, refreshPromise, network, server, heir>>

SubmitLogin(c, x) ==
  /\ In(c, "idle") /\ view[x] = "login"
  /\ Put(c, Fetch("login", x, None, FALSE))
  /\ UNCHANGED <<stored, view, refreshPromise, network, server, heir>>

\* The request is sent whether or not a session is stored.
Logout_Unchecked(x) ==
  /\ view[x] = "app"
  /\ logouts' = logouts \cup {stored}
  /\ stored' = None
  /\ view' = [view EXCEPT ![x] = "login"]
  /\ UNCHANGED <<refreshPromise, calls, abandoned, server, heir>>

\* The session is left to be cleared when the server has answered.
Logout_KeepSession(x) ==
  /\ view[x] = "app" /\ stored # None
  /\ logouts' = logouts \cup {stored}
  /\ view' = [view EXCEPT ![x] = "login"]
  /\ UNCHANGED <<stored, refreshPromise, calls, abandoned, server, heir>>

\* The answer to the logout request is not looked at.  Without a session this is
\* the same as Route.
Logout(x) ==
  /\ view[x] = "app" /\ stored # None
  /\ logouts' = logouts \cup {stored}
  /\ stored' = None
  /\ view' = [view EXCEPT ![x] = "login"]
  /\ UNCHANGED <<refreshPromise, calls, abandoned, server, heir>>

-----------------------------------------------------------------------------
(* What the server does *)

Announced == {p.new : p \in pending}

\* A refresh has locked the row of its old token.
Held(t) == \E p \in pending : t \in p.old

\* No row in the unique index, committed or not.  Nor a token that a failed commit
\* has left without one: it is made again only in the very second of that commit.
Fresh(t) == t \notin valid \cup used \cup lost \cup Announced

\* revoke_for_user and create of rotate, as they are committed.
Rotate(old, new) == valid' = (valid \ old) \cup new /\ used' = used \cup old

Owe(old, new) ==
  /\ pending' = pending \cup {[old |-> old, new |-> new]}
  /\ UNCHANGED <<tickets, lost>>

\* Every page asks a protected endpoint: 401 without an access token, with one
\* that has expired, and for a login with a wrong password.  A request without a
\* session, a login apart, is always denied; one with a session may be.
Serve(c) ==
  /\ In(c, "sent")
  /\ \/ Put(c, [calls[c] EXCEPT !.state = "denied", !.token = None]) /\ UNCHANGED server
     \/ /\ calls[c].kind # "login" /\ calls[c].token # None
        /\ Put(c, [calls[c] EXCEPT !.state = "done", !.token = None]) /\ UNCHANGED server
     \/ /\ calls[c].kind = "login"
        /\ \E t \in Tokens :
             Fresh(t) /\ Owe({}, t) /\ Put(c, [calls[c] EXCEPT !.state = "done", !.new = t])
  /\ UNCHANGED <<stored, view, refreshPromise, network, heir>>

\* A refresh of a token that another one has locked waits for its end.  Any error
\* other than a refusal leaves the token as it is.
ServeRefresh(c) ==
  LET t == calls[c].token IN
  /\ In(c, "refresh")
  /\ \/ \E n \in Tokens :
          /\ t \in valid /\ ~Held(t) /\ Fresh(n) /\ n[1] = t[1] /\ Owe({t}, n)
          /\ Put(c, [calls[c] EXCEPT !.state = "renewed", !.new = n])
          /\ heir' = [heir EXCEPT ![t] = calls[c].tab]
     \/ /\ t \notin valid /\ Become(c, IF t \in Announced THEN "early" ELSE "refused")
        /\ UNCHANGED <<server, heir>>
     \/ Become(c, "failed") /\ UNCHANGED <<server, heir>>
  /\ UNCHANGED <<stored, view, refreshPromise, network>>

\* get_transactional_session goes on after its yield.
Commit(p) ==
  /\ p \in pending /\ pending' = pending \ {p}
  /\ Rotate(p.old, {p.new})
  /\ UNCHANGED <<browser, network, lost, heir>>

\* The connection or the process goes down in between.
CommitFails(p) ==
  /\ p \in pending /\ pending' = pending \ {p}
  /\ lost' = lost \cup {p.new}
  /\ heir' = [t \in Tokens |-> IF t \in p.old THEN None ELSE heir[t]]
  /\ UNCHANGED <<browser, network, tickets>>

\* Nobody looks at the answer of either of these, so they happen as they commit.
\* They may also get lost, be refused, or find no committed row to change.
ServeLogout(t) ==
  /\ t \in logouts /\ logouts' = logouts \ {t}
  /\ (t \in valid /\ ~Held(t) /\ Rotate({t}, {})) \/ UNCHANGED tickets
  /\ UNCHANGED <<browser, abandoned, pending, lost, heir>>

ServeAbandoned(t) ==
  /\ t \in abandoned /\ abandoned' = abandoned \ {t}
  /\ \/ /\ t \in valid /\ ~Held(t)
        /\ \E n \in Tokens : Fresh(n) /\ n[1] = t[1] /\ Rotate({t}, {n})
        /\ heir' = [heir EXCEPT ![t] = "nobody"]
     \/ UNCHANGED <<tickets, heir>>
  /\ UNCHANGED <<browser, logouts, pending, lost>>

-----------------------------------------------------------------------------
(* What a tab does with an answer *)

\* clearSession, and the login unless the tab shows it already.
SignedOut(x) == stored' = None /\ view' = [view EXCEPT ![x] = "login"]

\* A login stores the session and goes on with syncLoansFromServer, and, unless
\* that answers with an error, to the list of books.
Done(c) ==
  LET x == calls[c].tab
      t == calls[c].new IN
  /\ In(c, "done")
  /\ IF calls[c].kind = "login"
       THEN stored' = t /\ Put(c, Fetch("sync", x, t, FALSE)) /\ UNCHANGED view
       ELSE /\ End({c})
            /\ \/ UNCHANGED view
               \/ calls[c].kind = "sync" /\ view' = [view EXCEPT ![x] = "app"]
            /\ UNCHANGED stored
  /\ UNCHANGED <<refreshPromise, network, server, heir>>

\* Every call that is denied asks for a refresh of its own.
Denied_EachItsOwn(c) ==
  LET x == calls[c].tab IN
  /\ In(c, "denied")
  /\ \/ /\ ~calls[c].retried /\ stored # None
        /\ Put(c, [calls[c] EXCEPT !.state = "refresh", !.token = stored])
        /\ refreshPromise' = [refreshPromise EXCEPT ![x] = c]
        /\ UNCHANGED <<stored, view>>
     \/ /\ calls[c].retried \/ stored = None
        /\ End({c}) /\ SignedOut(x) /\ UNCHANGED refreshPromise
  /\ UNCHANGED <<network, server, heir>>

\* 401: join the refresh of the tab, or start one with the token now stored.
Denied(c) ==
  LET x == calls[c].tab
      joins == refreshPromise[x] # None IN
  /\ In(c, "denied")
  /\ \/ /\ ~calls[c].retried /\ joins
        /\ Become(c, "waiting") /\ UNCHANGED <<stored, view, refreshPromise>>
     \/ /\ ~calls[c].retried /\ ~joins /\ stored # None
        /\ Put(c, [calls[c] EXCEPT !.state = "refresh", !.token = stored])
        /\ refreshPromise' = [refreshPromise EXCEPT ![x] = c]
        /\ UNCHANGED <<stored, view>>
     \/ /\ calls[c].retried \/ (~joins /\ stored = None)
        /\ End({c}) /\ SignedOut(x) /\ UNCHANGED refreshPromise
  /\ UNCHANGED <<network, server, heir>>

\* The refresh token is taken for one that can be used again.
Renewed_KeepRefreshToken(c) ==
  /\ In(c, "renewed")
  /\ calls' = [d \in Calls |-> IF d \in Party(c) THEN Again(calls[d], calls[c].new) ELSE calls[d]]
  /\ NotRefreshing({c})
  /\ UNCHANGED <<stored, view, network, server, heir>>

\* The new session is stored, and all who waited try again, once.
Renewed(c) ==
  /\ In(c, "renewed")
  /\ stored' = calls[c].new
  /\ calls' = [d \in Calls |-> IF d \in Party(c) THEN Again(calls[d], calls[c].new) ELSE calls[d]]
  /\ NotRefreshing({c})
  /\ UNCHANGED <<view, network, server, heir>>

Refused(c) ==
  /\ In(c, "refused") \/ In(c, "early") \/ In(c, "failed")
  /\ End(Party(c)) /\ NotRefreshing({c}) /\ SignedOut(calls[c].tab)
  /\ UNCHANGED <<network, server, heir>>

\* c has the answer with the successor of t.
Succeeds(c, t) == In(c, "renewed") /\ calls[c].token = t /\ calls[c].new \notin lost

\* The calls in S get no answer any more.  A refresh may still be served.
Drop(S) ==
  /\ End(S) /\ NotRefreshing(S)
  /\ abandoned' = abandoned \cup {calls[c].token : c \in {d \in S : In(d, "refresh")}}
  /\ heir' = [t \in Tokens |->
       IF \E c \in S : Succeeds(c, t) THEN "nobody" ELSE heir[t]]
  /\ UNCHANGED <<logouts, server>>

\* A request that fails on its way is taken for the end of the session.
Lose_SignOut(c) ==
  /\ ~In(c, "idle") /\ ~In(c, "waiting")
  /\ Drop(IF refreshPromise[calls[c].tab] = c THEN Party(c) ELSE {c})
  /\ SignedOut(calls[c].tab)

\* fetch, or the reading of its answer, is rejected: so is everyone who waits.
Lose(c) ==
  /\ ~In(c, "idle") /\ ~In(c, "waiting")
  /\ Drop(IF refreshPromise[calls[c].tab] = c THEN Party(c) ELSE {c})
  /\ UNCHANGED <<stored, view>>

\* The page is loaded again and begins with route.
Reload(x) ==
  /\ Drop({c \in Calls : calls[c].tab = x})
  /\ view' = [view EXCEPT ![x] = IF stored = None THEN "login" ELSE "app"]
  /\ UNCHANGED stored

-----------------------------------------------------------------------------
Init ==
  /\ stored = None
  /\ view = [x \in Tabs |-> "login"]
  /\ refreshPromise = [x \in Tabs |-> None]
  /\ calls = [c \in Calls |-> Idle]
  /\ logouts = {} /\ abandoned = {}
  /\ valid = {} /\ used = {} /\ pending = {} /\ lost = {}
  /\ heir = [t \in Tokens |-> None]

Answer(c) == Done(c) \/ Denied(c) \/ Renewed(c) \/ Refused(c) \/ Lose(c)

Next ==
  \/ \E c \in Calls : Serve(c) \/ ServeRefresh(c) \/ Answer(c)
  \/ \E x \in Tabs : Route(x) \/ Logout(x) \/ Reload(x)
                     \/ \E c \in Calls : Page(c, x) \/ SubmitLogin(c, x)
  \/ \E t \in Tokens : ServeLogout(t) \/ ServeAbandoned(t)
  \/ \E p \in pending : Commit(p) \/ CommitFails(p)

Spec == Init /\ [][Next]_vars

-----------------------------------------------------------------------------
(* The session that the browser stores can be refreshed, at once or when the *)
(* commit that follows its answer is done, whatever tabs, answers and failures *)
(* have met.  There are three exceptions: that commit has failed *)
(* (dependencies/database.py:45), the answer with its successor is on its way to *)
(* a tab, or that answer was lost. *)
StoredTokenWorks ==
  stored # None =>
    \/ stored \in valid \cup Announced
    \/ stored \in lost
    \/ heir[stored] = "nobody"
    \/ \E c \in Calls : Succeeds(c, stored)

(* A tab is never refused a refresh because it has used the token up itself, in *)
(* a refresh that it got an answer to: refreshTokens lets the calls of a tab *)
(* share one.  A refresh that comes before the commit of its own token is another *)
(* matter (KeepsGoodSession). *)
OwnRefreshNeverRefused ==
  \A c \in Calls : In(c, "refused") => heir[calls[c].token] # calls[c].tab

ClearedGoodSession == stored \in valid \cup Announced /\ stored' = None

\* c ends with the answer that clears the session.
Overtaken(c) ==
  /\ calls'[c] = Idle
  /\ \/ In(c, "denied") /\ calls[c].retried
     \/ In(c, "failed") \/ In(c, "early")
     \/ In(c, "refused") /\ calls[c].token # stored

(* A session that the server honours, or will when it has committed, is cleared *)
(* only by a logout, by a second 401 to one call, by an error of the server during *)
(* a refresh, by the refusal of a refresh that another session has overtaken, or *)
(* of one that came before the commit of its own token: never by a request that *)
(* fails on its way. *)
KeepsGoodSession ==
  [][ClearedGoodSession => stored \in logouts' \/ \E c \in Calls : Overtaken(c)]_vars

(* Whoever waits for the refresh of a tab waits for one that is in progress, so *)
(* every call of apiRequest returns or throws when the fetch under it does. *)
NobodyWaitsInVain ==
  \A c \in Calls : In(c, "waiting") =>
    LET d == refreshPromise[calls[c].tab] IN
    d \in Calls /\ Refreshing(d) /\ calls[d].tab = calls[c].tab

-----------------------------------------------------------------------------
(* No account is deleted here. *)
Desk == INSTANCE Tickets WITH members <- Users

(* Although answers go out before their commits, and commits fail, the rows only *)
(* take steps of Tickets, which Sessions is shown to implement: a token is in *)
(* place when the commit of its exchange comes, and its successor is still new. *)
MeetsTickets == Desk!Spec

-----------------------------------------------------------------------------
(* The inductive invariant *)

Known == valid \cup used \cup lost \cup Announced

\* c is about to bring a token that the browser does not have yet.
Brings(c) == In(c, "renewed") \/ (In(c, "done") /\ calls[c].kind = "login")

ServerInv ==
  /\ valid \cap used = {} /\ lost \cap (valid \cup used) = {}
  /\ \A t \in Tokens : heir[t] # None => t \in used \/ Held(t)
  /\ logouts \cup abandoned \subseteq Known

\* What a transaction is about to commit is still to be done.
PendingInv ==
  /\ \A p \in pending :
       /\ p.old \subseteq valid /\ p.new \notin valid \cup used \cup lost
       /\ p.old = {} \/ \E t \in Tokens : p.old = {t} /\ t[1] = p.new[1]
  /\ \A p, q \in pending : p.new = q.new \/ p.old \cap q.old # {} => p = q

StoredInv ==
  /\ stored \in Known \cup {None} /\ stored \notin logouts
  /\ StoredTokenWorks
  /\ Held(stored) => heir[stored] = "nobody" \/ \E c \in Calls : Succeeds(c, stored)

PromiseInv ==
  /\ \A x \in Tabs : refreshPromise[x] # None =>
       Refreshing(refreshPromise[x]) /\ calls[refreshPromise[x]].tab = x
  /\ \A c \in Calls : In(c, "waiting") => refreshPromise[calls[c].tab] # None

CallInv(c) ==
  /\ ~In(c, "idle") => calls[c].tab \in Tabs
  /\ Refreshing(c) => refreshPromise[calls[c].tab] = c /\ calls[c].token \in Known
  /\ Refreshing(c) /\ ~In(c, "renewed") => heir[calls[c].token] # calls[c].tab
  /\ In(c, "refused") => calls[c].token \in used \cup lost

\* The exchange that c was told of is made, or about to be.
RenewedInv(c) ==
  LET t == calls[c].token IN
  Succeeds(c, t) =>
    /\ heir[t] = calls[c].tab
    /\ \/ t \in used /\ calls[c].new \in valid
       \/ [old |-> {t}, new |-> calls[c].new] \in pending

\* Nobody else has, presents or has presented the token that c brings.
SecretInv(c) ==
  Brings(c) =>
    LET t == calls[c].new IN
    /\ t \in valid \cup lost \cup Announced /\ ~Held(t)
    /\ t # stored /\ t \notin logouts \cup abandoned
    /\ \A d \in Calls : Refreshing(d) => calls[d].token # t
    /\ \A d \in Calls \ {c} : Brings(d) => calls[d].new # t

IInv ==
  /\ TypeOK /\ ServerInv /\ PendingInv /\ StoredInv /\ PromiseInv
  /\ \A c \in Calls : CallInv(c) /\ RenewedInv(c) /\ SecretInv(c)

=============================================================================
