-------------------------- MODULE WebClientProofs --------------------------
(***************************************************************************)
(* The invariants of WebClient for every number of tabs, calls and tokens. *)
(***************************************************************************)
EXTENDS WebClient, TLAPS

-----------------------------------------------------------------------------
(* What a browser does, the server does not see *)

SameServer ==
  /\ valid' = valid /\ used' = used /\ lost' = lost /\ pending' = pending
  /\ Announced' = Announced /\ Known' = Known
  /\ \A t : Held(t)' <=> Held(t)

LEMMA ServerFrame ==
  ASSUME UNCHANGED server
  PROVE  SameServer /\ (PendingInv => PendingInv')
BY DEF server, tickets, SameServer, Announced, Known, Held, PendingInv

\* A row is locked for one transaction, and a new token is that of one.
LEMMA PendingFacts ==
  ASSUME IInv
  PROVE  /\ \A t : Held(t) => t \in valid /\ t \notin used \cup lost
         /\ Announced \cap (valid \cup used \cup lost) = {} /\ Announced \subseteq Tokens
         /\ ~Held(None) /\ None \notin Known /\ Known \subseteq Tokens
BY DistinctIdentities DEF IInv, PendingInv, ServerInv, TypeOK, Transaction, Held, Announced, Known

-----------------------------------------------------------------------------
(* Calls *)

\* A fetch that is sent says nothing about any session but the one it carries.
LEMMA FetchFacts ==
  ASSUME NEW kind \in {"page", "login", "sync"}, NEW x \in Tabs,
         NEW t \in Tokens \cup {None}, NEW retried \in BOOLEAN
  PROVE  /\ Fetch(kind, x, t, retried) \in CallType
         /\ Fetch(kind, x, t, retried).state = "sent"
         /\ Fetch(kind, x, t, retried).tab = x
BY DEF Fetch, CallType, States

LEMMA IdleFacts == Idle \in CallType /\ Idle.state = "idle"
BY DEF Idle, CallType, States

\* A call that is idle, or sent and not answered, has no part in the invariant
\* beyond its tab.
LEMMA PlainCall ==
  ASSUME IInv, NEW c \in Calls, NEW call \in CallType,
         call.state \in {"idle", "sent", "denied"},
         call.state # "idle" => call.tab \in Tabs,
         ~Refreshing(c),
         calls' = [calls EXCEPT ![c] = call],
         UNCHANGED <<refreshPromise, network, server, heir, stored>>,
         view' \in [Tabs -> {"login", "app"}]
  PROVE  IInv'
<1>0. SameServer /\ PendingInv'
  BY ServerFrame DEF IInv
<1>1. /\ calls' \in [Calls -> CallType] /\ calls'[c] = call
      /\ \A d \in Calls \ {c} : calls'[d] = calls[d]
  BY DEF IInv, TypeOK
<1>2. TypeOK'
  BY <1>1, <1>0 DEF IInv, TypeOK, network, SameServer
<1>3. ServerInv'
  BY <1>0 DEF IInv, ServerInv, network, SameServer
<1>4. StoredInv'
  BY <1>1, <1>0 DEF IInv, StoredInv, StoredTokenWorks, network, In, Refreshing, Succeeds,
         SameServer
<1>5. PromiseInv'
  BY <1>1 DEF IInv, TypeOK, PromiseInv, In, Refreshing
<1>6. ASSUME NEW d \in Calls PROVE CallInv(d)' /\ RenewedInv(d)'
  BY <1>1, <1>6, <1>0 DEF IInv, CallInv, In, Refreshing, RenewedInv, Succeeds, SameServer
<1>7. ASSUME NEW d \in Calls PROVE SecretInv(d)'
  BY <1>1, <1>7, <1>0 DEF IInv, SecretInv, Brings, In, Refreshing, network, SameServer
<1> QED
  BY <1>0, <1>2, <1>3, <1>4, <1>5, <1>6, <1>7 DEF IInv

-----------------------------------------------------------------------------
(* What a user does in a tab *)

LEMMA RouteStep ==
  ASSUME IInv, NEW x \in Tabs, Route(x)
  PROVE  IInv'
<1>0. SameServer /\ PendingInv'
  BY ServerFrame DEF IInv, Route
<1>1. TypeOK'
  BY <1>0 DEF IInv, TypeOK, Route, network, SameServer
<1>2. ServerInv' /\ StoredInv' /\ PromiseInv'
  BY <1>0 DEF IInv, ServerInv, StoredInv, StoredTokenWorks, PromiseInv, Route, network, In,
         Refreshing, Succeeds, SameServer
<1>3. ASSUME NEW c \in Calls PROVE CallInv(c)' /\ RenewedInv(c)' /\ SecretInv(c)'
  BY <1>3, <1>0 DEF IInv, CallInv, SecretInv, Brings, Route, network, In, Refreshing,
         RenewedInv, Succeeds, SameServer
<1> QED
  BY <1>0, <1>1, <1>2, <1>3 DEF IInv

LEMMA FetchStep ==
  ASSUME IInv, NEW c \in Calls, NEW x \in Tabs, Page(c, x) \/ SubmitLogin(c, x)
  PROVE  IInv'
<1>1. stored \in Tokens \cup {None} /\ view \in [Tabs -> {"login", "app"}]
  BY DEF IInv, TypeOK
<1>2. ~Refreshing(c)
  BY DEF Page, SubmitLogin, In, Refreshing
<1>3. CASE Page(c, x)
  <2> DEFINE call == Fetch("page", x, stored, FALSE)
  <2>1. call \in CallType /\ call.state = "sent" /\ call.tab = x
    BY <1>1, FetchFacts
  <2>2. calls' = [calls EXCEPT ![c] = call] /\ UNCHANGED <<refreshPromise, network, server, heir, stored, view>>
    BY <1>3 DEF Page, Put
  <2> HIDE DEF call
  <2> QED  BY <1>1, <1>2, <2>1, <2>2, PlainCall
<1>4. CASE SubmitLogin(c, x)
  <2> DEFINE call == Fetch("login", x, None, FALSE)
  <2>1. call \in CallType /\ call.state = "sent" /\ call.tab = x
    BY FetchFacts
  <2>2. calls' = [calls EXCEPT ![c] = call] /\ UNCHANGED <<refreshPromise, network, server, heir, stored, view>>
    BY <1>4 DEF SubmitLogin, Put
  <2> HIDE DEF call
  <2> QED  BY <1>1, <1>2, <2>1, <2>2, PlainCall
<1> QED
  BY <1>3, <1>4

LEMMA LogoutStep ==
  ASSUME IInv, NEW x \in Tabs, Logout(x)
  PROVE  IInv'
<1>0. SameServer /\ PendingInv'
  BY ServerFrame DEF IInv, Logout
<1>1. TypeOK'
  BY <1>0 DEF IInv, TypeOK, Logout, SameServer
<1>2. ServerInv' /\ StoredInv' /\ PromiseInv'
  BY DistinctIdentities, PendingFacts, <1>0 DEF IInv, TypeOK, ServerInv, StoredInv, StoredTokenWorks,
         PromiseInv, Logout, In, Refreshing, Succeeds, SameServer
<1>3. ASSUME NEW c \in Calls PROVE CallInv(c)' /\ RenewedInv(c)'
  BY <1>3, <1>0 DEF IInv, CallInv, Logout, In, Refreshing, RenewedInv, Succeeds, SameServer
<1>4. ASSUME NEW c \in Calls PROVE SecretInv(c)'
  BY <1>4, DistinctIdentities, PendingFacts, <1>0 DEF IInv, TypeOK, SecretInv, Brings, Logout, In,
         Refreshing, Known, SameServer
<1> QED
  BY <1>0, <1>1, <1>2, <1>3, <1>4 DEF IInv

-----------------------------------------------------------------------------
(* What the server does *)

\* What an answer promises, and what stays as it was until the commit.
LEMMA OweFacts ==
  ASSUME IInv, NEW old \in SUBSET Tokens, NEW n \in Tokens, Fresh(n), Owe(old, n),
         old = {} \/ \E t \in Tokens : old = {t} /\ t \in valid /\ ~Held(t) /\ t[1] = n[1]
  PROVE  /\ UNCHANGED <<valid, used, lost>>
         /\ pending' \subseteq Transaction /\ PendingInv'
         /\ pending \subseteq pending' /\ [old |-> old, new |-> n] \in pending'
         /\ n \notin Known /\ Announced' = Announced \cup {n} /\ Known' = Known \cup {n}
         /\ \A t : Held(t)' <=> Held(t) \/ t \in old
<1> DEFINE r == [old |-> old, new |-> n]
<1>1. r \in Transaction /\ r.old = old /\ r.new = n
  BY DEF Transaction
<1>2. UNCHANGED <<valid, used, lost>> /\ pending' = pending \cup {r}
  BY DEF Owe, tickets
<1> HIDE DEF r
<1>3. pending' \subseteq Transaction /\ r \in pending' /\ pending \subseteq pending'
  BY <1>1, <1>2 DEF IInv, TypeOK
<1>4. n \notin Known
  BY DEF Fresh, Known
<1>5. Announced' = Announced \cup {n} /\ \A t : Held(t)' <=> Held(t) \/ t \in old
  BY <1>1, <1>2 DEF Announced, Held
<1>6. Known' = Known \cup {n}
  BY <1>2, <1>5 DEF Known
<1>7. PendingInv'
  <2>1. ASSUME NEW p \in pending'
        PROVE  /\ p.old \subseteq valid' /\ p.new \notin valid' \cup used' \cup lost'
               /\ p.old = {} \/ \E t \in Tokens : p.old = {t} /\ t[1] = p.new[1]
    <3>1. CASE p \in pending
      BY <1>2, <3>1 DEF IInv, PendingInv
    <3>2. CASE p = r
      BY <1>1, <1>2, <1>4, <3>2 DEF Known
    <3> QED  BY <1>2, <2>1, <3>1, <3>2
  <2>2. ASSUME NEW p \in pending PROVE p.new # n /\ p.old \cap old = {}
    BY <1>4 DEF Known, Announced, Held
  <2>3. \A p, q \in pending' : p.new = q.new \/ p.old \cap q.old # {} => p = q
    BY <1>1, <1>2, <2>2 DEF IInv, PendingInv
  <2> QED  BY <2>1, <2>3 DEF PendingInv
<1> QED
  BY <1>2, <1>3, <1>4, <1>5, <1>6, <1>7 DEF r

\* The end of a transaction, for better or worse.
LEMMA EndFacts ==
  ASSUME IInv, NEW p \in pending, pending' = pending \ {p}
  PROVE  /\ p.old \subseteq valid /\ p.new \in Tokens /\ p.new \in Announced
         /\ p.old \cap (used \cup lost) = {} /\ p.new \notin valid \cup used \cup lost
         /\ Announced' = Announced \ {p.new}
         /\ \A t : Held(t)' <=> Held(t) /\ t \notin p.old
         /\ \A t \in p.old : Held(t)
<1>1. \A q \in pending \ {p} : q.new # p.new /\ q.old \cap p.old = {}
  BY DEF IInv, PendingInv
<1>2. /\ p.old \subseteq valid /\ p.new \in Tokens /\ p.new \in Announced
      /\ p.old \cap (used \cup lost) = {} /\ p.new \notin valid \cup used \cup lost
  BY DEF IInv, PendingInv, ServerInv, TypeOK, Transaction, Announced
<1>3. Announced' = Announced \ {p.new}
  BY <1>1 DEF Announced
<1>4. (\A t : Held(t)' <=> Held(t) /\ t \notin p.old) /\ \A t \in p.old : Held(t)
  BY <1>1 DEF Held
<1> QED
  BY <1>2, <1>3, <1>4

\* An exchange and a new session take a token that nobody has seen.
LEMMA ServeStep ==
  ASSUME IInv, NEW c \in Calls, Serve(c)
  PROVE  IInv'
<1> DEFINE denied == [calls[c] EXCEPT !.state = "denied", !.token = None]
           page == [calls[c] EXCEPT !.state = "done", !.token = None]
<1>0. In(c, "sent") /\ UNCHANGED <<stored, view, refreshPromise, network, heir>>
  BY Zenon DEF Serve
<1>1. calls[c] \in CallType /\ In(c, "sent") /\ ~Refreshing(c) /\ calls[c].tab \in Tabs
  BY <1>0 DEF IInv, TypeOK, CallInv, In, Refreshing
<1>2. UNCHANGED <<stored, view, refreshPromise, network, heir>>
  BY <1>0
<1>3. CASE Put(c, denied) /\ UNCHANGED server
  <2>1. denied \in CallType /\ denied.state = "denied" /\ denied.tab \in Tabs
    BY <1>1 DEF CallType, States
  <2> HIDE DEF denied
  <2> QED
    BY <1>1, <1>2, <1>3, <2>1, PlainCall DEF Put, IInv, TypeOK
<1>4. CASE calls[c].kind # "login" /\ Put(c, page) /\ UNCHANGED server
  <2>0. SameServer /\ PendingInv'
    BY <1>4, ServerFrame DEF IInv
  <2>1. /\ page \in CallType /\ page.state = "done" /\ page.tab = calls[c].tab
        /\ page.kind = calls[c].kind
    BY <1>1 DEF CallType, States
  <2> HIDE DEF page
  <2>2. /\ calls' \in [Calls -> CallType] /\ calls'[c] = page
        /\ \A d \in Calls \ {c} : calls'[d] = calls[d]
    BY <1>4, <2>1 DEF IInv, TypeOK, Put
  <2>3. TypeOK' /\ ServerInv' /\ StoredInv' /\ PromiseInv'
    BY <1>1, <1>2, <2>0, <2>1, <2>2 DEF IInv, TypeOK, ServerInv, StoredInv, StoredTokenWorks,
           PromiseInv, network, SameServer, In, Refreshing, Succeeds
  <2>4. ASSUME NEW d \in Calls PROVE CallInv(d)' /\ RenewedInv(d)' /\ SecretInv(d)'
    BY <1>1, <1>2, <1>4, <2>0, <2>1, <2>2, <2>4 DEF IInv, CallInv, RenewedInv, SecretInv, Brings,
           network, SameServer, In, Refreshing, Succeeds
  <2> QED  BY <2>0, <2>3, <2>4 DEF IInv
<1>5. ASSUME NEW t \in Tokens, calls[c].kind = "login", Fresh(t), Owe({}, t),
             Put(c, [calls[c] EXCEPT !.state = "done", !.new = t])
      PROVE  IInv'
  <2> DEFINE login == [calls[c] EXCEPT !.state = "done", !.new = t]
  <2>1. /\ login \in CallType /\ login.state = "done" /\ login.tab = calls[c].tab
        /\ login.kind = "login" /\ login.new = t
    BY <1>1, <1>5 DEF CallType, States
  <2>2. calls' = [calls EXCEPT ![c] = login]
    BY <1>5 DEF Put
  <2> HIDE DEF login
  <2>3. /\ calls' \in [Calls -> CallType] /\ calls'[c] = login
        /\ \A d \in Calls \ {c} : calls'[d] = calls[d]
    BY <2>1, <2>2 DEF IInv, TypeOK
  <2>4. /\ UNCHANGED <<valid, used, lost>>
        /\ pending' \subseteq Transaction /\ PendingInv' /\ pending \subseteq pending'
        /\ t \notin Known /\ Announced' = Announced \cup {t} /\ Known' = Known \cup {t}
        /\ \A s : Held(s)' <=> Held(s)
    <3>1. {} \in SUBSET Tokens
      OBVIOUS
    <3>2. \A s : s \notin {}
      OBVIOUS
    <3> HIDE DEF login
    <3> QED
      BY <1>5, <3>1, <3>2, OweFacts, Zenon
  <2>5. TypeOK' /\ ServerInv' /\ PromiseInv'
    BY <1>1, <1>2, <2>1, <2>3, <2>4 DEF IInv, TypeOK, ServerInv, PromiseInv, network, In, Refreshing
  <2>6. StoredInv'
    BY <1>1, <1>2, <2>1, <2>3, <2>4 DEF IInv, StoredInv, StoredTokenWorks, network, In, Succeeds
  <2>7. ASSUME NEW d \in Calls PROVE CallInv(d)' /\ RenewedInv(d)'
    BY <1>1, <1>2, <2>1, <2>3, <2>4, <2>7 DEF IInv, CallInv, RenewedInv, In, Refreshing, Succeeds
  <2>8. ASSUME NEW d \in Calls PROVE SecretInv(d)'
    <3>1. t # stored /\ t \notin logouts \cup abandoned /\ ~Held(t)
      BY <2>4, DistinctIdentities, PendingFacts DEF IInv, StoredInv, ServerInv, Known
    <3>2. \A e \in Calls : (Refreshing(e) => calls[e].token # t) /\ (Brings(e) => calls[e].new # t)
      BY <2>4 DEF IInv, CallInv, SecretInv, Known
    <3> QED
      BY <1>1, <1>2, <2>1, <2>3, <2>4, <2>8, <3>1, <3>2 DEF IInv, SecretInv, Brings, network, In, Refreshing
  <2> QED  BY <2>4, <2>5, <2>6, <2>7, <2>8 DEF IInv
<1> QED
  BY <1>3, <1>4, <1>5, Zenon DEF Serve


LEMMA RefreshStep ==
  ASSUME IInv, NEW c \in Calls, ServeRefresh(c)
  PROVE  IInv'
<1> DEFINE t == calls[c].token
           x == calls[c].tab
<1>0. In(c, "refresh") /\ UNCHANGED <<stored, view, refreshPromise, network>>
  BY Zenon DEF ServeRefresh
<1>1. /\ calls[c] \in CallType /\ In(c, "refresh") /\ Refreshing(c) /\ ~Brings(c)
      /\ x \in Tabs /\ t \in Known /\ t \in Tokens /\ refreshPromise[x] = c /\ heir[t] # x
  BY <1>0, PendingFacts DEF IInv, TypeOK, CallInv, In, Refreshing, Brings
<1>2. UNCHANGED <<stored, view, refreshPromise, network>>
  BY <1>0
<1>3. ASSUME NEW n \in Tokens, t \in valid, ~Held(t), Fresh(n), n[1] = t[1], Owe({t}, n),
             Put(c, [calls[c] EXCEPT !.state = "renewed", !.new = n]),
             heir' = [heir EXCEPT ![t] = x]
      PROVE  IInv'
  <2> DEFINE call == [calls[c] EXCEPT !.state = "renewed", !.new = n]
  <2>1. call \in CallType /\ call.state = "renewed" /\ call.tab = x /\ call.token = t /\ call.new = n
    BY <1>1 DEF CallType, States
  <2>2. calls' = [calls EXCEPT ![c] = call]
    BY <1>3 DEF Put
  <2> HIDE DEF call
  <2>3. /\ calls' \in [Calls -> CallType] /\ calls'[c] = call
        /\ \A d \in Calls \ {c} : calls'[d] = calls[d]
    BY <2>1, <2>2 DEF IInv, TypeOK
  <2> HIDE DEF t, x
  <2>4. /\ UNCHANGED <<valid, used, lost>>
        /\ pending' \subseteq Transaction /\ PendingInv' /\ pending \subseteq pending'
        /\ [old |-> {t}, new |-> n] \in pending'
        /\ n \notin Known /\ Announced' = Announced \cup {n} /\ Known' = Known \cup {n}
        /\ \A s : Held(s)' <=> Held(s) \/ s \in {t}
    BY <1>1, <1>3, OweFacts
  <2>5. /\ heir[t] = None /\ heir'[t] = x /\ \A s \in Tokens \ {t} : heir'[s] = heir[s]
        /\ t # n /\ t \notin used \cup lost
    BY <1>1, <1>3, <2>4 DEF IInv, TypeOK, ServerInv, Known
  <2>6. TypeOK'
    BY <1>1, <1>2, <1>3, <2>3, <2>4 DEF IInv, TypeOK, network
  <2>7. ServerInv'
    BY <1>2, <2>4, <2>5 DEF IInv, TypeOK, ServerInv, network
  <2>8. PromiseInv'
    BY <1>1, <1>2, <2>1, <2>3, DistinctIdentities DEF IInv, TypeOK, PromiseInv, In, Refreshing, x
  <2>9. StoredInv'
    <3>1. CASE stored = t
      <4>1. Succeeds(c, stored)'
        BY <1>2, <2>1, <2>3, <2>4, <3>1 DEF Succeeds, In, Known
      <4> QED
        BY <1>2, <1>3, <2>4, <3>1, <4>1 DEF IInv, StoredInv, StoredTokenWorks, network
    <3>2. CASE stored # t
      <4>1. \A d \in Calls : Succeeds(d, stored) => d # c /\ Succeeds(d, stored)'
        BY <1>1, <1>2, <2>3, <2>4 DEF Succeeds, In
      <4>2. stored # None => heir'[stored] = heir[stored]
        BY <2>5, <3>2 DEF IInv, TypeOK
      <4>3. ~Held(None)
        BY PendingFacts
      <4> QED
        BY <1>2, <2>4, <3>2, <4>1, <4>2, <4>3 DEF IInv, StoredInv, StoredTokenWorks, network
    <3> QED  BY <3>1, <3>2
  <2>10. ASSUME NEW d \in Calls PROVE CallInv(d)' /\ RenewedInv(d)'
    <3>1. CASE d = c
      BY <1>1, <1>2, <2>1, <2>3, <2>4, <2>5, <3>1 DEF CallInv, RenewedInv, In, Refreshing, Succeeds
    <3>2. CASE d # c
      <4>1. calls'[d] = calls[d] /\ CallInv(d) /\ RenewedInv(d)
        BY <2>3, <2>10, <3>2 DEF IInv
      <4>2. Refreshing(d) => calls[d].token \in Tokens /\ calls[d].tab \in Tabs \ {x}
        BY <1>1, <3>2, <4>1, PendingFacts DEF CallInv, IInv, TypeOK, Known, In, Refreshing
      <4>3. Succeeds(d, calls[d].token) => calls[d].token # t
        BY <2>5, <4>1, <4>2, DistinctIdentities DEF RenewedInv, Succeeds, In, Refreshing
      <4>4. CallInv(d)'
        BY <1>2, <2>4, <2>5, <4>1, <4>2 DEF CallInv, In, Refreshing
      <4>5. RenewedInv(d)'
        BY <1>2, <2>4, <2>5, <4>1, <4>2, <4>3 DEF RenewedInv, In, Refreshing, Succeeds
      <4> QED  BY <4>4, <4>5
    <3> QED  BY <3>1, <3>2
  <2>11. ASSUME NEW d \in Calls PROVE SecretInv(d)'
    <3>1. n # stored /\ n \notin logouts \cup abandoned /\ ~Held(n)
      BY <2>4, DistinctIdentities, PendingFacts DEF IInv, StoredInv, ServerInv, Known
    <3>2. \A e \in Calls : /\ Refreshing(e) => calls[e].token # n
                           /\ Brings(e) => calls[e].new # n /\ calls[e].new # t
      BY <1>1, <2>4 DEF IInv, CallInv, SecretInv, Known, t
    <3>3. CASE d = c
      BY <1>1, <1>2, <2>1, <2>3, <2>4, <2>5, <3>1, <3>2, <3>3 DEF SecretInv, Brings, network, In, Refreshing
    <3>4. CASE d # c
      BY <1>1, <1>2, <2>1, <2>3, <2>4, <2>11, <3>2, <3>4 DEF IInv, SecretInv, Brings, network, In, Refreshing, t
    <3> QED  BY <3>3, <3>4
  <2> QED  BY <2>4, <2>6, <2>7, <2>8, <2>9, <2>10, <2>11 DEF IInv
<1>4. ASSUME NEW state \in {"refused", "early", "failed"}, Become(c, state),
             state = "refused" => t \notin valid /\ t \notin Announced, UNCHANGED <<server, heir>>
      PROVE  IInv'
  <2>0. SameServer /\ PendingInv'
    BY <1>4, ServerFrame DEF IInv
  <2>1. /\ calls' \in [Calls -> CallType]
        /\ calls'[c].state = state /\ calls'[c].tab = x /\ calls'[c].token = t
        /\ \A d \in Calls \ {c} : calls'[d] = calls[d]
    BY <1>1, <1>4 DEF IInv, TypeOK, Become, CallType, States
  <2>2. state = "refused" => t \in used \cup lost
    BY <1>1, <1>4 DEF Known
  <2>3. TypeOK' /\ ServerInv' /\ StoredInv' /\ PromiseInv'
    BY <1>1, <1>2, <1>4, <2>0, <2>1 DEF IInv, TypeOK, ServerInv, StoredInv, StoredTokenWorks,
           PromiseInv, network, SameServer, In, Refreshing, Succeeds
  <2>4. ASSUME NEW d \in Calls PROVE CallInv(d)' /\ RenewedInv(d)'
    BY <1>1, <1>2, <1>4, <2>0, <2>1, <2>2, <2>4 DEF IInv, CallInv, RenewedInv, SameServer, In,
           Refreshing, Succeeds
  <2>5. ASSUME NEW d \in Calls PROVE SecretInv(d)'
    BY <1>1, <1>2, <1>4, <2>0, <2>1, <2>5 DEF IInv, SecretInv, Brings, network, SameServer, In, Refreshing
  <2> QED  BY <2>0, <2>3, <2>4, <2>5 DEF IInv
<1> QED
  <2>1. \/ \E n \in Tokens :
             /\ t \in valid /\ ~Held(t) /\ Fresh(n) /\ n[1] = t[1] /\ Owe({t}, n)
             /\ Put(c, [calls[c] EXCEPT !.state = "renewed", !.new = n])
             /\ heir' = [heir EXCEPT ![t] = x]
        \/ /\ t \notin valid /\ Become(c, IF t \in Announced THEN "early" ELSE "refused")
           /\ UNCHANGED <<server, heir>>
        \/ Become(c, "failed") /\ UNCHANGED <<server, heir>>
    BY Zenon DEF ServeRefresh
  <2>2. CASE t \notin valid /\ Become(c, IF t \in Announced THEN "early" ELSE "refused")
             /\ UNCHANGED <<server, heir>>
    <3>1. CASE t \in Announced
      BY <1>4, <2>2, <3>1
    <3>2. CASE t \notin Announced
      BY <1>4, <2>2, <3>2
    <3> QED  BY <3>1, <3>2
  <2>3. CASE Become(c, "failed") /\ UNCHANGED <<server, heir>>
    BY <1>4, <2>3
  <2> QED
    BY <1>3, <2>1, <2>2, <2>3, Zenon

\* The transactions are over, and what their answers said holds, or is lost.
LEMMA CommitStep ==
  ASSUME IInv, NEW p \in pending, Commit(p)
  PROVE  IInv'
<1>1. /\ UNCHANGED <<browser, network, lost, heir>> /\ pending' = pending \ {p}
      /\ valid' = (valid \ p.old) \cup {p.new} /\ used' = used \cup p.old
  BY DEF Commit, Rotate
<1>2. /\ p.old \subseteq valid /\ p.new \in Tokens /\ p.new \in Announced
      /\ p.old \cap (used \cup lost) = {} /\ p.new \notin valid \cup used \cup lost
      /\ Announced' = Announced \ {p.new}
      /\ \A t : Held(t)' <=> Held(t) /\ t \notin p.old
      /\ \A t \in p.old : Held(t)
  BY <1>1, EndFacts
<1>3. Known' = Known
  BY <1>1, <1>2 DEF Known
<1>4. TypeOK'
  BY <1>1, <1>2 DEF IInv, TypeOK, browser, network
<1>5. ServerInv' /\ PromiseInv'
  BY <1>1, <1>2, <1>3 DEF IInv, ServerInv, PromiseInv, browser, network, In, Refreshing
<1>6. PendingInv'
  <2>1. \A q \in pending \ {p} : q.new # p.new /\ q.old \cap p.old = {}
    BY DEF IInv, PendingInv
  <2> QED
    BY <1>1, <1>2, <2>1 DEF IInv, PendingInv
<1>7. StoredInv'
  <2>1. \A c \in Calls : Succeeds(c, stored)' <=> Succeeds(c, stored)
    BY <1>1 DEF Succeeds, In, browser
  <2> QED
    BY <1>1, <1>2, <1>3, <2>1 DEF IInv, StoredInv, StoredTokenWorks, browser, network
<1>8. ASSUME NEW c \in Calls PROVE CallInv(c)' /\ RenewedInv(c)' /\ SecretInv(c)'
  <2>1. CallInv(c)'
    BY <1>1, <1>3, <1>8 DEF IInv, CallInv, browser, In, Refreshing
  <2>2. SecretInv(c)'
    BY <1>1, <1>2, <1>8 DEF IInv, SecretInv, Brings, browser, network, In, Refreshing
  <2>3. RenewedInv(c)'
    <3> SUFFICES ASSUME Succeeds(c, calls[c].token) PROVE RenewedInv(c)'
      BY <1>1 DEF RenewedInv, Succeeds, In, browser
    <3> DEFINE t == calls[c].token
               r == [old |-> {t}, new |-> calls[c].new]
    <3>1. heir[t] = calls[c].tab /\ ((t \in used /\ calls[c].new \in valid) \/ r \in pending)
      BY <1>8 DEF IInv, RenewedInv
    <3>2. ~Held(calls[c].new)
      BY <1>8 DEF IInv, SecretInv, Brings, Succeeds
    <3>3. r = p => t \in p.old /\ calls[c].new = p.new
      OBVIOUS
    <3>4. (t \in used' /\ calls[c].new \in valid') \/ r \in pending'
      BY <1>1, <1>2, <3>1, <3>2, <3>3
    <3> QED
      BY <1>1, <3>1, <3>4 DEF RenewedInv, browser
  <2> QED  BY <2>1, <2>2, <2>3
<1> QED
  BY <1>4, <1>5, <1>6, <1>7, <1>8 DEF IInv

LEMMA CommitFailsStep ==
  ASSUME IInv, NEW p \in pending, CommitFails(p)
  PROVE  IInv'
<1>1. /\ UNCHANGED <<browser, network, valid, used>> /\ pending' = pending \ {p}
      /\ lost' = lost \cup {p.new}
  BY DEF CommitFails, tickets
<1>2. /\ p.old \subseteq valid /\ p.new \in Tokens /\ p.new \in Announced
      /\ p.old \cap (used \cup lost) = {} /\ p.new \notin valid \cup used \cup lost
      /\ Announced' = Announced \ {p.new}
      /\ \A t : Held(t)' <=> Held(t) /\ t \notin p.old
      /\ \A t \in p.old : Held(t)
  BY <1>1, EndFacts
<1>3. Known' = Known
  BY <1>1, <1>2 DEF Known
<1>4. heir' = [t \in Tokens |-> IF t \in p.old THEN None ELSE heir[t]]
  BY DEF CommitFails
<1>5. TypeOK'
  BY <1>1, <1>2, <1>4 DEF IInv, TypeOK, browser, network
<1>6. ServerInv' /\ PromiseInv'
  BY <1>1, <1>2, <1>3, <1>4 DEF IInv, TypeOK, ServerInv, PromiseInv, browser, network, In, Refreshing
<1>7. PendingInv'
  <2>1. \A q \in pending \ {p} : q.new # p.new
    BY DEF IInv, PendingInv
  <2> QED
    BY <1>1, <2>1 DEF IInv, PendingInv
<1>8. ASSUME NEW c \in Calls, Succeeds(c, calls[c].token)
      PROVE  \/ calls[c].token \in p.old /\ calls[c].new = p.new
             \/ calls[c].token \notin p.old /\ calls[c].new # p.new
  <2> DEFINE t == calls[c].token
             r == [old |-> {t}, new |-> calls[c].new]
  <2>1. (t \in used /\ calls[c].new \in valid) \/ r \in pending
    BY <1>8 DEF IInv, RenewedInv
  <2>2. CASE r \in pending
    <3>1. r.old = {t} /\ r.new = calls[c].new
      OBVIOUS
    <3> HIDE DEF r
    <3>2. r.new = p.new \/ r.old \cap p.old # {} => r = p
      BY <2>2 DEF IInv, PendingInv
    <3> QED  BY <3>1, <3>2
  <2> QED  BY <1>2, <2>1, <2>2
<1>9. ASSUME NEW c \in Calls, NEW t
      PROVE  Succeeds(c, t)' <=> Succeeds(c, t) /\ t \notin p.old
  BY <1>1, <1>8, <1>9 DEF Succeeds, In, browser
<1>10. StoredInv'
  <2>1. stored # None => heir'[stored] = IF stored \in p.old THEN None ELSE heir[stored]
    BY <1>4 DEF IInv, TypeOK
  <2>2. ~Held(None)
    BY PendingFacts
  <2>3. \A c \in Calls : Succeeds(c, stored)' <=> Succeeds(c, stored) /\ stored \notin p.old
    BY <1>1, <1>8 DEF Succeeds, In, browser
  <2>4. stored' = stored /\ logouts' = logouts
    BY <1>1 DEF browser, network
  <2>5. StoredTokenWorks'
    <3> SUFFICES ASSUME stored # None
                 PROVE  \/ stored \in valid' \cup Announced' \/ stored \in lost'
                        \/ heir'[stored] = "nobody" \/ \E c \in Calls : Succeeds(c, stored)'
      BY <2>4, Zenon DEF StoredTokenWorks
    <3>1. stored \in p.old => stored \in valid'
      BY <1>1, <1>2
    <3>2. stored \in valid \cup Announced \cup lost => stored \in valid' \cup Announced' \cup lost'
      BY <1>1, <1>2
    <3> QED
      BY <2>1, <2>3, <3>1, <3>2 DEF IInv, StoredInv, StoredTokenWorks
  <2>6. Held(stored) /\ stored \notin p.old =>
          heir'[stored] = "nobody" \/ \E c \in Calls : Succeeds(c, stored)'
    BY <2>1, <2>2, <2>3 DEF IInv, StoredInv
  <2>7. Held(stored)' => Held(stored) /\ stored \notin p.old
    BY <1>2, <2>4
  <2> QED
    BY <1>3, <2>4, <2>5, <2>6, <2>7 DEF IInv, StoredInv
<1>11. ASSUME NEW c \in Calls PROVE CallInv(c)' /\ RenewedInv(c)' /\ SecretInv(c)'
  <2>1. Refreshing(c) => calls[c].token \in Tokens /\ calls[c].tab \in Tabs
    BY <1>11, PendingFacts DEF IInv, TypeOK, CallInv, Known, In, Refreshing
  <2>2. CallInv(c)'
    BY <1>1, <1>3, <1>4, <1>11, <2>1, DistinctIdentities DEF IInv, CallInv, browser, In, Refreshing
  <2>3. SecretInv(c)'
    BY <1>1, <1>2, <1>11 DEF IInv, SecretInv, Brings, browser, network, In, Refreshing
  <2>4. RenewedInv(c)'
    <3> SUFFICES ASSUME Succeeds(c, calls[c].token)' PROVE RenewedInv(c)'
      BY DEF RenewedInv
    <3> DEFINE t == calls[c].token
               r == [old |-> {t}, new |-> calls[c].new]
    <3>1. Succeeds(c, t) /\ t \notin p.old /\ Refreshing(c)
      BY <1>1, <1>9 DEF browser, Succeeds, In, Refreshing
    <3>2. heir[t] = calls[c].tab /\ ((t \in used /\ calls[c].new \in valid) \/ r \in pending)
      BY <1>11, <3>1 DEF IInv, RenewedInv
    <3>3. r.old = {t}
      OBVIOUS
    <3>4. (t \in used' /\ calls[c].new \in valid') \/ r \in pending'
      BY <1>1, <3>1, <3>2, <3>3
    <3>5. heir'[t] = heir[t]
      BY <1>4, <2>1, <3>1
    <3> QED
      BY <1>1, <3>2, <3>4, <3>5 DEF RenewedInv, browser
  <2> QED  BY <2>2, <2>3, <2>4
<1> QED
  BY <1>5, <1>6, <1>7, <1>10, <1>11 DEF IInv

LEMMA ServeLogoutStep ==
  ASSUME IInv, NEW t \in Tokens, ServeLogout(t)
  PROVE  IInv'
<1>1. /\ UNCHANGED <<browser, abandoned, pending, lost, heir>>
      /\ t \in logouts /\ logouts' = logouts \ {t}
  BY DEF ServeLogout
<1>2. /\ valid \ {t} \subseteq valid' /\ valid' \subseteq valid /\ used \subseteq used'
      /\ used' \subseteq used \cup (valid \cap {t}) /\ valid' \cup used' = valid \cup used
      /\ valid' \cap used' = {} /\ (Held(t) => UNCHANGED tickets)
  BY DEF ServeLogout, Rotate, tickets, IInv, ServerInv
<1>3. Announced' = Announced /\ Known' = Known /\ \A s : Held(s)' <=> Held(s)
  BY <1>1, <1>2 DEF Announced, Known, Held
<1>4. TypeOK'
  BY <1>1, <1>2 DEF IInv, TypeOK, browser
<1>5. ServerInv' /\ PromiseInv'
  BY <1>1, <1>2, <1>3 DEF IInv, ServerInv, PromiseInv, browser, In, Refreshing
<1>6. PendingInv'
  <2>1. \A p \in pending : t \in p.old => UNCHANGED tickets
    BY <1>2 DEF Held
  <2>2. \A p \in pending : p.old \subseteq valid' /\ p.new \notin valid' \cup used' \cup lost'
    BY <1>1, <1>2, <2>1 DEF IInv, PendingInv, tickets
  <2> QED
    BY <1>1, <2>2 DEF IInv, PendingInv
<1>7. StoredInv'
  <2>1. \A c \in Calls : Succeeds(c, stored)' <=> Succeeds(c, stored)
    BY <1>1 DEF Succeeds, In, browser
  <2> QED
    BY <1>1, <1>2, <1>3, <2>1 DEF IInv, StoredInv, StoredTokenWorks, browser
<1>8. ASSUME NEW c \in Calls PROVE CallInv(c)' /\ RenewedInv(c)' /\ SecretInv(c)'
  <2>1. CallInv(c)'
    BY <1>1, <1>2, <1>3, <1>8 DEF IInv, CallInv, browser, In, Refreshing
  <2>2. SecretInv(c)'
    BY <1>1, <1>2, <1>3, <1>8 DEF IInv, SecretInv, Brings, browser, In, Refreshing
  <2>3. In(c, "renewed") => calls[c].new # t
    BY <1>1, <1>8 DEF IInv, SecretInv, Brings
  <2>4. RenewedInv(c)'
    BY <1>1, <1>2, <1>8, <2>3 DEF IInv, RenewedInv, Succeeds, browser, In
  <2> QED  BY <2>1, <2>2, <2>4
<1> QED
  BY <1>4, <1>5, <1>6, <1>7, <1>8 DEF IInv

LEMMA ServeAbandonedStep ==
  ASSUME IInv, NEW t \in Tokens, ServeAbandoned(t)
  PROVE  IInv'
<1>1. /\ UNCHANGED <<browser, logouts, pending, lost>>
      /\ t \in abandoned /\ abandoned' = abandoned \ {t}
  BY DEF ServeAbandoned
<1>2. CASE UNCHANGED <<tickets, heir>>
  <2>0. SameServer /\ PendingInv'
    BY <1>1, <1>2, ServerFrame DEF IInv, server
  <2>1. TypeOK' /\ ServerInv' /\ StoredInv' /\ PromiseInv'
    BY <1>1, <1>2, <2>0 DEF IInv, TypeOK, ServerInv, StoredInv, StoredTokenWorks, PromiseInv, browser,
                      SameServer, In, Refreshing, Succeeds
  <2>2. ASSUME NEW c \in Calls PROVE CallInv(c)' /\ RenewedInv(c)' /\ SecretInv(c)'
    BY <1>1, <1>2, <2>0, <2>2 DEF IInv, CallInv, RenewedInv, SecretInv, Brings, browser, SameServer,
                      In, Refreshing, Succeeds
  <2> QED  BY <2>0, <2>1, <2>2 DEF IInv
<1>3. ASSUME NEW n \in Tokens, t \in valid, ~Held(t), Fresh(n), n[1] = t[1], Rotate({t}, {n}),
             heir' = [heir EXCEPT ![t] = "nobody"]
      PROVE  IInv'
  <2>1. /\ n \notin Known /\ t # n
        /\ valid' = (valid \ {t}) \cup {n} /\ used' = used \cup {t}
    BY <1>3 DEF Rotate, Fresh, Known
  <2>2. /\ heir[t] = None /\ heir'[t] = "nobody" /\ \A s \in Tokens \ {t} : heir'[s] = heir[s]
        /\ t \notin used \cup lost
    BY <1>3, <2>1 DEF IInv, TypeOK, ServerInv
  <2>3. Announced' = Announced /\ Known' = Known \cup {n} /\ \A s : Held(s)' <=> Held(s)
    BY <1>1, <1>3, <2>1 DEF Announced, Known, Held
  <2>4. TypeOK'
    BY <1>1, <1>3, <2>1 DEF IInv, TypeOK, browser
  <2>5. ServerInv' /\ PromiseInv'
    BY <1>1, <2>1, <2>2, <2>3 DEF IInv, ServerInv, PromiseInv, browser, Known, In, Refreshing
  <2>6. PendingInv'
    <3>1. \A p \in pending : t \notin p.old /\ p.new # t /\ p.new # n
      BY <1>3, <2>1 DEF Held, Known, Announced, IInv, PendingInv
    <3>2. \A p \in pending : p.old \subseteq valid' /\ p.new \notin valid' \cup used' \cup lost'
      BY <1>1, <2>1, <3>1 DEF IInv, PendingInv
    <3> QED
      BY <1>1, <3>2 DEF IInv, PendingInv
  <2>7. StoredInv'
    <3>1. \A c \in Calls : Succeeds(c, stored)' <=> Succeeds(c, stored)
      BY <1>1 DEF Succeeds, In, browser
    <3>2. stored # None => heir'[stored] = IF stored = t THEN "nobody" ELSE heir[stored]
      BY <2>2 DEF IInv, TypeOK
    <3>3. ~Held(None)
      BY PendingFacts
    <3> QED
      BY <1>1, <2>1, <2>3, <3>1, <3>2, <3>3 DEF IInv, StoredInv, StoredTokenWorks, browser
  <2>8. ASSUME NEW c \in Calls PROVE CallInv(c)' /\ RenewedInv(c)' /\ SecretInv(c)'
    <3>1. /\ calls'[c] = calls[c] /\ CallInv(c) /\ RenewedInv(c)
          /\ Refreshing(c) => calls[c].token \in Tokens /\ calls[c].tab \in Tabs
      BY <1>1, <2>8, PendingFacts DEF IInv, TypeOK, CallInv, Known, browser, In, Refreshing
    <3>2. Succeeds(c, calls[c].token) => calls[c].token # t
      BY <2>2, <3>1, DistinctIdentities DEF RenewedInv, Succeeds, In, Refreshing
    <3>3. CallInv(c)'
      BY <1>1, <2>1, <2>2, <2>3, <3>1, DistinctIdentities DEF CallInv, browser, In, Refreshing
    <3>4. In(c, "renewed") => calls[c].new # t
      BY <1>1, <2>8 DEF IInv, SecretInv, Brings
    <3>5. RenewedInv(c)'
      BY <1>1, <2>1, <2>2, <3>1, <3>2, <3>4 DEF RenewedInv, Succeeds, In, Refreshing
    <3>6. SecretInv(c)'
      BY <1>1, <2>1, <2>3, <2>8 DEF IInv, SecretInv, Brings, browser, In, Refreshing
    <3> QED  BY <3>3, <3>5, <3>6
  <2> QED  BY <2>4, <2>5, <2>6, <2>7, <2>8 DEF IInv
<1> QED
  BY <1>2, <1>3, Zenon DEF ServeAbandoned


-----------------------------------------------------------------------------
(* What a tab does with an answer *)

LEMMA DoneStep ==
  ASSUME IInv, NEW c \in Calls, Done(c)
  PROVE  IInv'
<1> DEFINE x == calls[c].tab
           t == calls[c].new
<1>0. SameServer /\ PendingInv'
  BY ServerFrame DEF IInv, Done
<1>1. calls[c] \in CallType /\ In(c, "done") /\ ~Refreshing(c) /\ x \in Tabs
  BY DEF IInv, TypeOK, CallInv, Done, In, Refreshing, RenewedInv, Succeeds
<1>2. UNCHANGED <<refreshPromise, network, server, heir>>
  BY DEF Done
<1>3. CASE calls[c].kind = "login"
  <2> DEFINE call == Fetch("sync", x, t, FALSE)
  <2>1. /\ t \in valid \cup lost \cup Announced /\ ~Held(t) /\ t \in Known /\ t \in Tokens
        /\ t \notin logouts
        /\ \A d \in Calls : (Refreshing(d) => calls[d].token # t) /\ (d # c /\ Brings(d) => calls[d].new # t)
    BY <1>1, <1>3, PendingFacts DEF IInv, SecretInv, Brings, Known
  <2>2. call \in CallType /\ call.state = "sent" /\ call.tab = x
    BY <1>1, <2>1, FetchFacts
  <2>3. calls' = [calls EXCEPT ![c] = call] /\ stored' = t /\ view' = view
    BY <1>1, <1>3 DEF Done, Put
  <2> HIDE DEF call
  <2>4. /\ calls' \in [Calls -> CallType] /\ calls'[c] = call
        /\ \A d \in Calls \ {c} : calls'[d] = calls[d]
    BY <2>2, <2>3 DEF IInv, TypeOK
  <2>5. TypeOK' /\ ServerInv' /\ PromiseInv'
    BY <1>1, <1>2, <2>1, <2>2, <2>3, <2>4, <1>0 DEF IInv, TypeOK, ServerInv, PromiseInv,
         network, In, Refreshing, SameServer
  <2>6. StoredInv'
    BY <1>0, <1>2, <2>1, <2>3 DEF StoredInv, StoredTokenWorks, network, Succeeds, SameServer
  <2>7. ASSUME NEW d \in Calls PROVE CallInv(d)' /\ RenewedInv(d)'
    BY <1>1, <1>2, <2>2, <2>4, <2>7, <1>0 DEF IInv, CallInv, In, Refreshing, RenewedInv,
         Succeeds, SameServer
  <2>8. ASSUME NEW d \in Calls PROVE SecretInv(d)'
    BY <1>1, <1>2, <2>1, <2>2, <2>3, <2>4, <2>8, <1>0 DEF IInv, SecretInv, Brings, network, In,
         Refreshing, SameServer
  <2> QED  BY <1>0, <2>5, <2>6, <2>7, <2>8 DEF IInv
<1>4. CASE calls[c].kind # "login"
  <2>1. /\ calls' = [calls EXCEPT ![c] = Idle] /\ stored' = stored
        /\ view' \in [Tabs -> {"login", "app"}]
    BY <1>1, <1>4 DEF Done, End, IInv, TypeOK
  <2>2. /\ calls' \in [Calls -> CallType] /\ calls'[c].state = "idle"
        /\ \A d \in Calls \ {c} : calls'[d] = calls[d]
    BY <2>1, IdleFacts DEF IInv, TypeOK
  <2>3. TypeOK' /\ ServerInv' /\ StoredInv' /\ PromiseInv'
    BY <1>1, <1>2, <2>1, <2>2, <1>0 DEF IInv, TypeOK, ServerInv, StoredInv, StoredTokenWorks,
         PromiseInv, network, In, Refreshing, Succeeds, SameServer
  <2>4. ASSUME NEW d \in Calls PROVE CallInv(d)' /\ RenewedInv(d)' /\ SecretInv(d)'
    BY <1>1, <1>2, <2>1, <2>2, <2>4, <1>0 DEF IInv, CallInv, SecretInv, Brings, network, In,
         Refreshing, RenewedInv, Succeeds, SameServer
  <2> QED  BY <1>0, <2>3, <2>4 DEF IInv
<1> QED
  BY <1>3, <1>4

\* The token that a tab without a refresh finds stored was not exchanged for it.
LEMMA DeniedStep ==
  ASSUME IInv, NEW c \in Calls, Denied(c)
  PROVE  IInv'
<1> DEFINE x == calls[c].tab
<1>0. SameServer /\ PendingInv'
  BY ServerFrame DEF IInv, Denied
<1>1. calls[c] \in CallType /\ In(c, "denied") /\ ~Refreshing(c) /\ x \in Tabs
  BY DEF IInv, TypeOK, CallInv, Denied, In, Refreshing, RenewedInv, Succeeds
<1>2. UNCHANGED <<network, server, heir>>
  BY DEF Denied
<1>3. CASE refreshPromise[x] # None /\ Become(c, "waiting") /\ UNCHANGED <<stored, view, refreshPromise>>
  <2>1. /\ calls' \in [Calls -> CallType] /\ calls'[c].state = "waiting" /\ calls'[c].tab = x
        /\ \A d \in Calls \ {c} : calls'[d] = calls[d]
    BY <1>1, <1>3 DEF IInv, TypeOK, Become, CallType, States
  <2>2. TypeOK' /\ ServerInv' /\ StoredInv' /\ PromiseInv'
    BY <1>1, <1>2, <1>3, <2>1, <1>0 DEF IInv, TypeOK, ServerInv, StoredInv, StoredTokenWorks,
         PromiseInv, network, In, Refreshing, Succeeds, SameServer
  <2>3. ASSUME NEW d \in Calls PROVE CallInv(d)' /\ RenewedInv(d)' /\ SecretInv(d)'
    BY <1>1, <1>2, <1>3, <2>1, <2>3, <1>0 DEF IInv, CallInv, SecretInv, Brings, network, In,
         Refreshing, RenewedInv, Succeeds, SameServer
  <2> QED  BY <1>0, <2>2, <2>3 DEF IInv
<1>4. CASE /\ refreshPromise[x] = None /\ stored # None
           /\ Put(c, [calls[c] EXCEPT !.state = "refresh", !.token = stored])
           /\ refreshPromise' = [refreshPromise EXCEPT ![x] = c]
           /\ UNCHANGED <<stored, view>>
  <2> DEFINE call == [calls[c] EXCEPT !.state = "refresh", !.token = stored]
  <2>1. call \in CallType /\ call.state = "refresh" /\ call.tab = x /\ call.token = stored
    BY <1>1 DEF CallType, States, IInv, TypeOK
  <2>2. calls' = [calls EXCEPT ![c] = call]
    BY <1>4 DEF Put
  <2> HIDE DEF call
  <2>3. /\ calls' \in [Calls -> CallType] /\ calls'[c] = call
        /\ \A d \in Calls \ {c} : calls'[d] = calls[d]
    BY <2>1, <2>2 DEF IInv, TypeOK
  <2>4. stored \in Known /\ stored \in Tokens
    BY <1>4 DEF IInv, StoredInv, TypeOK
  <2>5. heir[stored] # x
    <3>1. CASE heir[stored] = None \/ heir[stored] = "nobody"
      BY <1>1, <3>1, DistinctIdentities
    <3>2. CASE stored \in used \/ Held(stored)
      <4>1. heir[stored] = "nobody" \/ \E d \in Calls : Succeeds(d, stored)
        BY <1>4, <3>2, PendingFacts DEF IInv, ServerInv, StoredInv, StoredTokenWorks
      <4>2. ASSUME NEW d \in Calls, Succeeds(d, stored) PROVE heir[stored] # x
        <5>1. heir[stored] = calls[d].tab /\ refreshPromise[calls[d].tab] = d
          BY <4>2 DEF IInv, CallInv, RenewedInv, Succeeds, In, Refreshing
        <5> QED  BY <1>4, <5>1, DistinctIdentities
      <4> QED  BY <3>1, <4>1, <4>2
    <3> QED  BY <2>4, <3>1, <3>2 DEF IInv, ServerInv
  <2>6. \A y \in Tabs : refreshPromise'[y] = IF y = x THEN c ELSE refreshPromise[y]
    BY <1>1, <1>4 DEF IInv, TypeOK
  <2>7. TypeOK' /\ ServerInv' /\ StoredInv'
    BY <1>1, <1>2, <1>4, <2>1, <2>3, <1>0 DEF IInv, TypeOK, ServerInv, StoredInv,
         StoredTokenWorks, network, In, Succeeds, SameServer
  <2>8. PromiseInv'
    <3>1. \A d \in Calls : In(d, "waiting") => calls[d].tab \in Tabs
      BY DEF IInv, CallInv, In
    <3> QED
      BY <1>1, <2>1, <2>3, <2>6, <3>1, DistinctIdentities DEF IInv, TypeOK, PromiseInv, In,
         Refreshing
  <2>9. ASSUME NEW d \in Calls PROVE CallInv(d)' /\ RenewedInv(d)'
    <3>1. CASE d = c
      BY <1>1, <1>2, <2>1, <2>3, <2>4, <2>5, <2>6, <3>1, <1>0 DEF CallInv, In, Refreshing,
         RenewedInv, Succeeds, SameServer
    <3>2. CASE d # c
      BY <1>1, <1>2, <1>4, <2>3, <2>6, <2>9, <3>2, DistinctIdentities, <1>0 DEF IInv, CallInv,
         In, Refreshing, RenewedInv, Succeeds, SameServer
    <3> QED  BY <3>1, <3>2
  <2>10. ASSUME NEW d \in Calls PROVE SecretInv(d)'
    BY <1>1, <1>2, <1>4, <2>1, <2>3, <2>10, <1>0 DEF IInv, SecretInv, Brings, network, In,
         Refreshing, SameServer
  <2> QED  BY <1>0, <2>7, <2>8, <2>9, <2>10 DEF IInv
<1>5. CASE End({c}) /\ SignedOut(x) /\ UNCHANGED refreshPromise
  <2>1. /\ calls' \in [Calls -> CallType] /\ calls'[c].state = "idle"
        /\ \A d \in Calls \ {c} : calls'[d] = calls[d]
    BY <1>5, IdleFacts DEF IInv, TypeOK, End
  <2>2. stored' = None /\ view' \in [Tabs -> {"login", "app"}]
    BY <1>5 DEF SignedOut, IInv, TypeOK
  <2>3. TypeOK' /\ ServerInv' /\ PromiseInv'
    BY <1>1, <1>2, <1>5, <2>1, <2>2, <1>0 DEF IInv, TypeOK, ServerInv, PromiseInv, network, In,
         Refreshing, SameServer
  <2>4. StoredInv'
    BY <1>0, <1>2, <2>2, DistinctIdentities, PendingFacts DEF IInv, TypeOK, StoredInv, StoredTokenWorks,
         network, SameServer
  <2>5. ASSUME NEW d \in Calls PROVE CallInv(d)' /\ RenewedInv(d)' /\ SecretInv(d)'
    <3>1. CallInv(d)' /\ RenewedInv(d)'
      BY <1>0, <1>1, <1>2, <1>5, <2>1, <2>5 DEF IInv, CallInv, RenewedInv, Succeeds, In, Refreshing,
           SameServer
    <3>2. SecretInv(d)'
      BY <1>0, <1>1, <1>2, <2>1, <2>2, <2>5, PendingFacts DEF IInv, SecretInv, Brings, Known, network, In,
           Refreshing, SameServer
    <3> QED  BY <3>1, <3>2
  <2> QED  BY <1>0, <2>3, <2>4, <2>5 DEF IInv
<1> QED
  BY <1>3, <1>4, <1>5 DEF Denied


\* The calls of S end or start again, with all those that await a refresh in S.
LEMMA SettledCalls ==
  ASSUME IInv, NEW S \in SUBSET Calls, NotRefreshing(S),
         calls' \in [Calls -> CallType],
         \A d \in S : calls'[d].state \in {"idle", "sent"},
         \A d \in Calls \ S : calls'[d] = calls[d],
         \A c \in S, d \in Calls :
           Refreshing(c) /\ In(d, "waiting") /\ calls[d].tab = calls[c].tab => d \in S
  PROVE  /\ refreshPromise' \in [Tabs -> Calls \cup {None}]
         /\ PromiseInv'
         /\ \A d \in Calls : Refreshing(d)' =>
              d \notin S /\ calls'[d] = calls[d] /\ Refreshing(d) /\ refreshPromise'[calls[d].tab] = d
         /\ \A d \in Calls : Brings(d)' => d \notin S /\ calls'[d] = calls[d] /\ Brings(d)
<1>1. \A x \in Tabs : refreshPromise'[x] = IF refreshPromise[x] \in S THEN None ELSE refreshPromise[x]
  BY DEF NotRefreshing
<1>2. refreshPromise' \in [Tabs -> Calls \cup {None}]
  BY DEF IInv, TypeOK, NotRefreshing
<1>3. ASSUME NEW d \in Calls, Refreshing(d)'
      PROVE  d \notin S /\ calls'[d] = calls[d] /\ Refreshing(d) /\ refreshPromise'[calls[d].tab] = d
  <2>1. d \notin S /\ calls'[d] = calls[d] /\ Refreshing(d)
    BY <1>3 DEF Refreshing
  <2>2. refreshPromise[calls[d].tab] = d /\ calls[d].tab \in Tabs
    BY <2>1 DEF IInv, CallInv, In, Refreshing, RenewedInv, Succeeds
  <2> QED  BY <1>1, <2>1, <2>2
<1>4. ASSUME NEW d \in Calls, Brings(d)' PROVE d \notin S /\ calls'[d] = calls[d] /\ Brings(d)
  BY <1>4 DEF Brings, In
<1>5. ASSUME NEW x \in Tabs, refreshPromise'[x] # None
      PROVE  Refreshing(refreshPromise[x])' /\ calls'[refreshPromise'[x]].tab = x
  <2>1. refreshPromise'[x] = refreshPromise[x] /\ refreshPromise[x] \in Calls \ S
    BY <1>1, <1>5 DEF IInv, TypeOK
  <2>2. Refreshing(refreshPromise[x]) /\ calls[refreshPromise[x]].tab = x
    BY <1>5, <2>1 DEF IInv, PromiseInv
  <2>3. calls'[refreshPromise'[x]] = calls[refreshPromise[x]]
    BY <2>1
  <2> QED  BY <2>2, <2>3 DEF Refreshing
<1>6. ASSUME NEW d \in Calls, In(d, "waiting")' PROVE refreshPromise'[calls'[d].tab] # None
  <2>1. d \notin S /\ calls'[d] = calls[d] /\ In(d, "waiting")
    BY <1>6 DEF In
  <2>2. calls[d].tab \in Tabs /\ refreshPromise[calls[d].tab] # None
    BY <2>1 DEF IInv, CallInv, PromiseInv, In
  <2>3. refreshPromise[calls[d].tab] \notin S
    BY <2>1, <2>2 DEF IInv, PromiseInv
  <2> QED  BY <1>1, <2>1, <2>2, <2>3
<1>7. PromiseInv'
  BY <1>5, <1>6 DEF PromiseInv
<1> QED
  BY <1>2, <1>3, <1>4, <1>7


\* Whoever waits for c starts again or ends with it.
LEMMA PartyFacts ==
  ASSUME IInv, NEW c \in Calls, Refreshing(c)
  PROVE  /\ Party(c) \in SUBSET Calls /\ c \in Party(c)
         /\ calls[c].tab \in Tabs
         /\ \A b \in Party(c) : calls[b].tab = calls[c].tab /\ (b = c \/ In(b, "waiting"))
         /\ \A b \in Party(c), d \in Calls :
              Refreshing(b) /\ In(d, "waiting") /\ calls[d].tab = calls[b].tab => d \in Party(c)
BY DEF IInv, CallInv, Party, In, Refreshing

LEMMA OnlyTheRefresh ==
  ASSUME IInv, NEW c \in Calls, Refreshing(c), NotRefreshing({c})
  PROVE  NotRefreshing(Party(c))
<1>1. ASSUME NEW x \in Tabs PROVE refreshPromise[x] \in Party(c) <=> refreshPromise[x] \in {c}
  <2>1. refreshPromise[x] \in Calls => Refreshing(refreshPromise[x])
    BY <1>1, DistinctIdentities DEF IInv, PromiseInv
  <2> QED
    BY <2>1, PartyFacts DEF In, Refreshing
<1> QED
  BY <1>1 DEF NotRefreshing

LEMMA RenewedStep ==
  ASSUME IInv, NEW c \in Calls, Renewed(c)
  PROVE  IInv'
<1> DEFINE S == Party(c)
           t == calls[c].new
<1>0. SameServer /\ PendingInv'
  BY ServerFrame DEF IInv, Renewed
<1>1. /\ In(c, "renewed") /\ Refreshing(c) /\ Brings(c)
      /\ t \in valid \cup lost \cup Announced /\ ~Held(t) /\ t \in Known /\ t \in Tokens /\ t \notin logouts
      /\ \A d \in Calls : (Refreshing(d) => calls[d].token # t) /\ (d # c /\ Brings(d) => calls[d].new # t)
  BY PendingFacts DEF IInv, SecretInv, Brings, Known, Renewed, In, Refreshing
<1>2. UNCHANGED <<view, network, server, heir>> /\ stored' = t /\ NotRefreshing({c})
  BY DEF Renewed
<1>3. \A d \in Calls : calls'[d] = IF d \in S THEN Again(calls[d], t) ELSE calls[d]
  BY DEF Renewed
<1>4. ASSUME NEW d \in S PROVE Again(calls[d], t) \in CallType /\ Again(calls[d], t).state = "sent"
                               /\ Again(calls[d], t).tab = calls[c].tab
  <2>1. calls[d].tab \in Tabs /\ calls[d].tab = calls[c].tab /\ d \in Calls
    BY <1>1, <1>4, PartyFacts
  <2>2. calls[d].kind \in {"page", "login", "sync", None}
    BY <2>1 DEF IInv, TypeOK, CallType
  <2> QED
    BY <1>1, <2>1, <2>2 DEF Again, Fetch, CallType, States
<1>5. calls' \in [Calls -> CallType]
  BY <1>3, <1>4 DEF Renewed, IInv, TypeOK
<1> HIDE DEF S
<1>6. /\ S \in SUBSET Calls /\ c \in S /\ calls[c].tab \in Tabs /\ NotRefreshing(S)
      /\ \A d \in S : calls'[d].state \in {"idle", "sent"} /\ calls'[d].tab = calls[c].tab
      /\ \A d \in Calls \ S : calls'[d] = calls[d]
      /\ \A b \in S, d \in Calls : Refreshing(b) /\ In(d, "waiting") /\ calls[d].tab = calls[b].tab => d \in S
  BY <1>1, <1>2, <1>3, <1>4, PartyFacts, OnlyTheRefresh DEF S
<1>7. /\ refreshPromise' \in [Tabs -> Calls \cup {None}]
      /\ PromiseInv'
      /\ \A d \in Calls : Refreshing(d)' =>
           d \notin S /\ calls'[d] = calls[d] /\ Refreshing(d) /\ refreshPromise'[calls[d].tab] = d
      /\ \A d \in Calls : Brings(d)' => d \notin S /\ calls'[d] = calls[d] /\ Brings(d)
  BY <1>5, <1>6, SettledCalls
<1>8. TypeOK' /\ ServerInv'
  BY <1>1, <1>2, <1>5, <1>7, <1>0 DEF IInv, TypeOK, ServerInv, network, SameServer
<1>9. StoredInv'
  BY <1>1, <1>2, <1>0 DEF StoredInv, StoredTokenWorks, network, Succeeds, SameServer
<1>10. ASSUME NEW d \in Calls PROVE CallInv(d)' /\ RenewedInv(d)'
  BY <1>2, <1>6, <1>7, <1>10, <1>0 DEF IInv, CallInv, In, Refreshing, RenewedInv, Succeeds,
         SameServer
<1>11. ASSUME NEW d \in Calls PROVE SecretInv(d)'
  BY <1>1, <1>2, <1>6, <1>7, <1>11, <1>0 DEF IInv, SecretInv, network, SameServer
<1> QED
  BY <1>0, <1>7, <1>8, <1>9, <1>10, <1>11 DEF IInv

LEMMA RefusedStep ==
  ASSUME IInv, NEW c \in Calls, Refused(c)
  PROVE  IInv'
<1> DEFINE S == Party(c)
<1>0. SameServer /\ PendingInv'
  BY ServerFrame DEF IInv, Refused
<1>1. Refreshing(c) /\ NotRefreshing({c}) /\ UNCHANGED <<network, server, heir>>
  BY DEF Refused, In, Refreshing
<1>2. \A d \in Calls : calls'[d] = IF d \in S THEN Idle ELSE calls[d]
  BY DEF Refused, End
<1>3. calls' \in [Calls -> CallType]
  BY IdleFacts DEF Refused, End, IInv, TypeOK
<1>4. stored' = None /\ view' \in [Tabs -> {"login", "app"}]
  BY DEF Refused, SignedOut, IInv, TypeOK
<1> HIDE DEF S
<1>5. /\ S \in SUBSET Calls /\ NotRefreshing(S)
      /\ \A d \in S : calls'[d].state = "idle"
      /\ \A d \in Calls \ S : calls'[d] = calls[d]
      /\ \A b \in S, d \in Calls : Refreshing(b) /\ In(d, "waiting") /\ calls[d].tab = calls[b].tab => d \in S
  BY <1>1, <1>2, IdleFacts, PartyFacts, OnlyTheRefresh DEF S
<1>6. /\ refreshPromise' \in [Tabs -> Calls \cup {None}]
      /\ PromiseInv'
      /\ \A d \in Calls : Refreshing(d)' =>
           d \notin S /\ calls'[d] = calls[d] /\ Refreshing(d) /\ refreshPromise'[calls[d].tab] = d
      /\ \A d \in Calls : Brings(d)' => d \notin S /\ calls'[d] = calls[d] /\ Brings(d)
  BY <1>3, <1>5, SettledCalls
<1>7. TypeOK' /\ ServerInv'
  BY <1>1, <1>3, <1>4, <1>6, <1>0 DEF IInv, TypeOK, ServerInv, network, SameServer
<1>8. StoredInv'
  BY <1>0, <1>1, <1>4, DistinctIdentities, PendingFacts DEF IInv, TypeOK, StoredInv, StoredTokenWorks,
         network, SameServer
<1>9. ASSUME NEW d \in Calls PROVE CallInv(d)' /\ RenewedInv(d)'
  BY <1>1, <1>5, <1>6, <1>9, <1>0 DEF IInv, CallInv, In, Refreshing, RenewedInv, Succeeds,
         SameServer
<1>10. ASSUME NEW d \in Calls PROVE SecretInv(d)'
  BY <1>0, <1>1, <1>4, <1>6, <1>10, PendingFacts DEF IInv, SecretInv, Known, network, SameServer
<1> QED
  BY <1>0, <1>6, <1>7, <1>8, <1>9, <1>10 DEF IInv

\* A refresh that was answered without being heard leaves its token to nobody.
LEMMA DropStep ==
  ASSUME IInv, NEW S \in SUBSET Calls, Drop(S), stored' = stored,
         view' \in [Tabs -> {"login", "app"}],
         \A c \in S, d \in Calls :
           Refreshing(c) /\ In(d, "waiting") /\ calls[d].tab = calls[c].tab => d \in S
  PROVE  IInv'
<1> DEFINE Unheard(t) == \E c \in S : Succeeds(c, t)
<1>0. SameServer /\ PendingInv'
  BY ServerFrame DEF IInv, Drop
<1>1. /\ \A d \in Calls : calls'[d] = IF d \in S THEN Idle ELSE calls[d]
      /\ calls' \in [Calls -> CallType] /\ NotRefreshing(S)
  BY IdleFacts DEF Drop, End, IInv, TypeOK
<1>2. UNCHANGED <<logouts, server>>
  BY DEF Drop
<1>3. /\ heir' \in [Tokens -> Tabs \cup {None, "nobody"}]
      /\ \A t \in Tokens : heir'[t] = IF Unheard(t) THEN "nobody" ELSE heir[t]
  BY DEF Drop, IInv, TypeOK
<1>4. /\ abandoned \subseteq abandoned'
      /\ \A t \in abandoned' \ abandoned : \E c \in S : Refreshing(c) /\ calls[c].token = t
  BY DEF Drop, In, Refreshing
<1>5. \A d \in Calls : Refreshing(d) => calls[d].token \in Tokens /\ calls[d].token \in Known
  BY PendingFacts DEF IInv, CallInv
<1>6. /\ refreshPromise' \in [Tabs -> Calls \cup {None}]
      /\ PromiseInv'
      /\ \A d \in Calls : Refreshing(d)' =>
           d \notin S /\ calls'[d] = calls[d] /\ Refreshing(d) /\ refreshPromise'[calls[d].tab] = d
      /\ \A d \in Calls : Brings(d)' => d \notin S /\ calls'[d] = calls[d] /\ Brings(d)
  BY <1>1, IdleFacts, SettledCalls
<1>7. TypeOK'
  BY <1>1, <1>2, <1>3, <1>4, <1>5, <1>6, <1>0 DEF IInv, TypeOK, SameServer
<1>8. ServerInv'
  <2>1. ASSUME NEW t \in Tokens, Unheard(t) PROVE t \in used \/ Held(t)
    <3>1. PICK c \in S : Succeeds(c, t)
      BY <2>1
    <3>2. t \in used \/ [old |-> {t}, new |-> calls[c].new] \in pending
      BY <3>1 DEF IInv, RenewedInv, Succeeds
    <3> QED  BY <3>2 DEF Held
  <2> QED
    BY <1>2, <1>3, <1>4, <1>5, <2>1, <1>0 DEF IInv, ServerInv, SameServer
<1>9. StoredInv'
  <2>1. ASSUME stored # None, NEW c \in Calls, Succeeds(c, stored)
        PROVE  heir'[stored] = "nobody" \/ Succeeds(c, stored)'
    <3>1. CASE c \in S
      BY <1>3, <2>1, <3>1 DEF IInv, TypeOK
    <3>2. CASE c \notin S
      BY <1>0, <1>1, <2>1, <3>2 DEF Succeeds, In, SameServer
    <3> QED  BY <3>1, <3>2
  <2>2. stored # None /\ heir[stored] = "nobody" => heir'[stored] = "nobody"
    BY <1>3 DEF IInv, TypeOK
  <2> QED
    BY <1>0, <1>2, <2>1, <2>2, PendingFacts DEF IInv, StoredInv, StoredTokenWorks, SameServer
<1>10. ASSUME NEW d \in Calls PROVE CallInv(d)' /\ RenewedInv(d)'
  <2>1. CASE d \in S
    BY <1>1, <1>6, <2>1, IdleFacts DEF CallInv, In, Refreshing, RenewedInv, Succeeds
  <2>2. CASE d \notin S
    <3>1. calls'[d] = calls[d] /\ CallInv(d) /\ (Refreshing(d) => refreshPromise'[calls[d].tab] = d)
      BY <1>1, <1>6, <1>10, <2>2 DEF IInv, Refreshing
    <3>2. Succeeds(d, calls[d].token) => ~Unheard(calls[d].token)
      <4>1. ASSUME NEW e \in S, Succeeds(e, calls[d].token), Succeeds(d, calls[d].token) PROVE FALSE
        <5>1. calls[e].tab = calls[d].tab
          BY <1>10, <4>1 DEF IInv, RenewedInv, Succeeds
        <5>2. e = d
          BY <1>10, <4>1, <5>1 DEF IInv, CallInv, Succeeds, In, Refreshing
        <5> QED  BY <2>2, <4>1, <5>2
      <4> QED  BY <4>1
    <3>3. Refreshing(d) => /\ heir'[calls[d].token] \in {heir[calls[d].token], "nobody"}
                           /\ calls[d].tab \in Tabs
      BY <1>3, <1>5, <3>1 DEF CallInv, In, Refreshing
    <3>4. CallInv(d)'
      BY <1>0, <3>1, <3>3, DistinctIdentities DEF CallInv, In, Refreshing, SameServer
    <3>5. RenewedInv(d)'
      <4> SUFFICES ASSUME Succeeds(d, calls[d].token) PROVE RenewedInv(d)'
        BY <1>0, <3>1 DEF RenewedInv, Succeeds, In, SameServer
      <4>1. heir'[calls[d].token] = heir[calls[d].token]
        BY <1>3, <1>5, <3>2 DEF Succeeds, In, Refreshing
      <4> QED
        BY <1>0, <1>10, <3>1, <4>1 DEF IInv, RenewedInv, SameServer
    <3> QED  BY <3>4, <3>5
  <2> QED  BY <2>1, <2>2
<1>11. ASSUME NEW d \in Calls PROVE SecretInv(d)'
  BY <1>2, <1>4, <1>6, <1>11, <1>0 DEF IInv, SecretInv, SameServer
<1> QED
  BY <1>0, <1>6, <1>7, <1>8, <1>9, <1>10, <1>11 DEF IInv

LEMMA LoseStep ==
  ASSUME IInv, NEW c \in Calls, Lose(c)
  PROVE  IInv'
<1>1. UNCHANGED <<stored, view>> /\ view \in [Tabs -> {"login", "app"}]
  BY DEF Lose, IInv, TypeOK
<1>2. calls[c].tab \in Tabs
  BY DEF Lose, IInv, CallInv
<1>3. CASE refreshPromise[calls[c].tab] = c
  <2>1. Refreshing(c) /\ Drop(Party(c))
    BY <1>2, <1>3, DistinctIdentities DEF Lose, IInv, PromiseInv
  <2> QED
    BY <1>1, <2>1, DropStep, PartyFacts
<1>4. CASE refreshPromise[calls[c].tab] # c
  <2>1. ~Refreshing(c) /\ Drop({c})
    BY <1>4 DEF Lose, IInv, CallInv
  <2> QED
    BY <1>1, <2>1, DropStep
<1> QED
  BY <1>3, <1>4

LEMMA ReloadStep ==
  ASSUME IInv, NEW x \in Tabs, Reload(x)
  PROVE  IInv'
<1> DEFINE S == {c \in Calls : calls[c].tab = x}
<1>1. Drop(S) /\ stored' = stored /\ view' \in [Tabs -> {"login", "app"}]
  BY DEF Reload, IInv, TypeOK
<1> QED
  BY <1>1, DropStep


-----------------------------------------------------------------------------
(* The theorems *)

LEMMA InitIInv ==
  ASSUME Init
  PROVE  IInv
<1>1. TypeOK
  BY IdleFacts DEF Init, TypeOK
<1>2. ServerInv /\ PendingInv /\ StoredInv /\ PromiseInv
  BY IdleFacts DEF Init, ServerInv, PendingInv, StoredInv, StoredTokenWorks, PromiseInv, Known,
         Announced, Held, In
<1>3. ASSUME NEW c \in Calls PROVE CallInv(c) /\ RenewedInv(c) /\ SecretInv(c)
  BY <1>3, IdleFacts DEF Init, CallInv, RenewedInv, Succeeds, SecretInv, Brings, In, Refreshing
<1> QED
  BY <1>1, <1>2, <1>3 DEF IInv

LEMMA NextIInv ==
  ASSUME IInv, [Next]_vars
  PROVE  IInv'
<1>1. CASE UNCHANGED vars
  <2>0. SameServer /\ PendingInv'
    BY <1>1, ServerFrame DEF vars, IInv
  <2>1. TypeOK' /\ ServerInv' /\ StoredInv' /\ PromiseInv'
    BY <1>1, <2>0 DEF IInv, TypeOK, ServerInv, StoredInv, StoredTokenWorks, PromiseInv, vars,
         browser, network, In, Refreshing, Succeeds, SameServer
  <2>2. ASSUME NEW c \in Calls PROVE CallInv(c)' /\ RenewedInv(c)' /\ SecretInv(c)'
    BY <1>1, <2>0, <2>2 DEF IInv, CallInv, SecretInv, Brings, vars, browser, network, In,
         Refreshing, RenewedInv, Succeeds, SameServer
  <2> QED  BY <2>0, <2>1, <2>2 DEF IInv
<1>2. ASSUME NEW c \in Calls, Serve(c) \/ ServeRefresh(c) \/ Answer(c) PROVE IInv'
  BY <1>2, ServeStep, RefreshStep, DoneStep, DeniedStep, RenewedStep, RefusedStep, LoseStep DEF
         Answer
<1>3. ASSUME NEW x \in Tabs, Route(x) \/ Logout(x) \/ Reload(x) PROVE IInv'
  BY <1>3, RouteStep, LogoutStep, ReloadStep
<1>4. ASSUME NEW x \in Tabs, NEW c \in Calls, Page(c, x) \/ SubmitLogin(c, x) PROVE IInv'
  BY <1>4, FetchStep
<1>5. ASSUME NEW t \in Tokens, ServeLogout(t) \/ ServeAbandoned(t) PROVE IInv'
  BY <1>5, ServeLogoutStep, ServeAbandonedStep
<1>6. ASSUME NEW p \in pending, Commit(p) \/ CommitFails(p) PROVE IInv'
  BY <1>6, CommitStep, CommitFailsStep
<1> QED
  BY <1>1, <1>2, <1>3, <1>4, <1>5, <1>6 DEF Next

\* What tabs have stored and what is on its way to them fits what the server has
\* committed, will commit or has lost: one refresh per tab, one exchange per token
\* at a time, and new tokens that nobody has seen before they arrive.
THEOREM InductiveInvariant == Spec => []IInv
<1>1. Init => IInv
  BY InitIInv
<1>2. IInv /\ [Next]_vars => IInv'
  BY NextIInv
<1> QED
  BY <1>1, <1>2, PTL DEF Spec

\* The stored session can be refreshed, now or after the commit it waits for, unless
\* that commit fails or its successor is on the way or lost.
THEOREM StoredTokenWorksHolds == Spec => []StoredTokenWorks
<1>1. IInv => StoredTokenWorks
  BY DEF IInv, StoredInv
<1> QED
  BY <1>1, InductiveInvariant, PTL

\* A tab whose refresh was answered is not refused for having refreshed.
THEOREM OwnRefreshNeverRefusedHolds == Spec => []OwnRefreshNeverRefused
<1>1. IInv => OwnRefreshNeverRefused
  BY DEF IInv, CallInv, OwnRefreshNeverRefused, In, Refreshing
<1> QED
  BY <1>1, InductiveInvariant, PTL

\* A call that waits, waits for a refresh of its tab that is in progress.
THEOREM NobodyWaitsInVainHolds == Spec => []NobodyWaitsInVain
<1>1. IInv => NobodyWaitsInVain
  <2> SUFFICES ASSUME IInv, NEW c \in Calls, In(c, "waiting")
               PROVE  LET d == refreshPromise[calls[c].tab] IN
                      d \in Calls /\ Refreshing(d) /\ calls[d].tab = calls[c].tab
    BY DEF NobodyWaitsInVain
  <2>1. calls[c].tab \in Tabs /\ refreshPromise[calls[c].tab] # None
    BY DEF IInv, CallInv, PromiseInv, In
  <2> QED
    BY <2>1 DEF IInv, TypeOK, PromiseInv
<1> QED
  BY <1>1, InductiveInvariant, PTL

\* No failure on the way, and no answer but those listed, costs a good session.
THEOREM KeepsGoodSessionHolds == Spec => KeepsGoodSession
<1> DEFINE Reason == stored \in logouts' \/ \E c \in Calls : Overtaken(c)
<1>1. IInv /\ [Next]_vars /\ ClearedGoodSession => Reason
  <2> SUFFICES ASSUME IInv, [Next]_vars, ClearedGoodSession
               PROVE  Reason
    OBVIOUS
  <2>1. stored # None /\ stored' = None /\ stored \notin used \cup lost
    BY DistinctIdentities, PendingFacts DEF ClearedGoodSession, IInv, TypeOK, ServerInv
  <2>2. ASSUME NEW c \in Calls, Denied(c) PROVE Overtaken(c)
    <3>1. calls[c].retried /\ End({c}) /\ In(c, "denied")
      BY <2>1, <2>2 DEF Denied
    <3> QED
      BY <3>1 DEF Overtaken, End
  <2>3. ASSUME NEW c \in Calls, Refused(c) PROVE Overtaken(c)
    <3>1. calls'[c] = Idle
      BY <2>3 DEF Refused, End, Party
    <3>2. In(c, "refused") => calls[c].token \in used \cup lost
      BY DEF IInv, CallInv
    <3> QED
      BY <2>1, <2>3, <3>1, <3>2 DEF Refused, Overtaken
  <2>4. ASSUME NEW c \in Calls, Done(c) PROVE FALSE
    <3>1. In(c, "done") /\ (calls[c].kind = "login" => calls[c].new # None)
      BY <2>4, DistinctIdentities, PendingFacts DEF Done, IInv, TypeOK, SecretInv, Brings
    <3> QED
      BY <2>1, <2>4, <3>1 DEF Done
  <2>5. ASSUME NEW c \in Calls, Renewed(c) PROVE FALSE
    <3>1. calls[c].new # None
      BY <2>5, DistinctIdentities, PendingFacts DEF Renewed, IInv, TypeOK, SecretInv, Brings
    <3> QED
      BY <2>1, <2>5, <3>1 DEF Renewed
  <2>6. ASSUME NEW x \in Tabs, Logout(x) PROVE stored \in logouts'
    BY <2>6 DEF Logout
  <2>7. ASSUME NEW c \in Calls, Serve(c) \/ ServeRefresh(c) \/ Lose(c) PROVE FALSE
    <3>1. stored' = stored
      BY <2>7, Zenon DEF Serve, ServeRefresh, Lose
    <3> QED
      BY <2>1, <3>1
  <2>8. ASSUME NEW x \in Tabs, Route(x) \/ Reload(x) PROVE FALSE
    BY <2>1, <2>8 DEF Route, Reload
  <2>9. ASSUME NEW c \in Calls, NEW x \in Tabs, Page(c, x) \/ SubmitLogin(c, x) PROVE FALSE
    BY <2>1, <2>9 DEF Page, SubmitLogin
  <2>10. ASSUME NEW t \in Tokens, ServeLogout(t) \/ ServeAbandoned(t) PROVE FALSE
    BY <2>1, <2>10 DEF ServeLogout, ServeAbandoned, browser
  <2>11. ASSUME NEW p \in pending, Commit(p) \/ CommitFails(p) PROVE FALSE
    BY <2>1, <2>11 DEF Commit, CommitFails, browser
  <2>12. CASE UNCHANGED vars
    BY <2>1, <2>12 DEF vars, browser
  <2> QED
    BY <2>2, <2>3, <2>4, <2>5, <2>6, <2>7, <2>8, <2>9, <2>10, <2>11, <2>12 DEF Next, Answer
<1>2. IInv /\ [Next]_vars => [ClearedGoodSession => Reason]_vars
  BY <1>1
<1> QED
  BY <1>2, InductiveInvariant, PTL DEF Spec, KeepsGoodSession

\* The rows take no step but those of Tickets, although every exchange is decided
\* before its answer and made after it: until then nobody else exchanges its token,
\* and nobody else is given its successor.
THEOREM MeetsTicketsHolds == Spec => MeetsTickets
<1>1. Init => Desk!Init
  BY DEF Init, Desk!Init
<1>2. IInv /\ [Next]_vars => [Desk!Next]_(Desk!desk)
  <2> SUFFICES ASSUME IInv, [Next]_vars, ~ UNCHANGED tickets PROVE Desk!Next
    BY DEF tickets, Desk!desk
  <2>1. ASSUME NEW p \in pending, Commit(p) PROVE Desk!Next
    <3>1. /\ p.old \subseteq valid /\ p.new \in Tokens /\ p.new \notin valid \cup used
          /\ p.old = {} \/ \E t \in Tokens : p.old = {t} /\ t[1] = p.new[1]
      BY DEF IInv, PendingInv, TypeOK, Transaction
    <3>2. valid' = (valid \ p.old) \cup {p.new} /\ used' = used \cup p.old
      BY <2>1 DEF Commit, Rotate
    <3>3. CASE p.old = {}
      <4>1. p.new[1] \in Users
        BY <3>1 DEF Tokens
      <4>2. Desk!SignIn(p.new)
        BY <3>1, <3>2, <3>3, <4>1 DEF Desk!SignIn, Desk!Unused
      <4> QED
        BY <3>1, <4>2 DEF Desk!Next, Desk!Tickets, Tokens
    <3>4. ASSUME NEW t \in Tokens, p.old = {t}, t[1] = p.new[1] PROVE Desk!Next
      <4>1. Desk!Exchange(t, p.new)
        BY <3>1, <3>2, <3>4 DEF Desk!Exchange, Desk!Unused
      <4> QED
        BY <3>1, <4>1 DEF Desk!Next, Desk!Tickets, Tokens
    <3> QED
      BY <3>1, <3>3, <3>4
  <2>2. ASSUME NEW t \in Tokens, ServeLogout(t) PROVE Desk!Next
    <3>1. t \in valid /\ Rotate({t}, {})
      BY <2>2 DEF ServeLogout
    <3>2. Desk!SignOut(t)
      BY <3>1 DEF Rotate, Desk!SignOut
    <3> QED
      BY <3>2 DEF Desk!Next, Desk!Tickets, Tokens
  <2>3. ASSUME NEW t \in Tokens, ServeAbandoned(t) PROVE Desk!Next
    <3>1. PICK n \in Tokens : t \in valid /\ Fresh(n) /\ n[1] = t[1] /\ Rotate({t}, {n})
      BY <2>3, Zenon DEF ServeAbandoned, tickets
    <3>2. Desk!Exchange(t, n)
      BY <3>1 DEF Rotate, Fresh, Desk!Exchange, Desk!Unused
    <3> QED
      BY <3>2 DEF Desk!Next, Desk!Tickets, Tokens
  <2>4. ASSUME NEW c \in Calls, Serve(c) \/ ServeRefresh(c) PROVE FALSE
    <3>1. UNCHANGED tickets
      BY <2>4, Zenon DEF Serve, ServeRefresh, Owe, server
    <3> QED
      BY <3>1
  <2>5. ASSUME NEW c \in Calls, Answer(c) PROVE FALSE
    BY <2>5 DEF Answer, Done, Denied, Renewed, Refused, Lose, Drop, server
  <2>6. ASSUME NEW x \in Tabs, Route(x) \/ Logout(x) \/ Reload(x) PROVE FALSE
    BY <2>6 DEF Route, Logout, Reload, Drop, server
  <2>7. ASSUME NEW c \in Calls, NEW x \in Tabs, Page(c, x) \/ SubmitLogin(c, x) PROVE FALSE
    BY <2>7 DEF Page, SubmitLogin, server
  <2>8. ASSUME NEW p \in pending, CommitFails(p) PROVE FALSE
    BY <2>8 DEF CommitFails
  <2>9. ~ UNCHANGED vars
    BY DEF vars, server
  <2> QED
    BY <2>1, <2>2, <2>3, <2>4, <2>5, <2>6, <2>7, <2>8, <2>9 DEF Next
<1> QED
  BY <1>1, <1>2, InductiveInvariant, PTL DEF Spec, MeetsTickets, Desk!Spec

=============================================================================
