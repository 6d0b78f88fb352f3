---------------------------- MODULE ServiceProofs ----------------------------
(***************************************************************************)
(* The invariants of Service, for every number of requests and every size  *)
(* of the pool: connections and locks are given back, waiting requests     *)
(* have nothing in hand, and the log agrees with the answers.              *)
(***************************************************************************)
EXTENDS Service, TLAPS

SlotInv(r) == PlaceInv(r) /\ OutcomeInv(r) /\ AnswerInv(r) /\ LogInv(r)

-----------------------------------------------------------------------------
(* Requests other than the one that takes the step *)

\* A step spares request s: its slot, its connection and its lock stay.
Spares(s) ==
  /\ pc'[s] = pc[s] /\ kind'[s] = kind[s] /\ error'[s] = error[s]
  /\ status_code'[s] = status_code[s] /\ answer'[s] = answer[s] /\ log'[s] = log[s]
  /\ s \in pool' <=> s \in pool
  /\ owner' = s <=> owner = s

LEMMA SparedKeepsSlot ==
  ASSUME NEW s \in Requests, SlotInv(s), Spares(s), pc[s] # "idle" => initialized'
  PROVE  SlotInv(s)'
<1>1. PlaceInv(s)'
  BY DEF SlotInv, PlaceInv, Spares
<1>2. OutcomeInv(s)' /\ AnswerInv(s)'
  BY DEF SlotInv, OutcomeInv, AnswerInv, Spares
<1>3. LogInv(s)'
  BY DEF SlotInv, LogInv, Spares, Entries
<1> QED BY <1>1, <1>2, <1>3 DEF SlotInv

\* The step of one request keeps the invariant if it spares the others.
LEMMA StepKeepsIInv ==
  ASSUME IInv, NEW r \in Requests, UNCHANGED <<process, initialized>>, TypeOK', SlotInv(r)',
         \A s \in Requests \ {r} : Spares(s)
  PROVE  IInv'
<1>1. ASSUME NEW s \in Requests \ {r} PROVE SlotInv(s)'
  BY SparedKeepsSlot DEF IInv, SlotInv, PlaceInv
<1> QED BY <1>1 DEF IInv, SlotInv

-----------------------------------------------------------------------------
(* The parts of a step *)

LEMMA Released ==
  ASSUME TypeOK, NEW r \in Requests, Release(r)
  PROVE  /\ pool' \in SUBSET Requests /\ owner' \in Requests \cup {None}
         /\ r \notin pool' /\ owner' # r
         /\ \A s \in Requests \ {r} : (s \in pool' <=> s \in pool) /\ (owner' = s <=> owner = s)
BY NobodyNone DEF TypeOK, Release

\* What an entry adds to the log of its request.
LEMMA Logged ==
  ASSUME TypeOK, NEW r \in Requests,
         NEW event \in {"request_completed", "domain_error", "unhandled_exception"},
         NEW status \in Statuses \cup {0}, Log(r, event, status)
  PROVE  /\ log' \in [Requests -> Seq(Entry)]
         /\ \A s \in Requests \ {r} : log'[s] = log[s]
         /\ Len(log[r]) \in Nat /\ DOMAIN log[r] = 1..Len(log[r])
         /\ \A i \in DOMAIN log[r] : log'[r][i] = log[r][i]
         /\ DOMAIN log'[r] = 1..(Len(log[r]) + 1)
         /\ log'[r][Len(log[r]) + 1].event = event /\ log'[r][Len(log[r]) + 1].status = status
<1> DEFINE entry == [event |-> event, status |-> status, context |-> context[r]]
<1>1. entry \in Entry /\ entry.event = event /\ entry.status = status
  BY DEF TypeOK, Entry
<1>2. log[r] \in Seq(Entry) /\ log' = [log EXCEPT ![r] = Append(log[r], entry)]
  BY DEF TypeOK, Log
<1> HIDE DEF entry
<1> QED BY <1>1, <1>2 DEF TypeOK

\* ... and to what is counted in it.
LEMMA EntriesLogged ==
  ASSUME TypeOK, NEW r \in Requests,
         NEW event \in {"request_completed", "domain_error", "unhandled_exception"},
         NEW status \in Statuses \cup {0}, Log(r, event, status), NEW e
  PROVE  /\ e # event => Entries(r, e)' = Entries(r, e)
         /\ e = event => Entries(r, e)' = Entries(r, e) \cup {Len(log[r]) + 1}
         /\ \A i \in Entries(r, e) : log'[r][i] = log[r][i]
         /\ log'[r][Len(log[r]) + 1].status = status
BY Logged DEF Entries

-----------------------------------------------------------------------------
(* Steps that touch nothing but the place, the answer or the connection *)

\* r goes from one place to another, and what it may not keep is not left behind.
LEMMA MoveKeepsIInv ==
  ASSUME IInv, NEW r \in Requests, NEW place \in Places, Move(r, place),
         pc[r] \notin Holding \cup {"idle"} \/ (pc[r] \in Holding /\ place \in Holding),
         place \in Holding => pc[r] \in Holding,
         owner = r => place \in {"wrote", "answered"},
         place \notin {"rollback", "raised", "leaving", "escaped", "done", "answered"},
         place \in {"connecting", "pinging"} => kind[r] # "static",
         pc[r] \notin {"rollback", "raised", "leaving", "escaped", "done", "answered"}
  PROVE  IInv'
<1>1. pc'[r] = place /\ \A s \in Requests \ {r} : pc'[s] = pc[s]
  BY DEF IInv, TypeOK, Move, Goto
<1>2. TypeOK'
  BY DEF IInv, TypeOK, Move, Goto
<1>3. \A s \in Requests \ {r} : Spares(s)
  BY <1>1 DEF Spares, Move
<1>4. SlotInv(r)
  BY DEF IInv, SlotInv
<1>5. PlaceInv(r)'
  BY <1>1, <1>4 DEF SlotInv, PlaceInv, Move, Holding, Places
<1>6. OutcomeInv(r)' /\ AnswerInv(r)'
  BY <1>1, <1>4 DEF SlotInv, OutcomeInv, AnswerInv, Move, Places
<1>7. LogInv(r)'
  BY <1>1, <1>4 DEF SlotInv, LogInv, Move, Places, Entries
<1>8. UNCHANGED <<process, initialized>>
  BY DEF Move
<1> QED BY <1>2, <1>3, <1>5, <1>6, <1>7, <1>8, StepKeepsIInv DEF SlotInv

LEMMA RaiseKeepsIInv ==
  ASSUME IInv, NEW r \in Requests, NEW exception \in {"refusal", "unexpected"}, Raise(r, exception),
         pc[r] \in {"connecting", "authenticating", "working", "locking", "wrote", "answered"},
         answer[r] # None => exception = "unexpected"
  PROVE  IInv'
<1>1. /\ pc'[r] = "rollback" /\ error'[r] = exception
      /\ \A s \in Requests \ {r} : pc'[s] = pc[s] /\ error'[s] = error[s]
  BY DEF IInv, TypeOK, Raise, Goto
<1>2. TypeOK'
  BY DEF IInv, TypeOK, Raise, Goto, Places
<1>3. \A s \in Requests \ {r} : Spares(s)
  BY <1>1 DEF Spares, Raise
<1>4. SlotInv(r)
  BY DEF IInv, SlotInv
<1>5. PlaceInv(r)'
  BY <1>1, <1>4 DEF SlotInv, PlaceInv, Raise, Holding
<1>6. OutcomeInv(r)' /\ AnswerInv(r)'
  BY <1>1, <1>4, NobodyNone DEF SlotInv, OutcomeInv, AnswerInv, Raise
<1>7. LogInv(r)'
  BY <1>1, <1>4 DEF SlotInv, LogInv, Raise, Entries
<1>8. UNCHANGED <<process, initialized>>
  BY DEF Raise
<1> QED BY <1>2, <1>3, <1>5, <1>6, <1>7, <1>8, StepKeepsIInv DEF SlotInv

\* The answer starts.
LEMMA SendKeepsIInv ==
  ASSUME IInv, NEW r \in Requests, NEW status \in Statuses, NEW place \in {"answered", "leaving"},
         pc[r] \in {"routed", "reporting", "working", "wrote"}, Send(r, status), Goto(r, place),
         place = "answered" <=> pc[r] \in Holding,
         UNCHANGED <<process, initialized, kind, error, context, log, pool, owner>>
  PROVE  IInv'
<1>1. /\ pc'[r] = place /\ answer'[r] = status /\ status_code'[r] = status
      /\ \A s \in Requests \ {r} : pc'[s] = pc[s] /\ answer'[s] = answer[s] /\ status_code'[s] = status_code[s]
  BY DEF IInv, TypeOK, Send, Goto
<1>2. TypeOK'
  BY DEF IInv, TypeOK, Send, Goto, Places
<1>3. \A s \in Requests \ {r} : Spares(s)
  BY <1>1 DEF Spares
<1>4. SlotInv(r)
  BY DEF IInv, SlotInv
<1>5. PlaceInv(r)'
  BY <1>1, <1>4 DEF SlotInv, PlaceInv, Holding
<1>6. OutcomeInv(r)' /\ AnswerInv(r)'
  BY <1>1, <1>4, NobodyNone DEF SlotInv, OutcomeInv, AnswerInv, Statuses, Holding
<1>7. LogInv(r)'
  BY <1>1, <1>4 DEF SlotInv, LogInv, Entries
<1> QED BY <1>2, <1>3, <1>5, <1>6, <1>7, StepKeepsIInv DEF SlotInv

\* The connection goes back.
LEMMA ReleaseKeepsIInv ==
  ASSUME IInv, NEW r \in Requests, NEW place \in {"reporting", "leaving", "raised"},
         pc[r] \in {"pinging", "answered", "rollback"}, Release(r), Goto(r, place),
         pc[r] = "pinging" => place = "reporting",
         pc[r] = "answered" => place = "leaving",
         pc[r] = "rollback" => place = (IF error[r] = "refusal" THEN "raised" ELSE "leaving"),
         UNCHANGED <<process, initialized, kind, error, context, status_code, answer, log>>
  PROVE  IInv'
<1>1. pc'[r] = place /\ \A s \in Requests \ {r} : pc'[s] = pc[s]
  BY DEF IInv, TypeOK, Goto
<1>2. TypeOK'
  BY Released DEF IInv, TypeOK, Goto, Places
<1>3. \A s \in Requests \ {r} : Spares(s)
  BY <1>1, Released DEF Spares, IInv
<1>4. SlotInv(r)
  BY DEF IInv, SlotInv
<1>5. PlaceInv(r)'
  BY <1>1, <1>4, Released DEF SlotInv, PlaceInv, Holding, IInv
<1>a. error[r] \in {None, "refusal", "unexpected"}
  BY DEF IInv, TypeOK
<1>6. OutcomeInv(r)' /\ AnswerInv(r)'
  BY <1>1, <1>4, <1>a, NobodyNone DEF SlotInv, OutcomeInv, AnswerInv
<1>7. LogInv(r)'
  BY <1>1, <1>4 DEF SlotInv, LogInv, Entries
<1> QED BY <1>2, <1>3, <1>5, <1>6, <1>7, StepKeepsIInv DEF SlotInv

-----------------------------------------------------------------------------
(* The actions that need a proof of their own *)

LEMMA ReceiveKeepsIInv ==
  ASSUME IInv, NEW r \in Requests, NEW k \in Kinds, Receive(r, k)
  PROVE  IInv'
<1>1. /\ pc[r] = "idle" /\ pc'[r] = "routed" /\ kind'[r] = k
      /\ \A s \in Requests \ {r} : pc'[s] = pc[s] /\ kind'[s] = kind[s]
  BY DEF IInv, TypeOK, Receive, Goto, At
<1>2. TypeOK'
  BY DEF IInv, TypeOK, Receive, Goto, Places
<1>3. \A s \in Requests \ {r} : Spares(s)
  BY <1>1 DEF Spares, Receive
<1>4. SlotInv(r)
  BY DEF IInv, SlotInv
<1>5. initialized' /\ UNCHANGED <<process, initialized>>
  BY DEF IInv, Receive
<1>6. PlaceInv(r)'
  BY <1>1, <1>4, <1>5 DEF SlotInv, PlaceInv, Holding, Receive
<1>7. OutcomeInv(r)' /\ AnswerInv(r)'
  BY <1>1, <1>4 DEF SlotInv, OutcomeInv, AnswerInv, Receive
<1>8. LogInv(r)'
  BY <1>1, <1>4 DEF SlotInv, LogInv, Entries, Receive
<1> QED BY <1>2, <1>3, <1>5, <1>6, <1>7, <1>8, StepKeepsIInv DEF SlotInv

LEMMA ConnectKeepsIInv ==
  ASSUME IInv, NEW r \in Requests, Connect(r)
  PROVE  IInv'
<1>1. SlotInv(r) /\ pc[r] = "connecting" /\ kind[r] \in {"public", "protected", "health"}
  BY DEF IInv, SlotInv, PlaceInv, Connect, At, Kinds
<1>2. /\ pc'[r] \in {"authenticating", "working", "pinging"}
      /\ pc'[r] = "pinging" => kind[r] = "health"
      /\ pc' \in [Requests -> Places \cup {"idle"}]
      /\ \A s \in Requests \ {r} : pc'[s] = pc[s]
  BY <1>1 DEF IInv, TypeOK, Connect, Goto, Places
<1>3. TypeOK'
  BY <1>2 DEF IInv, TypeOK, Connect
<1>4. \A s \in Requests \ {r} : Spares(s)
  BY <1>2 DEF Spares, Connect
<1>5. PlaceInv(r)'
  BY <1>1, <1>2 DEF SlotInv, PlaceInv, Holding, Connect
<1>6. OutcomeInv(r)' /\ AnswerInv(r)'
  BY <1>1, <1>2 DEF SlotInv, OutcomeInv, AnswerInv, Connect
<1>7. LogInv(r)'
  BY <1>1, <1>2 DEF SlotInv, LogInv, Entries, Connect
<1>8. UNCHANGED <<process, initialized>>
  BY DEF Connect
<1> QED BY <1>3, <1>4, <1>5, <1>6, <1>7, <1>8, StepKeepsIInv DEF SlotInv

LEMMA AuthenticateKeepsIInv ==
  ASSUME IInv, NEW r \in Requests, Authenticate(r)
  PROVE  IInv'
<1>1. SlotInv(r) /\ pc[r] = "authenticating"
  BY DEF IInv, SlotInv, Authenticate, At
<1>2. CASE Raise(r, "refusal")
  <2>1. answer[r] = None
    BY <1>1 DEF IInv, TypeOK, SlotInv, OutcomeInv, AnswerInv
  <2> QED BY <1>1, <1>2, <2>1, RaiseKeepsIInv
<1>3. CASE ~Raise(r, "refusal")
  <2>1. /\ Goto(r, "working") /\ context' = [context EXCEPT ![r] = @ \cup {"user_id"}]
        /\ UNCHANGED <<process, initialized, kind, error, status_code, answer, log, pool, owner>>
    BY <1>3 DEF Authenticate
  <2>2. pc'[r] = "working" /\ \A s \in Requests \ {r} : pc'[s] = pc[s]
    BY <2>1 DEF IInv, TypeOK, Goto
  <2>3. TypeOK'
    BY <2>1 DEF IInv, TypeOK, Goto, Places
  <2>4. \A s \in Requests \ {r} : Spares(s)
    BY <2>1, <2>2 DEF Spares
  <2>5. PlaceInv(r)'
    BY <1>1, <2>1, <2>2 DEF SlotInv, PlaceInv, Holding
  <2>6. OutcomeInv(r)' /\ AnswerInv(r)'
    BY <1>1, <2>1, <2>2 DEF SlotInv, OutcomeInv, AnswerInv
  <2>7. LogInv(r)'
    BY <1>1, <2>1, <2>2 DEF SlotInv, LogInv, Entries
  <2> QED BY <2>1, <2>3, <2>4, <2>5, <2>6, <2>7, StepKeepsIInv DEF SlotInv
<1> QED BY <1>2, <1>3

LEMMA LockRowKeepsIInv ==
  ASSUME IInv, NEW r \in Requests, LockRow(r)
  PROVE  IInv'
<1>1. /\ pc[r] = "locking" /\ pc'[r] = "wrote" /\ owner = None /\ owner' = r
      /\ \A s \in Requests \ {r} : pc'[s] = pc[s]
  BY DEF IInv, TypeOK, LockRow, Goto, At
<1>2. TypeOK'
  BY DEF IInv, TypeOK, LockRow, Goto, Places
<1>3. \A s \in Requests \ {r} : Spares(s)
  BY <1>1, NobodyNone DEF Spares, LockRow
<1>4. SlotInv(r)
  BY DEF IInv, SlotInv
<1>5. PlaceInv(r)'
  BY <1>1, <1>4 DEF SlotInv, PlaceInv, Holding, LockRow
<1>6. OutcomeInv(r)' /\ AnswerInv(r)'
  BY <1>1, <1>4 DEF SlotInv, OutcomeInv, AnswerInv, LockRow
<1>7. LogInv(r)'
  BY <1>1, <1>4 DEF SlotInv, LogInv, Entries, LockRow
<1>8. UNCHANGED <<process, initialized>>
  BY DEF LockRow
<1> QED BY <1>2, <1>3, <1>5, <1>6, <1>7, <1>8, StepKeepsIInv DEF SlotInv

LEMMA HandleRefusalKeepsIInv ==
  ASSUME IInv, NEW r \in Requests, HandleRefusal(r)
  PROVE  IInv'
<1>1. /\ pc[r] = "raised" /\ pc'[r] = "leaving" /\ error'[r] = None
      /\ answer'[r] = 400 /\ status_code'[r] = 400
      /\ \A s \in Requests \ {r} : /\ pc'[s] = pc[s] /\ error'[s] = error[s]
                                  /\ answer'[s] = answer[s] /\ status_code'[s] = status_code[s]
  BY DEF IInv, TypeOK, HandleRefusal, Send, Goto, At
<1>2. /\ log' \in [Requests -> Seq(Entry)]
      /\ \A s \in Requests \ {r} : log'[s] = log[s]
      /\ \A e \in {"request_completed", "unhandled_exception"} : Entries(r, e)' = Entries(r, e)
      /\ \A i \in Entries(r, "request_completed") : log'[r][i] = log[r][i]
  <2>1. CASE Log(r, "domain_error", 400)
    BY <2>1, Logged, EntriesLogged DEF Statuses, IInv
  <2>2. CASE UNCHANGED log
    BY <2>2 DEF Entries, IInv, TypeOK
  <2> QED BY <2>1, <2>2 DEF HandleRefusal
<1>3. TypeOK'
  <2>1. 400 \in Statuses
    BY DEF Statuses
  <2>2. answer' \in [Requests -> Statuses \cup {None}] /\ status_code' \in [Requests -> Statuses \cup {0}]
    BY <2>1 DEF IInv, TypeOK, HandleRefusal, Send
  <2>3. /\ pc' \in [Requests -> Places \cup {"idle"}]
        /\ error' \in [Requests -> {None, "refusal", "unexpected"}]
    BY DEF IInv, TypeOK, HandleRefusal, Goto, Places
  <2> QED BY <1>2, <2>2, <2>3 DEF IInv, TypeOK, HandleRefusal
<1>4. \A s \in Requests \ {r} : Spares(s)
  BY <1>1, <1>2 DEF Spares, HandleRefusal
<1>5. SlotInv(r)
  BY DEF IInv, SlotInv
<1>6. PlaceInv(r)'
  BY <1>1, <1>5 DEF SlotInv, PlaceInv, Holding, HandleRefusal
<1>7. OutcomeInv(r)' /\ AnswerInv(r)'
  BY <1>1, <1>5, NobodyNone DEF SlotInv, OutcomeInv, AnswerInv
<1>8. LogInv(r)'
  <2>1. Entries(r, "request_completed") = {} /\ Entries(r, "unhandled_exception") = {}
    BY <1>1, <1>5 DEF SlotInv, LogInv
  <2> QED BY <1>1, <1>2, <2>1 DEF LogInv
<1>9. UNCHANGED <<process, initialized>>
  BY DEF HandleRefusal
<1> QED BY <1>3, <1>4, <1>6, <1>7, <1>8, <1>9, StepKeepsIInv DEF SlotInv

LEMMA CompleteKeepsIInv ==
  ASSUME IInv, NEW r \in Requests, Complete(r)
  PROVE  IInv'
<1>1. /\ pc[r] = "leaving" /\ pc'[r] = IF error[r] = None THEN "done" ELSE "escaped"
      /\ \A s \in Requests \ {r} : pc'[s] = pc[s]
  BY DEF IInv, TypeOK, Complete, Goto, At
<1>2. status_code[r] \in Statuses \cup {0} /\ Log(r, "request_completed", status_code[r])
  BY DEF IInv, TypeOK, Complete
<1>3. TypeOK'
  BY <1>2, Logged DEF IInv, TypeOK, Complete, Goto, Places
<1>4. \A s \in Requests \ {r} : Spares(s)
  BY <1>1, <1>2, Logged DEF Spares, Complete, IInv
<1>5. SlotInv(r)
  BY DEF IInv, SlotInv
<1>6. PlaceInv(r)'
  BY <1>1, <1>5 DEF SlotInv, PlaceInv, Holding, Complete
<1>7. OutcomeInv(r)' /\ AnswerInv(r)'
  BY <1>1, <1>5, NobodyNone DEF SlotInv, OutcomeInv, AnswerInv, Complete, IInv, TypeOK
<1>8. LogInv(r)'
  <2>1. Entries(r, "request_completed") = {} /\ Entries(r, "unhandled_exception") = {}
    BY <1>1, <1>5 DEF SlotInv, LogInv
  <2>2. /\ Entries(r, "request_completed")' = {Len(log[r]) + 1}
        /\ Entries(r, "unhandled_exception")' = {}
        /\ log'[r][Len(log[r]) + 1].status = status_code[r]
    BY <1>2, <2>1, EntriesLogged DEF IInv
  <2>3. error'[r] = error[r] /\ status_code'[r] = status_code[r]
    BY DEF Complete
  <2>4. error[r] = None <=> error[r] # "unexpected"
    BY <1>1, <1>5, NobodyNone DEF SlotInv, OutcomeInv, IInv, TypeOK
  <2> QED BY <1>1, <2>2, <2>3, <2>4 DEF LogInv
<1>9. UNCHANGED <<process, initialized>>
  BY DEF Complete
<1> QED BY <1>3, <1>4, <1>6, <1>7, <1>8, <1>9, StepKeepsIInv DEF SlotInv

LEMMA ServerErrorKeepsIInv ==
  ASSUME IInv, NEW r \in Requests, ServerError(r)
  PROVE  IInv'
<1>1. /\ pc[r] = "escaped" /\ pc'[r] = "done"
      /\ answer'[r] = IF answer[r] = None THEN 500 ELSE answer[r]
      /\ \A s \in Requests \ {r} : pc'[s] = pc[s] /\ answer'[s] = answer[s]
  BY DEF IInv, TypeOK, ServerError, Goto, At
<1>2. 500 \in Statuses \cup {0} /\ Log(r, "unhandled_exception", 500)
  BY DEF ServerError, Statuses
<1>a. answer' \in [Requests -> Statuses \cup {None}]
  BY DEF IInv, TypeOK, ServerError, Statuses
<1>3. TypeOK'
  BY <1>2, <1>a, Logged DEF IInv, TypeOK, ServerError, Goto, Places
<1>4. \A s \in Requests \ {r} : Spares(s)
  BY <1>1, <1>2, Logged DEF Spares, ServerError, IInv
<1>5. SlotInv(r)
  BY DEF IInv, SlotInv
<1>b. error[r] = "unexpected"
  BY <1>1, <1>5 DEF SlotInv, OutcomeInv, IInv, TypeOK
<1>6. PlaceInv(r)'
  BY <1>1, <1>5 DEF SlotInv, PlaceInv, Holding, ServerError
<1>7. OutcomeInv(r)' /\ AnswerInv(r)'
  BY <1>1, <1>5, <1>b, NobodyNone DEF SlotInv, OutcomeInv, AnswerInv, ServerError
<1>8. LogInv(r)'
  <2>1. /\ Entries(r, "request_completed")' = Entries(r, "request_completed")
        /\ Entries(r, "unhandled_exception")' # {}
        /\ \A i \in Entries(r, "request_completed") : log'[r][i] = log[r][i]
    BY <1>2, EntriesLogged DEF IInv
  <2>2. error'[r] = error[r] /\ status_code'[r] = status_code[r]
    BY DEF ServerError
  <2> QED BY <1>1, <1>5, <1>b, <2>1, <2>2 DEF SlotInv, LogInv
<1>9. UNCHANGED <<process, initialized>>
  BY DEF ServerError
<1> QED BY <1>3, <1>4, <1>6, <1>7, <1>8, <1>9, StepKeepsIInv DEF SlotInv

\* A slot that is idle again has nothing left.
LEMMA FreshSlots ==
  ASSUME TypeOK, NEW slots \in SUBSET Requests, FreshRequests(slots)
  PROVE  /\ pc' \in [Requests -> Places \cup {"idle"}] /\ kind' \in [Requests -> Kinds \cup {None}]
         /\ error' \in [Requests -> {None, "refusal", "unexpected"}]
         /\ context' \in [Requests -> SUBSET {"request_id", "user_id"}]
         /\ status_code' \in [Requests -> Statuses \cup {0}]
         /\ answer' \in [Requests -> Statuses \cup {None}]
         /\ log' \in [Requests -> Seq(Entry)]
         /\ \A s \in slots : /\ pc'[s] = "idle" /\ error'[s] = None /\ answer'[s] = None
                             /\ status_code'[s] = 0 /\ log'[s] = <<>>
         /\ \A s \in Requests \ slots :
              /\ pc'[s] = pc[s] /\ kind'[s] = kind[s] /\ error'[s] = error[s]
              /\ status_code'[s] = status_code[s] /\ answer'[s] = answer[s] /\ log'[s] = log[s]
<1>1. <<>> \in Seq(Entry)
  OBVIOUS
<1>2. log' \in [Requests -> Seq(Entry)]
  BY <1>1 DEF TypeOK, FreshRequests
<1> QED BY <1>2 DEF TypeOK, FreshRequests

\* It satisfies the invariant.
LEMMA IdleSlotInv ==
  ASSUME NEW s \in Requests, pc'[s] = "idle", error'[s] = None, answer'[s] = None,
         status_code'[s] = 0, log'[s] = <<>>, s \notin pool', owner' # s
  PROVE  SlotInv(s)'
<1>1. \A e : Entries(s, e)' = {}
  BY DEF Entries
<1>2. PlaceInv(s)' /\ OutcomeInv(s)'
  BY NobodyNone DEF PlaceInv, OutcomeInv, Holding
<1>3. AnswerInv(s)'
  BY DEF AnswerInv
<1>4. LogInv(s)'
  BY <1>1 DEF LogInv
<1> QED BY <1>2, <1>3, <1>4 DEF SlotInv

LEMMA CloseKeepsIInv ==
  ASSUME IInv, NEW r \in Requests, Close(r)
  PROVE  IInv'
<1>1. TypeOK /\ FreshRequests({r}) /\ UNCHANGED <<process, initialized, pool, owner>> /\ SlotInv(r) /\ pc[r] = "done"
  BY DEF IInv, SlotInv, Close, At
<1>2. TypeOK'
  BY <1>1, FreshSlots DEF TypeOK
<1>3. \A s \in Requests \ {r} : Spares(s)
  BY <1>1, FreshSlots DEF Spares
<1>4. /\ pc'[r] = "idle" /\ error'[r] = None /\ answer'[r] = None
      /\ status_code'[r] = 0 /\ log'[r] = <<>>
  BY <1>1, FreshSlots
<1>5. r \notin pool' /\ owner' # r
  BY <1>1 DEF SlotInv, PlaceInv, Holding
<1>6. SlotInv(r)'
  BY <1>4, <1>5, IdleSlotInv
<1> QED BY <1>1, <1>2, <1>3, <1>6, StepKeepsIInv

LEMMA LifespanKeepsIInv ==
  ASSUME IInv, Lifespan
  PROVE  IInv'
<1>1. ASSUME UNCHANGED <<request, pool, owner>>, process' \in {"down", "up", "stopping"},
             initialized' \in BOOLEAN, initialized' <=> process' # "down",
             initialized => initialized' \/ \A r \in Requests : pc[r] = "idle"
      PROVE  IInv'
  <2>1. TypeOK'
    BY <1>1 DEF IInv, TypeOK, request
  <2>2. ASSUME NEW s \in Requests PROVE SlotInv(s)'
    <3>1. Spares(s)
      BY <1>1 DEF Spares, request
    <3>2. SlotInv(s) /\ (pc[s] # "idle" => initialized')
      BY <1>1 DEF IInv, SlotInv, PlaceInv
    <3> QED BY <3>1, <3>2, SparedKeepsSlot
  <2> QED BY <1>1, <2>1, <2>2 DEF IInv, SlotInv
<1>2. CASE Start
  BY <1>1, <1>2 DEF Start
<1>3. CASE Stop
  BY <1>1, <1>3 DEF Stop, IInv, TypeOK
<1>4. CASE Shutdown
  BY <1>1, <1>4 DEF Shutdown, At
<1>5. CASE Kill
  <2>1. TypeOK /\ FreshRequests(Requests) /\ pool' = {} /\ owner' = None /\ process' = "down" /\ initialized' = FALSE
    BY <1>5 DEF Kill, IInv
  <2>2. TypeOK'
    BY <2>1, FreshSlots DEF TypeOK
  <2>3. ASSUME NEW s \in Requests PROVE SlotInv(s)'
    <3>1. /\ pc'[s] = "idle" /\ error'[s] = None /\ answer'[s] = None
          /\ status_code'[s] = 0 /\ log'[s] = <<>>
      BY <2>1, FreshSlots
    <3> QED BY <2>1, <3>1, NobodyNone, IdleSlotInv
  <2> QED BY <2>1, <2>2, <2>3 DEF IInv, SlotInv
<1> QED BY <1>2, <1>3, <1>4, <1>5 DEF Lifespan

-----------------------------------------------------------------------------
(* The theorems *)

LEMMA InitIInv == Init => IInv
<1> SUFFICES ASSUME Init PROVE IInv
  OBVIOUS
<1>1. TypeOK
  <2>1. <<>> \in Seq(Entry)
    OBVIOUS
  <2> QED BY <2>1 DEF Init, TypeOK
<1>2. ASSUME NEW s \in Requests PROVE PlaceInv(s) /\ OutcomeInv(s) /\ AnswerInv(s) /\ LogInv(s)
  <2>1. \A e : Entries(s, e) = {}
    BY DEF Init, Entries
  <2>2. PlaceInv(s) /\ OutcomeInv(s) /\ AnswerInv(s)
    BY NobodyNone DEF Init, PlaceInv, OutcomeInv, AnswerInv, Holding
  <2> QED BY <2>1, <2>2 DEF Init, LogInv
<1> QED BY <1>1, <1>2 DEF Init, IInv

\* A request that is served keeps the invariant.
LEMMA ServeKeepsIInv ==
  ASSUME IInv, NEW r \in Requests, Serve(r)
  PROVE  IInv'
<1>1. SlotInv(r) /\ kind[r] \in Kinds \cup {None} /\ pc[r] \in Places \cup {"idle"}
      /\ answer[r] \in Statuses \cup {None} /\ None \notin Statuses
  BY NobodyNone DEF IInv, SlotInv, TypeOK, Statuses
<1>2. CASE Enter(r)
  <2>1. ASSUME NEW status \in Statuses, AnswerAtOnce(r, status) PROVE IInv'
    BY <2>1, SendKeepsIInv DEF AnswerAtOnce, At, Holding
  <2>2. CASE FirstStatement(r)
    <3>1. pc[r] = "routed" /\ kind[r] # "static" /\ Move(r, "connecting") /\ owner # r
      BY <1>1, <2>2 DEF FirstStatement, At, SlotInv, PlaceInv
    <3> QED BY <3>1, MoveKeepsIInv DEF Holding, Places
  <2>3. CASE NoConnection(r)
    <3>1. pc[r] = "connecting" /\ owner # r
      BY <1>1, <2>3 DEF NoConnection, At, SlotInv, PlaceInv
    <3>2. CASE Raise(r, "unexpected")
      BY <3>1, <3>2, RaiseKeepsIInv
    <3>3. CASE Move(r, "reporting")
      BY <3>1, <3>3, MoveKeepsIInv DEF Holding, Places
    <3> QED BY <2>3, <3>2, <3>3 DEF NoConnection
  <2> QED BY <1>2, <2>1, <2>2, <2>3 DEF Enter
<1>3. CASE Handle(r)
  <2>1. CASE Ping(r)
    BY <2>1, ReleaseKeepsIInv DEF Ping, At
  <2>2. CASE Authenticate(r)
    BY <2>2, AuthenticateKeepsIInv
  <2>3. CASE Write(r)
    <3>1. pc[r] = "working" /\ Move(r, "locking") /\ owner # r
      BY <1>1, <2>3 DEF Write, At, SlotInv, PlaceInv
    <3> QED BY <3>1, MoveKeepsIInv DEF Holding, Places
  <2>4. CASE Return(r)
    <3>1. 200 \in Statuses
      BY DEF Statuses
    <3> QED BY <2>4, <3>1, SendKeepsIInv DEF Return, Holding
  <2>5. CASE Fail(r)
    <3>1. pc[r] \in {"authenticating", "working", "locking", "wrote"}
      BY <2>5 DEF Fail
    <3>2. answer[r] = None
      BY <1>1, <3>1 DEF SlotInv, AnswerInv
    <3>3. Raise(r, "refusal") \/ Raise(r, "unexpected")
      BY <2>5 DEF Fail
    <3> QED BY <3>1, <3>2, <3>3, RaiseKeepsIInv
  <2> QED BY <1>3, <2>1, <2>2, <2>3, <2>4, <2>5 DEF Handle
<1>4. CASE Finish(r)
  <2>1. CASE Commit(r)
    BY <2>1, ReleaseKeepsIInv DEF Commit, At
  <2>2. CASE CommitFails(r)
    BY <2>2, RaiseKeepsIInv DEF CommitFails, At
  <2>3. CASE Rollback(r)
    BY <2>3, ReleaseKeepsIInv DEF Rollback, At
  <2> QED BY <1>4, <2>1, <2>2, <2>3 DEF Finish
<1>5. CASE Leave(r)
  <2>1. CASE Report(r)
    <3>1. 200 \in Statuses
      BY DEF Statuses
    <3> QED BY <2>1, <3>1, SendKeepsIInv DEF Report, At, Holding
  <2> QED BY <1>5, <2>1, HandleRefusalKeepsIInv, CompleteKeepsIInv, ServerErrorKeepsIInv,
             CloseKeepsIInv DEF Leave
<1> QED BY <1>2, <1>3, <1>4, <1>5, ConnectKeepsIInv, LockRowKeepsIInv DEF Serve

LEMMA NextIInv == IInv /\ [Next]_vars => IInv'
<1> SUFFICES ASSUME IInv, [Next]_vars PROVE IInv'
  OBVIOUS
<1>1. CASE Lifespan
  BY <1>1, LifespanKeepsIInv
<1>2. ASSUME NEW r \in Requests, Serve(r) PROVE IInv'
  BY <1>2, ServeKeepsIInv
<1>3. ASSUME NEW r \in Requests, NEW k \in Kinds, Receive(r, k) PROVE IInv'
  BY <1>3, ReceiveKeepsIInv
<1>4. CASE UNCHANGED vars
  <2>1. TypeOK'
    BY <1>4 DEF IInv, TypeOK, vars, request
  <2>2. ASSUME NEW s \in Requests PROVE SlotInv(s)'
    <3>1. Spares(s) /\ SlotInv(s) /\ (pc[s] # "idle" => initialized')
      BY <1>4 DEF Spares, vars, request, IInv, SlotInv, PlaceInv
    <3> QED BY <3>1, SparedKeepsSlot
  <2> QED BY <1>4, <2>1, <2>2 DEF IInv, SlotInv, vars
<1> QED BY <1>1, <1>2, <1>3, <1>4 DEF Next

\* Connections, locks, exceptions, answers and log entries go together at every
\* place a request can be at, for any number of requests and any size of the pool
\* (database.py:32-48, middleware.py:57-161).
THEOREM InductiveInvariant == Spec => []IInv
<1>1. Init => IInv
  BY InitIInv
<1>2. IInv /\ [Next]_vars => IInv'
  BY NextIInv
<1> QED BY <1>1, <1>2, PTL DEF Spec

\* The log tells what the client was told, and no unexpected error is lost, even
\* one that comes after the answer (middleware.py:95-116, 151).
THEOREM LogTellsAnswerHolds == Spec => []LogTellsAnswer
<1>1. IInv => LogTellsAnswer
  <2> SUFFICES ASSUME IInv, NEW r \in Requests, At(r, "done")
               PROVE  /\ \E i \in DOMAIN log[r] :
                           /\ Entries(r, "request_completed") = {i}
                           /\ log[r][i].status = answer[r] \/ (log[r][i].status = 0 /\ answer[r] = 500)
                      /\ Entries(r, "unhandled_exception") # {} <=> error[r] = "unexpected"
    BY DEF LogTellsAnswer
  <2>1. OutcomeInv(r) /\ AnswerInv(r) /\ LogInv(r) /\ pc[r] = "done"
    BY DEF IInv, At
  <2>2. PICK i \in Entries(r, "request_completed") : TRUE
    BY <2>1 DEF LogInv
  <2>3. i \in DOMAIN log[r] /\ Entries(r, "request_completed") = {i}
    BY <2>1, <2>2 DEF LogInv, Entries
  <2>4. log[r][i].status = status_code[r]
    BY <2>1, <2>2 DEF LogInv
  <2> QED BY <2>1, <2>3, <2>4 DEF LogInv, AnswerInv
<1> QED BY <1>1, InductiveInvariant, PTL

\* Somebody with a connection or the lock can go on, whenever somebody waits for
\* one (dependencies/database.py:22-54).
THEOREM HoldersGoOnHolds == Spec => []HoldersGoOn
<1>1. IInv => HoldersGoOn
  <2> SUFFICES ASSUME IInv, NEW r \in Requests, WaitsFor(r) # {}
               PROVE  \E s \in WaitsFor(r) : WaitsFor(s) = {}
    BY DEF HoldersGoOn
  <2>1. ASSUME owner # None PROVE owner \in pool /\ WaitsFor(owner) = {}
    <3>1. owner \in Requests /\ PlaceInv(owner)
      BY <2>1 DEF IInv, TypeOK
    <3> QED BY <3>1 DEF PlaceInv, WaitsFor, At
  <2>2. CASE At(r, "locking") /\ owner # None
    BY <2>1, <2>2 DEF WaitsFor, At
  <2>3. CASE At(r, "connecting") /\ Exhausted
    <3>1. WaitsFor(r) = pool
      BY <2>3 DEF WaitsFor, At
    <3>2. CASE owner # None
      BY <2>1, <3>1, <3>2
    <3>3. CASE owner = None
      <4>1. PICK s \in pool : TRUE
        BY <3>1
      <4>2. PlaceInv(s)
        BY DEF IInv, TypeOK
      <4>3. WaitsFor(s) = {}
        BY <3>3, <4>2 DEF PlaceInv, WaitsFor, At, Holding
      <4> QED BY <3>1, <4>3
    <3> QED BY <3>2, <3>3
  <2> QED BY <2>2, <2>3 DEF WaitsFor
<1> QED BY <1>1, InductiveInvariant, PTL

=============================================================================
