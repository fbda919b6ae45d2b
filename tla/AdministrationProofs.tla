------------------------- MODULE AdministrationProofs -------------------------
(* Proofs about Administration, for every set of threads and users and every *)
(* limit: what the audit log and the sessions guarantee.                     *)
EXTENDS Administration, FiniteSetTheorems, SequenceTheorems, TLAPS

Request ==
  [pc : {"idle", "limit", "authenticate", "check", "effect", "audit", "append"},
   id : Nat, kind : Kinds, user : Users, good : BOOLEAN, role : Roles \cup {"none"},
   session : Nat, anchor : Nat, head : Nat, dead : BOOLEAN]
Session == [role : Roles \cup {"none"}, expires : Nat, revoked : BOOLEAN]
Event == [previous : Nat, id : Nat, failure : BOOLEAN]
Effects == [id : Nat, dead : BOOLEAN, revoked : Nat]

\* The types that the argument needs.
Typed ==
  /\ now \in Nat /\ arrived \in Nat
  /\ users \in [Users -> Roles \cup {"none"}]
  /\ sessions \in Seq(Session)
  /\ log \in Seq(Event)
  /\ thread \in [Threads -> Request]
  /\ effects \subseteq Effects

Before == {"limit", "authenticate", "check", "effect"}
After == {"audit", "append"}

\* The number of a request that is being handled is its own.
OwnNumbers ==
  /\ \A t \in Threads : thread[t].pc = "idle" => thread[t].id = 0
  /\ \A t \in Threads : thread[t].pc # "idle" => thread[t].id \in 1..arrived
  /\ \A t, u \in Threads : thread[t].pc # "idle" /\ thread[t].id = thread[u].id => t = u
  /\ \A e \in effects : e.id \in 1..arrived

\* A request has its effect exactly between its check and its audit event.
EffectInTime == \A t \in Threads :
  /\ thread[t].pc \in Before => thread[t].id \notin Effective
  /\ thread[t].pc \in After =>
       \/ thread[t].kind = "login" /\ ~thread[t].good
       \/ thread[t].id \in Effective

\* A request with a session that was logged out gets no further than the check.
DeadIsChecked == \A t \in Threads : thread[t].dead =>
  /\ thread[t].pc = "check"
  /\ thread[t].session \in DOMAIN sessions
  /\ sessions[thread[t].session].revoked

\* Only a login is counted and authenticated.
LoginsOnly == \A t \in Threads :
  thread[t].pc \in {"limit", "authenticate"} => thread[t].kind = "login"

NoneDead == \A e \in effects : ~e.dead

IInv == /\ Typed /\ OwnNumbers /\ EffectInTime /\ DeadIsChecked /\ LoginsOnly
        /\ AuditIsTrue /\ UnauditedOnlyByFault /\ NoneDead

LEMMA IdleTyped == ASSUME AdministrationAssumption PROVE Idle \in Request
BY DEF AdministrationAssumption, Idle, Request, Kinds, Roles, Changes

LEMMA InitIInv == ASSUME Init PROVE IInv
<1> USE AdministrationAssumption, IdleTyped
<1>1. /\ \A t \in Threads : thread[t] = Idle
      /\ effects = {} /\ log = <<>> /\ sessions = <<>>
      /\ arrived = 0 /\ now = 0
  BY DEF Init
<1>2. Typed
  BY <1>1 DEF Init, Typed, Roles, AdministrationAssumption
<1>3. OwnNumbers /\ EffectInTime /\ DeadIsChecked /\ LoginsOnly
  BY <1>1 DEF LoginsOnly, OwnNumbers, EffectInTime, DeadIsChecked, Idle, Before, After
<1>4. AuditIsTrue /\ UnauditedOnlyByFault /\ NoneDead
  BY <1>1 DEF AuditIsTrue, UnauditedOnlyByFault, NoneDead, Effective
<1> QED BY <1>2, <1>3, <1>4 DEF IInv

\* A step that only moves one thread t to the state r, keeps its number and leaves
\* tables and effects alone, keeps the invariant if r suits its new place.
LEMMA MoveIInv ==
  ASSUME IInv, NEW t \in Threads, NEW r \in Request,
         thread' = [thread EXCEPT ![t] = r],
         r.id = thread[t].id, r.pc # "idle", thread[t].pc # "idle",
         r.pc \in Before => thread[t].pc \in Before,
         r.pc \in After => \/ thread[t].pc \in After /\ r.kind = thread[t].kind /\ r.good = thread[t].good
                           \/ r.kind = "login" /\ ~r.good,
         ~r.dead, r.pc \in {"limit", "authenticate"} => r.kind = "login",
         now' \in Nat, UNCHANGED <<users, sessions, log, arrived, effects, faults>>
  PROVE  IInv'
<1> USE DEF IInv
<1>1. \A u \in Threads : thread'[u] = IF u = t THEN r ELSE thread[u]
  BY DEF Typed
<1>2. Typed' BY DEF Typed
<1>3. OwnNumbers' BY <1>1 DEF OwnNumbers, Typed
<1>4. EffectInTime' BY <1>1 DEF EffectInTime, Effective, Typed
<1>5. DeadIsChecked' /\ LoginsOnly' BY <1>1 DEF DeadIsChecked, LoginsOnly
<1>6. AuditIsTrue' BY DEF AuditIsTrue, Effective
<1>7. UnauditedOnlyByFault'
  <2>1. Handled' = Handled BY <1>1 DEF Handled
  <2> QED BY <2>1 DEF UnauditedOnlyByFault, Effective, Audited
<1>8. NoneDead' BY DEF NoneDead
<1> QED BY <1>2, <1>3, <1>4, <1>5, <1>6, <1>7, <1>8

\* A thread that ends its request loses no effect that nobody else accounts for.
LEMMA DoneIInv ==
  ASSUME IInv, AdministrationAssumption, NEW t \in Threads, Done(t),
         \/ thread[t].pc \in Before
         \/ thread[t].id \in Audited' \cup faults',
         Audited \subseteq Audited', faults \subseteq faults', AuditIsTrue',
         log' \in Seq(Event),
         UNCHANGED <<now, users, sessions, arrived, effects>>
  PROVE  IInv'
<1> USE IdleTyped DEF IInv
<1>1. \A u \in Threads : thread'[u] = IF u = t THEN Idle ELSE thread[u]
  BY DEF Typed, Done
<1>2. Typed' BY DEF Typed, Done
<1>3. OwnNumbers'
  <2>1. arrived' = arrived /\ effects' = effects OBVIOUS
  <2>2. Idle.pc = "idle" /\ Idle.id = 0 BY DEF Idle
  <2>7. \A u \in Threads : thread'[u].pc = "idle" => thread'[u].id = 0
    BY <1>1, <2>2 DEF OwnNumbers
  <2>3. \A u \in Threads : thread'[u].pc # "idle" => thread'[u].id \in 1..arrived
    BY <1>1, <2>2 DEF OwnNumbers
  <2>4. \A u, v \in Threads : thread'[u].pc # "idle" /\ thread'[u].id = thread'[v].id => u = v
    <3> SUFFICES ASSUME NEW u \in Threads, NEW v \in Threads,
                        thread'[u].pc # "idle", thread'[u].id = thread'[v].id
                 PROVE  u = v
      OBVIOUS
    <3>1. u # t /\ thread'[u].id # 0 BY <1>1, <2>2, <2>3
    <3>2. v # t BY <1>1, <2>2, <3>1
    <3> QED BY <1>1, <3>1, <3>2 DEF OwnNumbers
  <2>5. \A e \in effects' : e.id \in 1..arrived' BY <2>1 DEF OwnNumbers
  <2>6. \A u \in Threads : thread'[u].pc # "idle" => thread'[u].id \in 1..arrived'
    BY <2>1, <2>3
  <2> HIDE DEF IInv
  <2> QED BY <2>4, <2>5, <2>6, <2>7, Zenon DEF OwnNumbers
<1>4. EffectInTime' BY <1>1 DEF EffectInTime, Effective, Idle, Before, After
<1>5. DeadIsChecked' /\ LoginsOnly' BY <1>1 DEF DeadIsChecked, LoginsOnly, Idle
<1>6. UnauditedOnlyByFault'
  <2> SUFFICES ASSUME NEW e \in Effective PROVE e \in Audited' \cup Handled' \cup faults'
    BY DEF UnauditedOnlyByFault, Effective
  <2>1. e \in Audited \cup Handled \cup faults BY DEF UnauditedOnlyByFault
  <2>2. CASE e \in Handled
    <3>1. PICK u \in Threads : thread[u].id = e BY <2>2 DEF Handled
    <3>2. CASE u = t BY <3>1, <3>2 DEF EffectInTime
    <3>3. CASE u # t BY <1>1, <3>1, <3>3 DEF Handled
    <3> QED BY <3>2, <3>3
  <2> QED BY <2>1, <2>2
<1>7. NoneDead' BY DEF NoneDead
<1> QED BY <1>2, <1>3, <1>4, <1>5, <1>6, <1>7

\* What Next lets arrive: a login, or a request with a session of the table.
Arrival(t) ==
  \/ \E u \in Users, good \in BOOLEAN : ArriveLogin(t, u, good)
  \/ \E s \in DOMAIN sessions :
       \/ ArriveLogout(t, s)
       \/ \E u \in Users, role \in Roles : ArriveCreateUser(t, s, u, role)
       \/ \E kind \in {"enrollment", "message"} : ArriveGrant(t, s, kind)

Login(request) ==
  request.pc = "limit" /\ request.kind = "login" /\ ~request.dead /\ request.session = 0
WithSession(request) ==
  /\ request.pc = "check" /\ request.session \in DOMAIN sessions
  /\ request.dead = sessions[request.session].revoked

LEMMA Arrivals ==
  ASSUME AdministrationAssumption, Typed, NEW t \in Threads, Arrival(t)
  PROVE  \E request \in Request :
           Arrive(t, request) /\ (Login(request) \/ WithSession(request))
<1> USE IdleTyped
<1>1. ASSUME NEW u \in Users, NEW good \in BOOLEAN, ArriveLogin(t, u, good)
      PROVE  \E request \in Request : Arrive(t, request) /\ Login(request)
  <2> DEFINE n == [Idle EXCEPT !.pc = "limit"]
             m == [n EXCEPT !.user = u]
             q == [m EXCEPT !.good = good]
  <2>1. Arrive(t, q) BY <1>1 DEF ArriveLogin
  <2>2. n \in Request /\ Login(n) BY DEF Idle, Request, Login
  <2> HIDE DEF n
  <2>3. m \in Request /\ Login(m) BY <2>2 DEF Request, Login
  <2> HIDE DEF m
  <2>4. q \in Request /\ Login(q) BY <2>3 DEF Request, Login
  <2> HIDE DEF q
  <2> QED BY <2>1, <2>4
<1>2. ASSUME NEW s \in DOMAIN sessions, NEW q \in Request, ArriveWith(t, s, q)
      PROVE  \E request \in Request : Arrive(t, request) /\ WithSession(request)
  <2> DEFINE n == [q EXCEPT !.pc = "check"]
             m == [n EXCEPT !.session = s]
             request == [m EXCEPT !.dead = sessions[s].revoked]
  <2>1. sessions \in Seq(Session) BY DEF Typed
  <2>2. s \in Nat /\ sessions[s] \in Session BY <2>1
  <2>3. s \in Nat /\ sessions[s].revoked \in BOOLEAN BY <2>2 DEF Session
  <2>4. Arrive(t, request) BY <1>2 DEF ArriveWith
  <2>5. n \in Request /\ n.pc = "check" BY DEF Request
  <2> HIDE DEF n
  <2>6. m \in Request /\ m.pc = "check" /\ m.session = s BY <2>3, <2>5 DEF Request
  <2> HIDE DEF m
  <2>7. /\ request \in Request /\ request.pc = "check" /\ request.session = s
        /\ request.dead = sessions[s].revoked
    BY <2>3, <2>6 DEF Request
  <2> HIDE DEF request
  <2> QED BY <2>4, <2>7 DEF WithSession
<1>3. ASSUME NEW s \in DOMAIN sessions, NEW u \in Users, NEW role \in Roles,
             ArriveCreateUser(t, s, u, role)
      PROVE  \E request \in Request : Arrive(t, request) /\ WithSession(request)
  <2> DEFINE n == [Idle EXCEPT !.kind = "user"]
             m == [n EXCEPT !.user = u]
             q == [m EXCEPT !.role = role]
  <2>1. ArriveWith(t, s, q) BY <1>3 DEF ArriveCreateUser
  <2>2. n \in Request BY DEF Idle, Request, Kinds, Changes
  <2> HIDE DEF n
  <2>3. m \in Request BY <2>2 DEF Request
  <2> HIDE DEF m
  <2>4. q \in Request BY <2>3 DEF Request
  <2> HIDE DEF q
  <2> QED BY <1>2, <2>1, <2>4
<1>4. ASSUME NEW s \in DOMAIN sessions, NEW kind \in {"logout", "enrollment", "message"},
             ArriveWith(t, s, [Idle EXCEPT !.kind = kind])
      PROVE  \E request \in Request : Arrive(t, request) /\ WithSession(request)
  <2>1. [Idle EXCEPT !.kind = kind] \in Request BY DEF Idle, Request, Kinds, Changes
  <2> QED BY <1>2, <1>4, <2>1
<1> QED BY <1>1, <1>3, <1>4 DEF Arrival, ArriveLogout, ArriveGrant

\* The request that a thread handles from then on.
LEMMA Arrived ==
  ASSUME Typed, NEW t \in Threads, NEW request \in Request, Arrive(t, request)
  PROVE  \E r \in Request :
           /\ \A u \in Threads : thread'[u] = IF u = t THEN r ELSE thread[u]
           /\ r.pc = request.pc /\ r.session = request.session /\ r.anchor = now
<1> DEFINE n == [request EXCEPT !.id = arrived + 1]
           r == [n EXCEPT !.anchor = now]
<1>1. thread' = [thread EXCEPT ![t] = r] BY DEF Arrive
<1>2. arrived + 1 \in Nat /\ now \in Nat BY DEF Typed
<1>3. n \in Request /\ n.pc = request.pc /\ n.session = request.session BY <1>2 DEF Request
<1> HIDE DEF n
<1>4. r \in Request /\ r.pc = request.pc /\ r.session = request.session /\ r.anchor = now
  BY <1>2, <1>3 DEF Request
<1> HIDE DEF r
<1>5. \A u \in Threads : thread'[u] = IF u = t THEN r ELSE thread[u] BY <1>1 DEF Typed
<1> QED BY <1>4, <1>5

LEMMA StepIInv == ASSUME AdministrationAssumption, IInv, [Next]_vars PROVE IInv'
<1> USE IdleTyped DEF IInv
<1>1. \A t \in Threads : thread[t] \in Request BY DEF Typed
<1>2. ASSUME NEW t \in Threads, NEW request \in Request,
             Arrive(t, request), request.pc \in {"limit", "check"},
             request.pc = "limit" => request.kind = "login",
             request.dead => /\ request.pc = "check"
                             /\ request.session \in DOMAIN sessions
                             /\ sessions[request.session].revoked
      PROVE  IInv'
  <2> DEFINE n == [request EXCEPT !.id = arrived + 1]
             r == [n EXCEPT !.anchor = now]
  <2>a. thread' = [thread EXCEPT ![t] = r] BY <1>2 DEF Arrive
  <2>c. arrived \in Nat /\ arrived + 1 \in Nat /\ now \in Nat BY DEF Typed
  <2>b. /\ n \in Request /\ n.id = arrived + 1 /\ n.pc = request.pc
        /\ n.dead = request.dead /\ n.session = request.session /\ n.kind = request.kind
    BY <2>c DEF Request
  <2> HIDE DEF n
  <2>1. /\ r \in Request /\ r.id = arrived + 1 /\ r.pc = request.pc
        /\ r.dead = request.dead /\ r.session = request.session /\ r.kind = request.kind
    BY <2>b, <2>c DEF Request
  <2>2. \A u \in Threads : thread'[u] = IF u = t THEN r ELSE thread[u]
    BY <2>a DEF Typed
  <2>3. /\ thread[t].pc = "idle" /\ arrived' = arrived + 1
        /\ UNCHANGED <<now, users, sessions, limits, log, effects, faults>>
    BY <1>2 DEF Arrive, database
  <2>4. thread' \in [Threads -> Request]
    BY <2>a, <2>1 DEF Typed
  <2> HIDE DEF r
  <2>5. Typed' BY <2>3, <2>4 DEF Typed
  <2>6. OwnNumbers'
    <3>1. \A u \in Threads : u # t => thread'[u] = thread[u] BY <2>2
    <3>2. thread'[t].pc # "idle" /\ thread'[t].id = arrived + 1 BY <1>2, <2>1, <2>2
    <3>3. \A u \in Threads : thread[u].id \in 0..arrived BY <2>c DEF OwnNumbers
    <3>4. \A u \in Threads : u # t => thread[u].id # arrived + 1 BY <2>c, <3>3
    <3>5. \A u \in Threads : thread'[u].pc = "idle" => thread'[u].id = 0
      BY <3>1, <3>2 DEF OwnNumbers
    <3>6. \A u \in Threads : thread'[u].pc # "idle" => thread'[u].id \in 1..arrived'
      <4> SUFFICES ASSUME NEW u \in Threads, thread'[u].pc # "idle"
                   PROVE  thread'[u].id \in 1..(arrived + 1)
        BY <2>3
      <4>1. CASE u = t BY <2>c, <3>2, <4>1
      <4>2. CASE u # t BY <2>c, <3>1, <4>2 DEF OwnNumbers
      <4> QED BY <4>1, <4>2
    <3>7. \A u, v \in Threads : thread'[u].pc # "idle" /\ thread'[u].id = thread'[v].id => u = v
      BY <3>1, <3>2, <3>4 DEF OwnNumbers
    <3>8. \A e \in effects' : e.id \in 1..arrived' BY <2>c, <2>3 DEF OwnNumbers
    <3> QED BY <3>5, <3>6, <3>7, <3>8, Zenon DEF OwnNumbers
  <2>7. EffectInTime'
    <3>1. arrived + 1 \notin Effective BY DEF OwnNumbers, Effective, Typed
    <3> QED BY <1>2, <2>1, <2>2, <2>3, <3>1 DEF EffectInTime, Effective, After
  <2>8. DeadIsChecked' /\ LoginsOnly' BY <1>2, <2>1, <2>2, <2>3 DEF DeadIsChecked, LoginsOnly
  <2>9. AuditIsTrue' BY <2>3 DEF AuditIsTrue, Effective
  <2>10. UnauditedOnlyByFault'
    <3>1. ASSUME NEW e \in Effective, e \in Handled PROVE e \in Handled'
      <4>1. PICK u \in Threads : thread[u].id = e BY <3>1 DEF Handled
      <4>2. e # 0 BY DEF Effective, OwnNumbers
      <4>3. u # t BY <2>3, <4>1, <4>2 DEF OwnNumbers
      <4> QED BY <2>2, <4>1, <4>3 DEF Handled
    <3> QED BY <2>3, <3>1 DEF UnauditedOnlyByFault, Effective, Audited
  <2>11. NoneDead' BY <2>3 DEF NoneDead
  <2> QED BY <2>5, <2>6, <2>7, <2>8, <2>9, <2>10, <2>11
<1>3. ASSUME NEW t \in Threads, Arrival(t) PROVE IInv'
  <2>1. PICK request \in Request :
          Arrive(t, request) /\ (Login(request) \/ WithSession(request))
    BY <1>3, Arrivals
  <2> QED BY <1>2, <2>1 DEF Login, WithSession
<1>8. ASSUME NEW t \in Threads, ConsumeRateLimit(t) PROVE IInv'
  <2>1. /\ thread[t].pc = "limit" /\ UNCHANGED <<now, users, sessions, log, arrived, effects, faults>>
        /\ Step(t, "authenticate") \/ Done(t)
    BY <1>8 DEF ConsumeRateLimit
  <2>2. CASE Step(t, "authenticate")
    <3> DEFINE r == [thread[t] EXCEPT !.pc = "authenticate"]
    <3>1. /\ r \in Request /\ r.pc = "authenticate" /\ r.id = thread[t].id /\ r.dead = thread[t].dead
          /\ r.kind = thread[t].kind
      BY <1>1 DEF Request
    <3>2. thread' = [thread EXCEPT ![t] = r] BY <2>2 DEF Step
    <3>3. ~r.dead /\ r.kind = "login" BY <2>1, <3>1 DEF DeadIsChecked, LoginsOnly
    <3> HIDE DEF r
    <3> QED BY <2>1, <3>1, <3>2, <3>3, MoveIInv DEF Before, After, Typed
  <2>3. CASE Done(t)
    <3>1. Audited' = Audited /\ AuditIsTrue' BY <2>1 DEF Audited, AuditIsTrue, Effective
    <3> QED BY <2>1, <2>3, <3>1, DoneIInv DEF Before, Typed
  <2> QED BY <2>1, <2>2, <2>3
<1>9. ASSUME NEW t \in Threads, Authenticate(t) PROVE IInv'
  <2>1. /\ thread[t].pc = "authenticate"
        /\ UNCHANGED <<now, users, sessions, log, arrived, effects, faults>>
    BY <1>9 DEF Authenticate, database, history
  <2>2. CASE Step(t, "effect")
    <3> DEFINE r == [thread[t] EXCEPT !.pc = "effect"]
    <3>1. r \in Request /\ r.pc = "effect" /\ r.id = thread[t].id /\ r.dead = thread[t].dead
      BY <1>1 DEF Request
    <3>2. thread' = [thread EXCEPT ![t] = r] BY <2>2 DEF Step
    <3>3. ~r.dead BY <2>1, <3>1 DEF DeadIsChecked
    <3> HIDE DEF r
    <3> QED BY <2>1, <3>1, <3>2, <3>3, MoveIInv DEF Before, After, Typed
  <2>3. CASE ~Step(t, "effect")
    <3> DEFINE n == [thread[t] EXCEPT !.pc = "audit"]
               r == [n EXCEPT !.good = FALSE]
    <3>1. thread' = [thread EXCEPT ![t] = r] BY <1>9, <2>3 DEF Authenticate
    <3>2. n \in Request /\ n.pc = "audit" /\ n.id = thread[t].id /\ n.dead = thread[t].dead
          /\ n.kind = thread[t].kind
      BY <1>1 DEF Request
    <3> HIDE DEF n
    <3>3. r \in Request /\ r.pc = "audit" /\ r.id = thread[t].id /\ r.dead = thread[t].dead
          /\ r.kind = thread[t].kind /\ ~r.good
      BY <3>2 DEF Request
    <3>4. ~r.dead /\ r.kind = "login" BY <2>1, <3>3 DEF DeadIsChecked, LoginsOnly
    <3> HIDE DEF r
    <3> QED BY <2>1, <3>1, <3>3, <3>4, MoveIInv DEF Before, After, Typed
  <2> QED BY <2>2, <2>3
<1>10. ASSUME NEW t \in Threads, CheckSession(t) PROVE IInv'
  <2>1. /\ thread[t].pc = "check"
        /\ UNCHANGED <<now, users, sessions, log, arrived, effects, faults>>
        /\ (Step(t, "effect") /\ ~sessions[thread[t].session].revoked) \/ Done(t)
    BY <1>10 DEF CheckSession, ValidSession, database, history
  <2>2. CASE Step(t, "effect") /\ ~sessions[thread[t].session].revoked
    <3> DEFINE r == [thread[t] EXCEPT !.pc = "effect"]
    <3>1. r \in Request /\ r.pc = "effect" /\ r.id = thread[t].id /\ r.dead = thread[t].dead
      BY <1>1 DEF Request
    <3>2. thread' = [thread EXCEPT ![t] = r] BY <2>2 DEF Step
    <3>3. ~r.dead BY <2>2, <3>1 DEF DeadIsChecked
    <3> HIDE DEF r
    <3> QED BY <2>1, <3>1, <3>2, <3>3, MoveIInv DEF Before, After, Typed
  <2>3. CASE Done(t)
    <3>1. Audited' = Audited /\ AuditIsTrue' BY <2>1 DEF Audited, AuditIsTrue, Effective
    <3> QED BY <2>1, <2>3, <3>1, DoneIInv DEF Before, Typed
  <2> QED BY <2>1, <2>2, <2>3
<1>11. ASSUME NEW t \in Threads, Effect(t) PROVE IInv'
  <2>1. /\ thread[t].pc = "effect"
        /\ UNCHANGED <<now, log, arrived, faults>>
    BY <1>11 DEF Effect
  <2>2. CASE Conflict(t)
    <3>1. Done(t) /\ UNCHANGED <<users, sessions, effects>> BY <1>11, <2>2 DEF Effect
    <3>2. Audited' = Audited /\ AuditIsTrue' BY <2>1, <3>1 DEF Audited, AuditIsTrue, Effective
    <3> QED BY <2>1, <3>1, <3>2, DoneIInv DEF Before, Typed
  <2>3. CASE ~Conflict(t)
    <3> DEFINE r == [thread[t] EXCEPT !.pc = "audit"]
               id == thread[t].id
    <3>1. /\ r \in Request /\ r.pc = "audit" /\ r.id = id /\ r.dead = thread[t].dead
          /\ r.kind = thread[t].kind /\ id \in Nat /\ thread[t].dead = FALSE
      BY <1>1, <2>1 DEF Request, DeadIsChecked
    <3>2. thread' = [thread EXCEPT ![t] = r] BY <1>11, <2>3 DEF Effect, AfterEffect, Step
    <3>3. /\ Effected(t)
          /\ users' \in [Users -> Roles \cup {"none"}]
          /\ sessions' \in Seq(Session)
          /\ \A s \in DOMAIN sessions : s \in DOMAIN sessions' /\
               (sessions[s].revoked => sessions'[s].revoked)
      <4>1. thread[t].kind \in Kinds BY <1>1 DEF Request
      <4>2. CASE thread[t].kind = "login"
        <5>1. Effected(t) /\ CreateSession(t) BY <1>11, <2>3, <4>2 DEF Effect
        <5>2. users[thread[t].user] \in Roles \cup {"none"} BY <1>1 DEF Typed, Request
        <5>3. [role |-> users[thread[t].user], expires |-> now + TTL, revoked |-> FALSE] \in Session
          BY <5>2, AdministrationAssumption DEF Session, Typed, AdministrationAssumption
        <5> QED BY <5>1, <5>3 DEF CreateSession, Typed
      <4>3. CASE thread[t].kind = "logout"
        <5>1. Effected(t) /\ RevokeSession(t) BY <1>11, <2>3, <4>3 DEF Effect
        <5>a. sessions \in Seq(Session) /\ users \in [Users -> Roles \cup {"none"}] BY DEF Typed
        <5>b. \A s \in DOMAIN sessions : sessions[s] \in Session BY <5>a
        <5>2. \A s \in DOMAIN sessions : /\ [sessions[s] EXCEPT !.revoked = TRUE] \in Session
                                        /\ [sessions[s] EXCEPT !.revoked = TRUE].revoked = TRUE
          BY <5>b DEF Session
        <5>c. sessions' = [sessions EXCEPT ![thread[t].session] =
                             [sessions[thread[t].session] EXCEPT !.revoked = TRUE]]
              /\ users' = users
          BY <5>1 DEF RevokeSession
        <5>d. Len(sessions) \in Nat /\ DOMAIN sessions = 1..Len(sessions) BY <5>a
        <5>3. /\ DOMAIN sessions' = DOMAIN sessions
              /\ \A s \in DOMAIN sessions :
                   /\ sessions'[s] \in Session
                   /\ sessions[s].revoked => sessions'[s].revoked
          BY <5>b, <5>2, <5>c
        <5>e. sessions' \in [1..Len(sessions) -> Session] BY <5>d, <5>3, <5>c
        <5>4. sessions' \in Seq(Session) BY <5>d, <5>e, SeqDef
        <5> QED BY <5>1, <5>a, <5>c, <5>3, <5>4
      <4>4. CASE thread[t].kind = "user"
        <5>1. users[thread[t].user] = "none" BY <2>3, <4>4 DEF Conflict
        <5>2. Effected(t) /\ CreateUser(t) BY <1>11, <2>3, <4>4, <5>1 DEF Effect
        <5> QED BY <1>1, <5>2 DEF CreateUser, Typed, Request
      <4>5. CASE thread[t].kind \in {"enrollment", "message"}
        <5>1. Effected(t) /\ UNCHANGED <<users, sessions>> BY <1>11, <2>3, <4>5 DEF Effect
        <5> QED BY <5>1 DEF Typed
      <4> QED BY <4>1, <4>2, <4>3, <4>4, <4>5 DEF Kinds, Changes
    <3> HIDE DEF r
    <3>4. \A u \in Threads : thread'[u] = IF u = t THEN r ELSE thread[u] BY <3>2 DEF Typed
    <3> DEFINE e == [id |-> id, dead |-> thread[t].dead, revoked |-> Revoked(t)]
    <3>a. effects' = effects \cup {e} BY <3>3 DEF Effected
    <3>b. e \in Effects /\ e.id = id /\ ~e.dead
      <4>1. Revoked(t) \in Nat BY <1>1 DEF Revoked, Request
      <4> QED BY <3>1, <4>1 DEF Effects
    <3> HIDE DEF e
    <3>5. Effective' = Effective \cup {id} 
      <4>1. Effective' \subseteq Effective \cup {id} BY <3>a, <3>b DEF Effective
      <4>2. Effective \subseteq Effective' BY <3>a DEF Effective
      <4>3. e.id \in Effective' BY <3>a, Zenon DEF Effective
      <4> QED BY <3>b, <4>1, <4>2, <4>3
    <3>6. Typed'
      <4>1. effects' \subseteq Effects BY <3>a, <3>b DEF Typed
      <4>2. thread' \in [Threads -> Request] BY <3>1, <3>2 DEF Typed
      <4> QED BY <2>1, <3>3, <4>1, <4>2 DEF Typed
    <3>7. OwnNumbers' BY <2>1, <3>1, <3>4, <3>a, <3>b DEF OwnNumbers
    <3>8. EffectInTime'
      <4>1. \A u \in Threads : u # t => thread[u].id # id BY <2>1 DEF OwnNumbers
      <4> QED BY <3>1, <3>4, <3>5, <4>1 DEF EffectInTime, Before
    <3>9. DeadIsChecked' BY <3>1, <3>3, <3>4 DEF DeadIsChecked
    <3>10. LoginsOnly' BY <3>1, <3>4 DEF LoginsOnly
    <3>11. AuditIsTrue' BY <2>1, <3>5 DEF AuditIsTrue
    <3>12. UnauditedOnlyByFault'
      <4>1. Handled \cup {id} \subseteq Handled' BY <3>1, <3>4 DEF Handled
      <4> QED BY <2>1, <3>5, <4>1 DEF UnauditedOnlyByFault, Audited
    <3>13. NoneDead' BY <3>a, <3>b DEF NoneDead
    <3> QED BY <3>6, <3>7, <3>8, <3>9, <3>10, <3>11, <3>12, <3>13
  <2> QED BY <2>2, <2>3
<1>12. ASSUME NEW t \in Threads, ReadHead(t) PROVE IInv'
  <2> DEFINE n == [thread[t] EXCEPT !.pc = "append"]
             r == [n EXCEPT !.head = LogHead]
  <2>1. /\ thread[t].pc = "audit" /\ LogHead \in Nat
        /\ UNCHANGED <<now, users, sessions, log, arrived, effects, faults>>
    BY <1>12 DEF ReadHead, LogHead, Typed, database, history
  <2>2. thread' = [thread EXCEPT ![t] = r] BY <1>12 DEF ReadHead
  <2>3. /\ n \in Request /\ n.pc = "append" /\ n.id = thread[t].id /\ n.dead = thread[t].dead
        /\ n.kind = thread[t].kind /\ n.good = thread[t].good
    BY <1>1 DEF Request
  <2> HIDE DEF n
  <2>4. /\ r \in Request /\ r.pc = "append" /\ r.id = thread[t].id /\ r.dead = thread[t].dead
        /\ r.kind = thread[t].kind /\ r.good = thread[t].good
    BY <2>1, <2>3 DEF Request
  <2>5. ~r.dead BY <2>1, <2>4 DEF DeadIsChecked
  <2> HIDE DEF r
  <2> QED BY <2>1, <2>2, <2>4, <2>5, MoveIInv DEF Before, After, Typed
<1>13. ASSUME NEW t \in Threads, AppendAuditEvent(t) PROVE IInv'
  <2> DEFINE e == [previous |-> thread[t].head, id |-> thread[t].id,
                   failure |-> thread[t].kind = "login" /\ ~thread[t].good]
  <2>1. /\ thread[t].pc = "append" /\ Done(t) /\ log' = Append(log, e)
        /\ UNCHANGED <<now, users, sessions, arrived, effects, faults>>
    BY <1>13 DEF AppendAuditEvent, history
  <2>2. e \in Event /\ e.id = thread[t].id /\ (~e.failure => e.id \in Effective)
    BY <1>1, <2>1 DEF Event, Request, EffectInTime, After
  <2> HIDE DEF e
  <2>3. /\ log' \in Seq(Event) /\ Len(log') = Len(log) + 1
        /\ \A i \in DOMAIN log : log'[i] = log[i]
        /\ log'[Len(log) + 1] = e
        /\ DOMAIN log' = 1..(Len(log) + 1) /\ DOMAIN log = 1..Len(log) /\ Len(log) \in Nat
    BY <2>1, <2>2 DEF Typed
  <2>4. Effective' = Effective BY <2>1 DEF Effective
  <2>5. AuditIsTrue'
    <3> SUFFICES ASSUME NEW i \in DOMAIN log', ~log'[i].failure PROVE log'[i].id \in Effective
      BY <2>4 DEF AuditIsTrue
    <3>1. CASE i \in DOMAIN log BY <2>3, <3>1 DEF AuditIsTrue
    <3>2. CASE i = Len(log) + 1 BY <2>2, <2>3, <3>2
    <3> QED BY <2>3, <3>1, <3>2
  <2>6. Audited \subseteq Audited' /\ thread[t].id \in Audited'
    <3>1. Len(log) + 1 \in DOMAIN log' BY <2>3
    <3>2. thread[t].id \in Audited' BY <2>2, <2>3, <3>1 DEF Audited
    <3>3. ASSUME NEW i \in DOMAIN log PROVE log[i].id \in Audited'
      <4>1. i \in DOMAIN log' BY <2>3
      <4> QED BY <2>3, <4>1 DEF Audited
    <3> QED BY <3>2, <3>3 DEF Audited
  <2> QED BY <2>1, <2>3, <2>5, <2>6, DoneIInv
<1>14. ASSUME NEW t \in Threads, Locked(t) PROVE IInv'
  <2>1. /\ Done(t) /\ faults' = faults \cup {thread[t].id}
        /\ UNCHANGED <<now, users, sessions, log, arrived, effects>>
    BY <1>14 DEF Locked, database
  <2>2. Audited' = Audited /\ AuditIsTrue' BY <2>1 DEF Audited, AuditIsTrue, Effective
  <2> QED BY <2>1, <2>2, DoneIInv DEF Typed
<1>15. ASSUME Restart PROVE IInv'
  <2>1. /\ thread' = [t \in Threads |-> Idle]
        /\ faults' = faults \cup {thread[t].id : t \in {u \in Threads : thread[u].pc # "idle"}}
        /\ UNCHANGED <<now, users, sessions, log, arrived, effects>>
    BY <1>15 DEF Restart, database
  <2>2. \A u \in Threads : thread'[u] = Idle BY <2>1
  <2>3. Typed' BY <2>1 DEF Typed
  <2>4. OwnNumbers' BY <2>1, <2>2 DEF OwnNumbers, Idle
  <2>5. EffectInTime' /\ DeadIsChecked' /\ LoginsOnly'
    BY <2>1, <2>2 DEF EffectInTime, DeadIsChecked, LoginsOnly, Idle, Before, After
  <2>6. AuditIsTrue' BY <2>1 DEF AuditIsTrue, Effective
  <2>7. UnauditedOnlyByFault'
    <3>1. ASSUME NEW e \in Effective, e \in Handled PROVE e \in faults'
      <4>1. PICK u \in Threads : thread[u].id = e BY <3>1 DEF Handled
      <4>2. e # 0 BY DEF Effective, OwnNumbers
      <4>3. thread[u].pc # "idle" BY <4>1, <4>2 DEF OwnNumbers
      <4> QED BY <2>1, <4>1, <4>3
    <3> QED BY <2>1, <3>1 DEF UnauditedOnlyByFault, Effective, Audited
  <2>8. NoneDead' BY <2>1 DEF NoneDead
  <2> QED BY <2>3, <2>4, <2>5, <2>6, <2>7, <2>8
<1>16. ASSUME UNCHANGED <<database, thread, history>>, now' \in Nat PROVE IInv'
  BY <1>16 DEF database, history, Typed, OwnNumbers, EffectInTime, DeadIsChecked, LoginsOnly,
     AuditIsTrue, UnauditedOnlyByFault, NoneDead, Effective, Audited, Handled
<1>17. CASE Tick BY <1>16, <1>17 DEF Tick, Typed
<1>18. CASE Horizon BY <1>16, <1>18 DEF Horizon, vars, Typed
<1>19. CASE UNCHANGED vars BY <1>16, <1>19 DEF vars, Typed
<1> QED
  BY <1>3, <1>8, <1>9, <1>10, <1>11, <1>12, <1>13, <1>14, <1>15, <1>17, <1>18, <1>19
     DEF Next, Handle, Arrival

\* An audit event reports a change that was committed, and a change goes unaudited only
\* when its handler fails in between: append_audit_event and the handlers of
\* CommercialAPI, for any number of threads, requests and faults.
THEOREM AuditSafety == Spec => [](Typed /\ AuditMatchesChanges)
<1>1. Init => IInv BY InitIInv, AdministrationAssumption
<1>2. IInv /\ [Next]_vars => IInv' BY StepIInv, AdministrationAssumption
<1>3. IInv => Typed /\ AuditMatchesChanges BY DEF IInv, AuditMatchesChanges
<1> QED BY <1>1, <1>2, <1>3, PTL DEF Spec

-----------------------------------------------------------------------------
(* The fork of the audit log, and the rate limit.                          *)

\* A thread that is to be counted has its anchor from now, or has had it.
Anchored(u) == thread'[u].pc = "limit" =>
  \/ thread'[u].anchor = now
  \/ thread[u].pc = "limit" /\ thread'[u] = thread[u]

\* A thread that neither takes a head to append after nor an anchor of the past.
Calm(u) ==
  /\ thread'[u].pc = "append" =>
       thread[u].pc = "append" /\ thread'[u].head = thread[u].head
  /\ Anchored(u)

\* A request arrives before its check or its limit.
LEMMA ArrivalsCalm ==
  ASSUME AdministrationAssumption, Typed, NEW t \in Threads, Arrival(t)
  PROVE  /\ \A u \in Threads : Calm(u)
         /\ UNCHANGED <<now, database, effects, passed, late, faults>>
<1>1. PICK request \in Request : Arrive(t, request) /\ (Login(request) \/ WithSession(request))
  BY Arrivals
<1>2. PICK r \in Request :
        /\ \A u \in Threads : thread'[u] = IF u = t THEN r ELSE thread[u]
        /\ r.pc = request.pc /\ r.session = request.session /\ r.anchor = now
  BY <1>1, Arrived
<1> QED BY <1>1, <1>2 DEF Calm, Anchored, Login, WithSession, Arrive

\* A thread that goes on to another place, or is done, is calm unless it is to append.
LEMMA StepCalm ==
  ASSUME Typed, NEW t \in Threads, NEW pc \in {"authenticate", "effect", "audit"},
         \/ Step(t, pc) \/ Done(t)
         \/ thread' = [thread EXCEPT ![t] = [@ EXCEPT !.pc = pc, !.good = FALSE]]
  PROVE  \A u \in Threads : Calm(u)
<1>1. thread[t] \in Request BY DEF Typed
<1>2. \A u \in Threads : u # t => thread'[u] = thread[u] BY DEF Typed, Step, Done
<1>3. thread'[t].pc \in {pc, "idle"}
  <2>1. CASE Step(t, pc) BY <1>1, <2>1 DEF Typed, Step, Request
  <2>2. CASE Done(t) BY <2>2 DEF Typed, Done, Idle
  <2>3. CASE thread' = [thread EXCEPT ![t] = [@ EXCEPT !.pc = pc, !.good = FALSE]]
    <3> DEFINE n == [thread[t] EXCEPT !.pc = pc]
    <3>1. n \in Request /\ n.pc = pc BY <1>1 DEF Request
    <3>2. thread'[t] = [n EXCEPT !.good = FALSE] BY <2>3 DEF Typed
    <3> HIDE DEF n
    <3> QED BY <3>1, <3>2 DEF Request
  <2> QED BY <2>1, <2>2, <2>3
<1> QED BY <1>2, <1>3 DEF Calm, Anchored

\* What a step does to the log, the limits and the threads.
LEMMA Steps ==
  ASSUME AdministrationAssumption, Typed, [Next]_vars
  PROVE  \/ \E t \in Threads : ReadHead(t)
         \/ \E t \in Threads : AppendAuditEvent(t)
         \/ /\ \A u \in Threads : Calm(u)
            /\ log' = log
            /\ \/ \E t \in Threads : ConsumeRateLimit(t)
               \/ UNCHANGED <<limits, passed, late>> /\ (now' = now \/ Tick)
<1>1. ASSUME NEW t \in Threads, Arrival(t)
      PROVE  (\A u \in Threads : Calm(u)) /\ UNCHANGED <<log, limits, passed, late, now>>
  BY <1>1, ArrivalsCalm DEF database
<1>2. ASSUME NEW t \in Threads, ConsumeRateLimit(t)
      PROVE  (\A u \in Threads : Calm(u)) /\ log' = log
  <2>1. Step(t, "authenticate") \/ Done(t) BY <1>2 DEF ConsumeRateLimit
  <2> QED BY <1>2, <2>1, StepCalm DEF ConsumeRateLimit
<1>3. ASSUME NEW t \in Threads, Authenticate(t)
      PROVE  (\A u \in Threads : Calm(u)) /\ UNCHANGED <<log, limits, passed, late, now>>
  <2>1. \/ Step(t, "effect")
        \/ thread' = [thread EXCEPT ![t] = [@ EXCEPT !.pc = "audit", !.good = FALSE]]
    BY <1>3 DEF Authenticate
  <2> QED BY <1>3, <2>1, StepCalm DEF Authenticate, database, history
<1>4. ASSUME NEW t \in Threads, CheckSession(t)
      PROVE  (\A u \in Threads : Calm(u)) /\ UNCHANGED <<log, limits, passed, late, now>>
  <2>1. Step(t, "effect") \/ Done(t) BY <1>4 DEF CheckSession
  <2> QED BY <1>4, <2>1, StepCalm DEF CheckSession, database, history
<1>5. ASSUME NEW t \in Threads, Effect(t)
      PROVE  (\A u \in Threads : Calm(u)) /\ UNCHANGED <<log, limits, passed, late, now>>
  <2>1. Step(t, "audit") \/ Done(t) BY <1>5 DEF Effect, AfterEffect
  <2> QED BY <1>5, <2>1, StepCalm DEF Effect
<1>6. ASSUME NEW t \in Threads, Locked(t)
      PROVE  (\A u \in Threads : Calm(u)) /\ UNCHANGED <<log, limits, passed, late, now>>
  BY <1>6, StepCalm DEF Locked, database
<1>7. CASE Restart
  <2>1. \A u \in Threads : thread'[u].pc = "idle" BY <1>7 DEF Restart, Idle
  <2> QED BY <1>7, <2>1 DEF Restart, Calm, Anchored, database
<1>8. CASE Tick \/ Horizon \/ UNCHANGED vars
  BY <1>8 DEF Tick, Horizon, vars, database, history, Calm, Anchored
<1> QED BY <1>1, <1>2, <1>3, <1>4, <1>5, <1>6, <1>7, <1>8 DEF Next, Handle, Arrival

-----------------------------------------------------------------------------
(* How far the log forks: everybody who chains to an event read it while   *)
(* it was the head, so all of them were at work at that moment.            *)

Followers(p) == {i \in DOMAIN log : log[i].previous = p}
Waiting(p) == {t \in Threads : thread[t].pc = "append" /\ thread[t].head = p}

ForkInv ==
  /\ \A t \in Threads : thread[t].pc = "append" => thread[t].head <= Len(log)
  /\ \A i \in DOMAIN log : log[i].previous < i
  /\ \A p \in Nat : Cardinality(Followers(p)) + Cardinality(Waiting(p)) <= Cardinality(Threads)

\* What is counted is finite.
LEMMA ForkCounts ==
  ASSUME AdministrationAssumption, Typed, NEW p
  PROVE  /\ IsFiniteSet(Followers(p)) /\ Cardinality(Followers(p)) \in Nat
         /\ IsFiniteSet(Waiting(p)) /\ Cardinality(Waiting(p)) \in Nat
         /\ Cardinality(Waiting(p)) <= Cardinality(Threads)
         /\ Cardinality(Threads) \in Nat
<1>1. Followers(p) \subseteq 1..Len(log) /\ Len(log) \in Nat BY DEF Followers, Typed
<1>2. IsFiniteSet(1..Len(log)) BY <1>1, FS_Interval
<1>3. IsFiniteSet(Followers(p)) BY <1>1, <1>2, FS_Subset
<1>4. Waiting(p) \subseteq Threads /\ IsFiniteSet(Threads)
  BY DEF Waiting, AdministrationAssumption
<1>5. IsFiniteSet(Waiting(p)) /\ Cardinality(Waiting(p)) <= Cardinality(Threads)
  BY <1>4, FS_Subset
<1> QED BY <1>3, <1>4, <1>5, FS_CardinalityType

\* A step in which nobody takes a head or appends.
LEMMA CalmFork ==
  ASSUME AdministrationAssumption, Typed, Typed', ForkInv, log' = log,
         \A u \in Threads : Calm(u)
  PROVE  ForkInv'
<1>1. ASSUME NEW p \in Nat
      PROVE  Cardinality(Followers(p))' + Cardinality(Waiting(p))' <= Cardinality(Threads)
  <2>1. Followers(p)' = Followers(p) BY DEF Followers
  <2>2. Waiting(p)' \subseteq Waiting(p) BY DEF Waiting, Calm
  <2>3. Cardinality(Waiting(p)') <= Cardinality(Waiting(p)) /\ Cardinality(Waiting(p)') \in Nat
    BY <2>2, ForkCounts, FS_Subset, FS_CardinalityType
  <2>4. Cardinality(Followers(p)) + Cardinality(Waiting(p)) <= Cardinality(Threads) BY DEF ForkInv
  <2>5. /\ Cardinality(Followers(p)) \in Nat /\ Cardinality(Waiting(p)) \in Nat
        /\ Cardinality(Threads) \in Nat
    BY ForkCounts
  <2>6. Cardinality(Followers(p)) + Cardinality(Waiting(p)') <= Cardinality(Threads)
    BY <2>3, <2>4, <2>5
  <2> QED BY <2>1, <2>6
<1>2. \A t \in Threads : thread'[t].pc = "append" => thread'[t].head <= Len(log')
  BY DEF ForkInv, Calm
<1> QED BY <1>1, <1>2 DEF ForkInv

\* A head that is read has no follower yet.
LEMMA ReadFork ==
  ASSUME AdministrationAssumption, Typed, Typed', ForkInv, NEW t \in Threads, ReadHead(t)
  PROVE  ForkInv'
<1> DEFINE n == [thread[t] EXCEPT !.pc = "append"]
           r == [n EXCEPT !.head = LogHead]
<1>1. thread[t] \in Request /\ Len(log) \in Nat /\ LogHead = Len(log) /\ log' = log
      /\ thread[t].pc = "audit"
  BY DEF Typed, LogHead, ReadHead, database
<1>2. thread' = [thread EXCEPT ![t] = r] BY DEF ReadHead
<1>3. n \in Request /\ n.pc = "append" BY <1>1 DEF Request
<1> HIDE DEF n
<1>4. r.pc = "append" /\ r.head = Len(log) BY <1>1, <1>3 DEF Request
<1> HIDE DEF r
<1>5. \A u \in Threads : thread'[u] = IF u = t THEN r ELSE thread[u] BY <1>2 DEF Typed
<1>6. \A u \in Threads : thread'[u].pc = "append" => thread'[u].head <= Len(log')
  BY <1>1, <1>4, <1>5 DEF ForkInv
<1>7. ASSUME NEW p \in Nat
      PROVE  Cardinality(Followers(p))' + Cardinality(Waiting(p))' <= Cardinality(Threads)
  <2>1. Followers(p)' = Followers(p) BY <1>1 DEF Followers
  <2>2. CASE p = Len(log)
    <3>1. Followers(p) = {}
      <4>0. DOMAIN log = 1..Len(log) /\ \A i \in DOMAIN log : log[i] \in Event
        BY <1>1 DEF Typed
      <4>1. \A i \in DOMAIN log : log[i].previous < i /\ i \in 1..Len(log)
                                 /\ log[i].previous \in Nat
        BY <1>1, <4>0 DEF ForkInv, Event
      <4> QED BY <1>1, <2>2, <4>1 DEF Followers
    <3>2. Cardinality(Followers(p)) = 0 BY <3>1, FS_EmptySet
    <3>3. Cardinality(Waiting(p)') \in Nat /\ Cardinality(Waiting(p)') <= Cardinality(Threads)
          /\ Cardinality(Threads) \in Nat
      <4>1. Waiting(p)' \subseteq Threads /\ IsFiniteSet(Threads)
        BY DEF Waiting, AdministrationAssumption
      <4> QED BY <4>1, FS_Subset, FS_CardinalityType
    <3> QED BY <2>1, <3>2, <3>3
  <2>3. CASE p # Len(log)
    <3>1. Waiting(p)' = Waiting(p)
      <4>1. \A u \in Threads : u \in Waiting(p)' <=> u \in Waiting(p)
        BY <1>1, <1>4, <1>5, <2>3 DEF Waiting
      <4> QED BY <4>1 DEF Waiting
    <3> QED BY <2>1, <3>1 DEF ForkInv
  <2> QED BY <2>2, <2>3
<1> QED BY <1>1, <1>6, <1>7 DEF ForkInv

\* Who appends stops waiting.
LEMMA AppendFork ==
  ASSUME AdministrationAssumption, Typed, Typed', ForkInv, NEW t \in Threads,
         AppendAuditEvent(t)
  PROVE  ForkInv'
<1> DEFINE h == thread[t].head
           e == [previous |-> h, id |-> thread[t].id,
                 failure |-> thread[t].kind = "login" /\ ~thread[t].good]
           k == Len(log) + 1
<1>1. thread[t] \in Request /\ h \in Nat /\ thread[t].pc = "append" /\ Len(log) \in Nat
      /\ h <= Len(log)
  <2>1. thread[t] \in Request /\ Len(log) \in Nat BY DEF Typed
  <2>2. thread[t].pc = "append" BY DEF AppendAuditEvent
  <2> QED BY <2>1, <2>2 DEF Request, ForkInv
<1>2. e \in Event /\ e.previous = h BY <1>1 DEF Event, Request
<1>3. log' = Append(log, e) /\ Done(t) BY DEF AppendAuditEvent
<1> HIDE DEF e
<1>4. /\ Len(log') = k /\ DOMAIN log' = 1..k /\ DOMAIN log = 1..Len(log)
      /\ \A i \in DOMAIN log : log'[i] = log[i]
      /\ log'[k] = e
  BY <1>2, <1>3 DEF Typed
<1>5. \A u \in Threads : thread'[u] = IF u = t THEN Idle ELSE thread[u] BY <1>3 DEF Typed, Done
<1>6. Idle.pc = "idle" BY DEF Idle
<1>7. \A u \in Threads : thread'[u].pc = "append" => thread'[u].head <= Len(log')
  <2> SUFFICES ASSUME NEW u \in Threads, thread'[u].pc = "append"
               PROVE  thread'[u].head <= Len(log')
    OBVIOUS
  <2>1. thread'[u] = thread[u] /\ thread[u].pc = "append" BY <1>5, <1>6
  <2>2. thread[u].head \in Nat /\ thread[u].head <= Len(log) BY <2>1 DEF ForkInv, Typed, Request
  <2> QED BY <1>1, <1>4, <2>1, <2>2
<1>8. \A i \in DOMAIN log' : log'[i].previous < i
  <2> SUFFICES ASSUME NEW i \in 1..k PROVE log'[i].previous < i
    BY <1>4
  <2>1. CASE i = k BY <1>1, <1>2, <1>4, <2>1
  <2>2. CASE i # k BY <1>1, <1>4, <2>2 DEF ForkInv
  <2> QED BY <2>1, <2>2
<1>9. ASSUME NEW p \in Nat
      PROVE  Cardinality(Followers(p))' + Cardinality(Waiting(p))' <= Cardinality(Threads)
  <2>0. /\ IsFiniteSet(Followers(p)) /\ Cardinality(Followers(p)) \in Nat
        /\ IsFiniteSet(Waiting(p)) /\ Cardinality(Waiting(p)) \in Nat
        /\ Cardinality(Threads) \in Nat
        /\ Cardinality(Followers(p)) + Cardinality(Waiting(p)) <= Cardinality(Threads)
    BY ForkCounts DEF ForkInv
  <2>1. CASE p = h
    <3>1. Followers(p)' = Followers(p) \cup {k}
      <4>1. \A i \in 1..k : i \in Followers(p)' <=> i \in Followers(p) \cup {k}
        BY <1>1, <1>2, <1>4, <2>1 DEF Followers
      <4>2. Followers(p)' \subseteq 1..k /\ Followers(p) \cup {k} \subseteq 1..k
        BY <1>1, <1>4 DEF Followers
      <4> QED BY <4>1, <4>2
    <3>2. k \notin Followers(p) BY <1>1, <1>4 DEF Followers
    <3>3. Waiting(p)' = Waiting(p) \ {t} /\ t \in Waiting(p)
      BY <1>1, <1>5, <1>6, <2>1 DEF Waiting
    <3>4. Cardinality(Followers(p) \cup {k}) = Cardinality(Followers(p)) + 1
      BY <2>0, <3>2, FS_AddElement
    <3>5. Cardinality(Waiting(p) \ {t}) = Cardinality(Waiting(p)) - 1
      BY <2>0, <3>3, FS_RemoveElement
    <3>6. Cardinality(Followers(p) \cup {k}) + Cardinality(Waiting(p) \ {t})
            <= Cardinality(Threads)
      BY <2>0, <3>4, <3>5
    <3> QED BY <3>1, <3>3, <3>6
  <2>2. CASE p # h
    <3>1. Followers(p)' = Followers(p)
      <4>1. \A i \in 1..k : i \in Followers(p)' <=> i \in Followers(p)
        BY <1>1, <1>2, <1>4, <2>2 DEF Followers
      <4>2. Followers(p)' \subseteq 1..k /\ Followers(p) \subseteq 1..k
        BY <1>1, <1>4 DEF Followers
      <4> QED BY <4>1, <4>2
    <3>2. Waiting(p)' = Waiting(p)
      BY <1>1, <1>5, <1>6, <2>2 DEF Waiting
    <3> QED BY <2>0, <3>1, <3>2
  <2> QED BY <2>1, <2>2
<1> QED BY <1>7, <1>8, <1>9 DEF ForkInv

\* No event of the audit log has more successors than there are threads, for any
\* number of requests, faults and events.
THEOREM ForkSafety == Spec => []ForksAreNarrow
<1>1. Init => IInv /\ ForkInv
  <2> SUFFICES ASSUME Init PROVE ForkInv
    BY InitIInv, AdministrationAssumption
  <2>1. log = <<>> /\ \A t \in Threads : thread[t].pc = "idle" BY DEF Init, Idle
  <2>2. \A p \in Nat : Followers(p) = {} /\ Waiting(p) = {} BY <2>1 DEF Followers, Waiting
  <2>3. Cardinality(Threads) \in Nat
    BY AdministrationAssumption, FS_CardinalityType DEF AdministrationAssumption
  <2>4. \A p \in Nat : Cardinality(Followers(p)) = 0 /\ Cardinality(Waiting(p)) = 0
    BY <2>2, FS_EmptySet
  <2>5. DOMAIN log = {} BY <2>1
  <2> QED BY <2>1, <2>3, <2>4, <2>5 DEF ForkInv
<1>2. (IInv /\ ForkInv) /\ [Next]_vars => (IInv /\ ForkInv)'
  <2> SUFFICES ASSUME IInv, ForkInv, [Next]_vars PROVE IInv' /\ ForkInv'
    OBVIOUS
  <2>1. IInv' BY StepIInv, AdministrationAssumption
  <2>2. Typed /\ Typed' BY <2>1 DEF IInv
  <2> QED BY <2>1, <2>2, Steps, CalmFork, ReadFork, AppendFork, AdministrationAssumption
<1>3. IInv /\ ForkInv => ForksAreNarrow
  <2> SUFFICES ASSUME IInv, ForkInv, NEW p \in 0..Len(log)
               PROVE  Cardinality(Followers(p)) <= Cardinality(Threads)
    BY DEF ForksAreNarrow, Followers
  <2>1. Typed /\ Len(log) \in Nat BY DEF IInv, Typed
  <2>2. p \in Nat BY <2>1
  <2> QED BY <2>1, <2>2, ForkCounts, AdministrationAssumption DEF ForkInv
<1> QED BY <1>1, <1>2, <1>3, PTL DEF Spec

-----------------------------------------------------------------------------
(* The rate limit.                                                         *)

LEMMA WindowIsPositive == Window \in Int /\ Window > 0 /\ Limit \in Nat /\ MaxTime \in Nat
  BY AdministrationAssumption DEF AdministrationAssumption

\* A time lies in its window, and later times in no earlier one.
LEMMA InWindow ==
  ASSUME NEW a \in Nat
  PROVE  /\ a \div Window \in Nat /\ Window * (a \div Window) \in Nat
         /\ Window * (a \div Window) <= a /\ a < Window * (a \div Window) + Window
<1> DEFINE n == Window
<1>1. n \in Int /\ n > 0 BY WindowIsPositive
<1> HIDE DEF n
<1>2. /\ a \div n \in Nat /\ n * (a \div n) \in Nat
      /\ n * (a \div n) <= a /\ a < n * (a \div n) + n
  BY <1>1
<1> QED BY <1>2 DEF n

LEMMA WindowsGrow ==
  ASSUME NEW p \in Nat, NEW q \in Nat
  PROVE  /\ Window * p \in Nat /\ Window * q \in Nat /\ (q + 1) * Window = Window * q + Window
         /\ q > p => Window * q >= Window * p + Window
         /\ q >= p => Window * q >= Window * p
<1> DEFINE n == Window
<1>1. n \in Nat /\ n > 0 BY WindowIsPositive
<1> HIDE DEF n
<1>2. n * p \in Nat /\ n * q \in Nat /\ (q + 1) * n = n * q + n BY <1>1
<1>3. ASSUME q > p PROVE n * q >= n * p + n
  <2>1. q = (p + 1) + (q - p - 1) /\ q - p - 1 \in Nat BY <1>3
  <2>2. n * q = n * (p + 1) + n * (q - p - 1) BY <1>1, <2>1
  <2>3. n * (q - p - 1) \in Nat BY <1>1, <2>1
  <2>4. n * (p + 1) = n * p + n BY <1>1
  <2> QED BY <1>1, <1>2, <2>2, <2>3, <2>4
<1>4. q >= p => n * q >= n * p BY <1>1, <1>2, <1>3
<1> QED BY <1>2, <1>3, <1>4 DEF n

LEMMA LaterWindow ==
  ASSUME NEW a \in Nat, NEW b \in Nat, a <= b
  PROVE  a \div Window <= b \div Window
<1> DEFINE p == b \div Window
           q == a \div Window
           bottom == Window * p
           top == Window * q
<1>1. /\ p \in Nat /\ q \in Nat /\ bottom \in Nat /\ top \in Nat
      /\ top <= a /\ b < bottom + Window
  BY InWindow
<1>2. q > p => top >= bottom + Window BY <1>1, WindowsGrow
<1>3. Window \in Int BY WindowIsPositive
<1> HIDE DEF p, q, bottom, top
<1>4. ~(q > p) BY <1>1, <1>2, <1>3
<1>5. q <= p BY <1>1, <1>4
<1> QED BY <1>5 DEF p, q

Counts == [Users -> [Windows -> Nat]]

\* The threads whose attempt is to be counted in window w.
Attempts(u, w) ==
  {t \in Threads : /\ thread[t].pc = "limit"
                   /\ thread[t].user = u /\ thread[t].anchor \div Window = w}

\* A row that is still there has counted everybody that was let through.  When it was
\* deleted its window was over: nobody can arrive in it any more, and whoever deleted it
\* is not among those that still wait.
Counted(u, w) ==
  \/ passed[u][w] + late[u][w] <= limits[u][w]
  \/ /\ (w + 1) * Window < now
     /\ passed[u][w] + late[u][w] + Cardinality(Attempts(u, w)) < Limit + Cardinality(Threads)

\* The rows that still matter have counted whoever was let through.
RateInv ==
  /\ now \in 0..MaxTime
  /\ limits \in Counts /\ passed \in Counts /\ late \in Counts
  /\ \A t \in Threads : thread[t].pc = "limit" => thread[t].anchor <= now
  /\ \A u \in Users, w \in Windows :
       /\ passed[u][w] <= Limit
       /\ w >= now \div Window => passed[u][w] <= limits[u][w]
       /\ limits[u][w] <= Limit
       /\ Counted(u, w)

LEMMA AttemptCounts ==
  ASSUME AdministrationAssumption, NEW u, NEW w, NEW S, S \subseteq Attempts(u, w)
  PROVE  /\ IsFiniteSet(S) /\ Cardinality(S) \in Nat
         /\ IsFiniteSet(Attempts(u, w)) /\ Cardinality(Attempts(u, w)) \in Nat
         /\ Cardinality(S) <= Cardinality(Attempts(u, w))
         /\ Cardinality(Threads) \in Nat
<1>1. Attempts(u, w) \subseteq Threads /\ IsFiniteSet(Threads)
  BY DEF Attempts, AdministrationAssumption
<1>2. IsFiniteSet(Attempts(u, w)) BY <1>1, FS_Subset
<1>3. IsFiniteSet(S) /\ Cardinality(S) <= Cardinality(Attempts(u, w)) BY <1>2, FS_Subset
<1> QED BY <1>1, <1>2, <1>3, FS_CardinalityType

\* The anchor of a thread that is to be counted stays in the past.
LEMMA CalmAnchors ==
  ASSUME Typed, Typed', RateInv, now' \in Nat, now <= now', \A u \in Threads : Anchored(u)
  PROVE  \A t \in Threads : thread'[t].pc = "limit" => thread'[t].anchor <= now'
<1> SUFFICES ASSUME NEW t \in Threads, thread'[t].pc = "limit"
             PROVE  thread'[t].anchor <= now'
  OBVIOUS
<1>1. thread[t].anchor \in Nat /\ now \in Nat BY DEF Typed, Request
<1>2. thread'[t].anchor = now \/ (thread[t].pc = "limit" /\ thread'[t].anchor = thread[t].anchor)
  BY DEF Anchored
<1> QED BY <1>1, <1>2 DEF RateInv

\* Nobody arrives in a window that is over.
LEMMA OverIsClosed ==
  ASSUME Typed, NEW u \in Users, NEW w \in Windows, (w + 1) * Window < now,
         \A t \in Threads : Anchored(t)
  PROVE  Attempts(u, w)' \subseteq Attempts(u, w)
<1> SUFFICES ASSUME NEW t \in Threads, thread'[t].pc = "limit", thread'[t].user = u,
                    thread'[t].anchor \div Window = w
             PROVE  t \in Attempts(u, w)
  BY DEF Attempts
<1>1. CASE thread[t].pc = "limit" /\ thread'[t] = thread[t] BY <1>1 DEF Attempts
<1>2. CASE thread'[t].anchor = now
  <2>1. now \in Nat /\ now \div Window = w BY <1>2 DEF Typed
  <2>2. w \in Nat /\ Window * w \in Nat /\ now < Window * w + Window BY <2>1, InWindow
  <2>3. (w + 1) * Window = Window * w + Window BY <2>2, WindowsGrow
  <2> DEFINE x == Window * w
             y == (w + 1) * Window
  <2>4. x \in Nat /\ now < x + Window /\ y = x + Window /\ y < now /\ Window \in Int
    BY <2>2, <2>3, WindowIsPositive
  <2> HIDE DEF x, y
  <2> QED BY <2>1, <2>4
<1> QED BY <1>1, <1>2 DEF Anchored

\* A step that counts nothing.
LEMMA UncountedRate ==
  ASSUME AdministrationAssumption, Typed, Typed', RateInv, UNCHANGED <<limits, passed, late>>,
         now' \in 0..MaxTime, now <= now', \A t \in Threads : Anchored(t)
  PROVE  RateInv'
<1>1. now \in Nat /\ now' \in Nat BY WindowIsPositive DEF Typed
<1>2. now \div Window \in Nat /\ now' \div Window \in Nat /\ now \div Window <= now' \div Window
  BY <1>1, InWindow, LaterWindow
<1>3. \A w \in Windows : w \in Nat BY <1>1, InWindow, WindowIsPositive DEF Windows
<1> DEFINE old == now \div Window
           new == now' \div Window
<1> HIDE DEF old, new
<1>4. \A w \in Windows : w >= new => w >= old BY <1>2, <1>3 DEF old, new
<1>5. \A u \in Users, w \in Windows :
        passed[u][w] <= Limit /\ (w >= new => passed[u][w] <= limits[u][w])
  BY <1>4 DEF RateInv, old
<1>6. \A t \in Threads : thread'[t].pc = "limit" => thread'[t].anchor <= now'
  BY <1>1, CalmAnchors
<1>7. ASSUME NEW u \in Users, NEW w \in Windows PROVE Counted(u, w)'
  <2> DEFINE total == passed[u][w] + late[u][w]
             end == (w + 1) * Window
             c == Cardinality(Attempts(u, w))
             d == Cardinality(Attempts(u, w)')
  <2>1. total \in Nat BY DEF RateInv, Counts
  <2>2. end \in Int BY <1>3, WindowIsPositive
  <2>3. CASE total <= limits[u][w] BY <2>3 DEF Counted
  <2>4. CASE end < now /\ total + c < Limit + Cardinality(Threads)
    <3>1. Attempts(u, w)' \subseteq Attempts(u, w) BY <2>4, OverIsClosed
    <3>2. c \in Nat /\ d \in Nat /\ d <= c /\ Cardinality(Threads) \in Nat
      BY <3>1, AttemptCounts
    <3> HIDE DEF total, end, c, d
    <3>3. end < now' /\ total + d < Limit + Cardinality(Threads)
      BY <1>1, <2>1, <2>2, <2>4, <3>2, WindowIsPositive
    <3> QED BY <3>3 DEF Counted, total, end, d
  <2> QED BY <2>3, <2>4 DEF RateInv, Counted
<1> QED BY <1>5, <1>6, <1>7 DEF RateInv, new

\* Counting an attempt deletes no row of this window or a later one.
LEMMA CountedRate ==
  ASSUME AdministrationAssumption, Typed, Typed', RateInv, NEW t \in Threads,
         ConsumeRateLimit(t), \A u \in Threads : Anchored(u)
  PROVE  RateInv'
<1> DEFINE u == thread[t].user
           a == thread[t].anchor
           w == a \div Window
           this == now \div Window
           allowed == limits[u][w] < Limit
           over(v) == (v + 1) * Window < a
           counted == [v \in Users |->
              IF v = u THEN RateLimit(u, w, a)
              ELSE [x \in Windows |-> IF over(x) THEN 0 ELSE limits[v][x]]]
<1>1. /\ thread[t] \in Request /\ thread[t].pc = "limit" /\ now' = now
      /\ limits' = counted
      /\ passed' = IF allowed /\ w = this THEN [passed EXCEPT ![u][w] = @ + 1] ELSE passed
      /\ late' = IF allowed /\ w # this THEN [late EXCEPT ![u][w] = @ + 1] ELSE late
      /\ thread'[t].pc # "limit"
  <2>1. thread[t] \in Request BY DEF Typed
  <2>2. Step(t, "authenticate") => thread'[t].pc # "limit" BY <2>1 DEF Step, Typed, Request
  <2>3. Done(t) => thread'[t].pc # "limit" BY DEF Done, Typed, Idle
  <2> QED BY <2>1, <2>2, <2>3 DEF ConsumeRateLimit
<1>2. u \in Users /\ a \in Nat /\ now \in Nat /\ a <= now /\ now <= MaxTime /\ Limit \in Nat
  <2>1. thread[t].user \in Users /\ thread[t].anchor \in Nat BY <1>1 DEF Request
  <2>2. now \in 0..MaxTime /\ thread[t].anchor <= now BY <1>1 DEF RateInv
  <2>3. MaxTime \in Nat /\ Limit \in Nat BY WindowIsPositive
  <2> QED BY <2>1, <2>2, <2>3
<1>3. this \in Nat /\ w \in Nat /\ w <= this /\ this \in Windows /\ w \in Windows
  <2>1. /\ this \in Nat /\ w \in Nat /\ w <= this /\ this <= MaxTime \div Window
        /\ MaxTime \div Window \in Nat
    BY <1>2, InWindow, LaterWindow, WindowIsPositive
  <2> HIDE DEF w, this
  <2> QED BY <2>1 DEF Windows
<1>4. ASSUME NEW v \in Nat, v >= this PROVE ~over(v)
  <2>1. /\ Window * this \in Nat /\ Window * v \in Nat /\ now < Window * this + Window
        /\ Window * v >= Window * this
        /\ (v + 1) * Window = Window * v + Window /\ Window \in Int
    BY <1>2, <1>3, <1>4, InWindow, WindowsGrow, WindowIsPositive
  <2> DEFINE x == Window * this
             y == Window * v
  <2>2. x \in Nat /\ y \in Nat /\ now < x + Window /\ y >= x /\ (v + 1) * Window = y + Window
        /\ Window \in Int
    BY <2>1
  <2> HIDE DEF x, y
  <2> QED BY <1>2, <2>2
<1> HIDE DEF this, w, over, allowed
<1>5. limits \in Counts /\ passed \in Counts /\ late \in Counts BY DEF RateInv
<1>6. ASSUME NEW v \in Users, NEW x \in Windows
      PROVE  /\ limits[v][x] \in Nat /\ passed[v][x] \in Nat /\ late[v][x] \in Nat /\ x \in Nat
             /\ counted[v][x] = IF over(x) THEN 0
                                ELSE IF v = u /\ x = w /\ allowed THEN limits[v][x] + 1
                                ELSE limits[v][x]
  <2>1. limits[v][x] \in Nat /\ passed[v][x] \in Nat /\ late[v][x] \in Nat BY <1>5 DEF Counts
  <2>2. x \in Nat BY WindowIsPositive, InWindow DEF Windows
  <2>3. CASE v = u
    <3>1. counted[v][x] = IF over(x) THEN 0
                          ELSE IF x = w /\ limits[u][w] < Limit THEN limits[u][w] + 1
                          ELSE limits[u][x]
      BY <2>3 DEF RateLimit, over
    <3> QED BY <2>1, <2>2, <2>3, <3>1 DEF allowed
  <2>4. CASE v # u BY <2>1, <2>2, <2>4
  <2> QED BY <2>3, <2>4
<1>7. counted \in Counts
  <2>1. \A v \in Users : counted[v] \in [Windows -> Nat]
    <3> TAKE v \in Users
    <3>1. counted[v] = [x \in Windows |-> counted[v][x]] BY DEF RateLimit
    <3>2. \A x \in Windows : counted[v][x] \in Nat BY <1>6
    <3> HIDE DEF counted
    <3> QED BY <3>1, <3>2
  <2>2. counted = [v \in Users |-> counted[v]] OBVIOUS
  <2> HIDE DEF counted
  <2> QED BY <2>1, <2>2 DEF Counts
<1> HIDE DEF counted, u, a
<1>8. passed' \in Counts /\ \A v \in Users, x \in Windows :
        passed'[v][x] = IF allowed /\ w = this /\ v = u /\ x = w THEN passed[v][x] + 1
                        ELSE passed[v][x]
  <2>1. CASE allowed /\ w = this
    <3>1. passed' = [passed EXCEPT ![u][w] = @ + 1] BY <1>1, <2>1
    <3>2. passed[u][w] + 1 \in Nat BY <1>2, <1>3, <1>6
    <3> QED BY <1>2, <1>3, <1>5, <2>1, <3>1, <3>2 DEF Counts
  <2>2. CASE ~(allowed /\ w = this) BY <1>1, <1>5, <2>2
  <2> QED BY <2>1, <2>2
<1>a. late' \in Counts /\ \A v \in Users, x \in Windows :
        late'[v][x] = IF allowed /\ w # this /\ v = u /\ x = w THEN late[v][x] + 1
                      ELSE late[v][x]
  <2>1. CASE allowed /\ w # this
    <3>1. late' = [late EXCEPT ![u][w] = @ + 1] BY <1>1, <2>1
    <3>2. late[u][w] + 1 \in Nat BY <1>2, <1>3, <1>6
    <3> QED BY <1>2, <1>3, <1>5, <2>1, <3>1, <3>2 DEF Counts
  <2>2. CASE ~(allowed /\ w # this) BY <1>1, <1>5, <2>2
  <2> QED BY <2>1, <2>2
<1>9. ASSUME NEW v \in Users, NEW x \in Windows
      PROVE  /\ passed'[v][x] <= Limit
             /\ x >= this => passed'[v][x] <= counted[v][x]
  <2>1. /\ passed[v][x] <= Limit /\ (x >= this => passed[v][x] <= limits[v][x])
    BY DEF RateInv, this
  <2>2. x >= this => ~over(x) BY <1>4, <1>6
  <2>3. CASE allowed /\ w = this /\ v = u /\ x = w
    <3>1. limits[v][x] < Limit BY <2>3 DEF allowed
    <3>2. x >= this BY <1>3, <2>3
    <3> QED BY <1>2, <1>6, <1>8, <2>1, <2>2, <2>3, <3>1, <3>2
  <2>4. CASE ~(allowed /\ w = this /\ v = u /\ x = w)
    <3>1. passed'[v][x] = passed[v][x] BY <1>8, <2>4
    <3>2. x >= this => limits[v][x] <= counted[v][x] BY <1>6, <2>2
    <3>3. counted[v][x] \in Nat BY <1>7 DEF Counts
    <3> QED BY <1>2, <1>6, <2>1, <3>1, <3>2, <3>3
  <2> QED BY <2>3, <2>4
<1>10. \A s \in Threads : thread'[s].pc = "limit" => thread'[s].anchor <= now'
  BY <1>1, <1>2, CalmAnchors
<1>11. ASSUME NEW v \in Users, NEW x \in Windows
       PROVE  counted[v][x] <= Limit /\ Counted(v, x)'
  <2> DEFINE total == passed[v][x] + late[v][x]
             after == passed'[v][x] + late'[v][x]
             end == (x + 1) * Window
             c == Cardinality(Attempts(v, x))
             d == Cardinality(Attempts(v, x)')
             n == Cardinality(Threads)
  <2>1. /\ total \in Nat /\ limits[v][x] \in Nat /\ counted[v][x] \in Nat /\ limits[v][x] <= Limit
        /\ passed[v][x] \in Nat /\ late[v][x] \in Nat /\ end \in Int
        /\ c \in Nat /\ n \in Nat
    <3>1. c \in Nat /\ n \in Nat BY AttemptCounts
    <3> QED BY <1>6, <1>7, <3>1, WindowIsPositive DEF RateInv, Counts
  <2>2. total <= limits[v][x] \/ (end < now /\ total + c < Limit + n)
    BY DEF RateInv, Counted
  <2>3. ASSUME end < now /\ total + c < Limit + n
        PROVE  Attempts(v, x)' \subseteq Attempts(v, x) \ {t} /\ d \in Nat /\ d <= c
    <3>1. Attempts(v, x)' \subseteq Attempts(v, x) BY <2>3, OverIsClosed
    <3>2. t \notin Attempts(v, x)' BY <1>1 DEF Attempts
    <3> QED BY <3>1, <3>2, AttemptCounts
  <2>4. after <= counted[v][x] \/ (end < now' /\ after + d < Limit + n) => Counted(v, x)'
    BY <1>1 DEF Counted
  <2>5. CASE over(x)
    <3>1. ~(v = u /\ x = w)
      <4>1. a < Window * w + Window /\ (w + 1) * Window = Window * w + Window /\ Window * w \in Nat
        BY <1>2, <1>3, InWindow, WindowsGrow DEF w
      <4> DEFINE y == Window * w
                 z == (w + 1) * Window
      <4>2. a < y + Window /\ z = y + Window /\ y \in Nat /\ Window \in Int
        BY <4>1, WindowIsPositive
      <4>3. over(w) <=> z < a BY DEF over
      <4> HIDE DEF y, z
      <4> QED BY <1>2, <2>5, <4>2, <4>3
    <3>2. after = total /\ counted[v][x] = 0 BY <1>6, <1>8, <1>a, <2>5, <3>1
    <3>3. end < now' BY <1>1, <1>2, <2>1, <2>5 DEF over
    <3>4. CASE total <= limits[v][x]
      <4>1. Attempts(v, x)' \subseteq Threads \ {t} BY <1>1 DEF Attempts
      <4>2. IsFiniteSet(Threads) BY DEF AdministrationAssumption
      <4>3. IsFiniteSet(Threads \ {t}) /\ Cardinality(Threads \ {t}) = n - 1
        BY <4>2, FS_RemoveElement
      <4>4. d <= n - 1 /\ d \in Nat BY <4>1, <4>3, FS_Subset, FS_CardinalityType
      <4> HIDE DEF total, after, end, c, d, n
      <4>5. after + d < Limit + n BY <1>2, <2>1, <3>2, <3>4, <4>4
      <4> QED BY <1>2, <2>4, <3>2, <3>3, <4>5
    <3>5. CASE end < now /\ total + c < Limit + n
      <4>1. d \in Nat /\ d <= c BY <2>3, <3>5
      <4> HIDE DEF total, after, end, c, d, n
      <4>2. after + d < Limit + n BY <1>2, <2>1, <3>2, <3>5, <4>1
      <4> QED BY <1>2, <2>4, <3>2, <3>3, <4>2
    <3> QED BY <2>2, <3>4, <3>5
  <2>6. CASE ~over(x) /\ v = u /\ x = w /\ allowed
    <3>1. after = total + 1 /\ counted[v][x] = limits[v][x] + 1 /\ limits[v][x] < Limit
      BY <1>6, <1>8, <1>a, <2>1, <2>6 DEF allowed
    <3>2. CASE total <= limits[v][x]
      <4> HIDE DEF total, after
      <4> QED BY <1>2, <2>1, <2>4, <3>1, <3>2
    <3>3. CASE end < now /\ total + c < Limit + n
      <4>1. t \in Attempts(v, x) BY <1>1, <2>6 DEF Attempts, u, a, w
      <4>2. IsFiniteSet(Attempts(v, x)) /\ IsFiniteSet(Attempts(v, x) \ {t})
        BY AttemptCounts
      <4>3. Cardinality(Attempts(v, x) \ {t}) = c - 1 BY <4>1, <4>2, FS_RemoveElement
      <4>4. d <= c - 1 /\ d \in Nat BY <2>3, <3>3, <4>2, <4>3, FS_Subset
      <4> HIDE DEF total, after, end, c, d, n
      <4>5. after + d < Limit + n BY <1>2, <2>1, <3>1, <3>3, <4>4
      <4> QED BY <1>1, <1>2, <2>1, <2>4, <3>1, <3>3, <4>5
    <3> QED BY <2>2, <3>2, <3>3
  <2>7. CASE ~over(x) /\ ~(v = u /\ x = w /\ allowed)
    <3>1. after = total /\ counted[v][x] = limits[v][x] BY <1>6, <1>8, <1>a, <2>7
    <3>2. CASE total <= limits[v][x]
      <4> HIDE DEF total, after
      <4> QED BY <2>1, <2>4, <3>1, <3>2
    <3>3. CASE end < now /\ total + c < Limit + n
      <4>1. d \in Nat /\ d <= c BY <2>3, <3>3
      <4> HIDE DEF total, after, end, c, d, n
      <4>2. after + d < Limit + n BY <1>2, <2>1, <3>1, <3>3, <4>1
      <4> QED BY <1>1, <2>1, <2>4, <3>1, <3>3, <4>2
    <3> QED BY <2>2, <3>2, <3>3
  <2> QED BY <2>5, <2>6, <2>7
<1> QED BY <1>1, <1>7, <1>8, <1>9, <1>10, <1>11, <1>a DEF RateInv, this

\* Nobody gets more than login_limit attempts at a password within one window, and with
\* those that waited past its end no more than the other threads in addition, for any
\* window, limit, number of users, threads and faults.
THEOREM RateSafety == Spec => []RateLimitHolds
<1>1. Init => IInv /\ RateInv
  <2> SUFFICES ASSUME Init PROVE RateInv
    BY InitIInv, AdministrationAssumption
  <2>1. /\ now = 0 /\ \A t \in Threads : thread[t].pc = "idle"
        /\ limits = [u \in Users |-> [w \in Windows |-> 0]]
        /\ passed = [u \in Users |-> [w \in Windows |-> 0]]
        /\ late = passed
    BY DEF Init, Idle
  <2> QED BY <2>1, WindowIsPositive DEF RateInv, Counts, Counted
<1>2. (IInv /\ RateInv) /\ [Next]_vars => (IInv /\ RateInv)'
  <2> SUFFICES ASSUME IInv, RateInv, [Next]_vars PROVE IInv' /\ RateInv'
    OBVIOUS
  <2>1. IInv' BY StepIInv, AdministrationAssumption
  <2>2. Typed /\ Typed' BY <2>1 DEF IInv
  <2>3. now \in 0..MaxTime /\ now \in Nat BY <2>2 DEF RateInv, Typed
  <2>4. ASSUME NEW t \in Threads, ReadHead(t) \/ AppendAuditEvent(t) PROVE RateInv'
    <3>1. UNCHANGED <<now, limits, passed, late>>
      BY <2>4 DEF ReadHead, AppendAuditEvent, database, history
    <3>2. \A u \in Threads : thread'[u].pc = "limit" => thread'[u] = thread[u]
      <4>1. \A u \in Threads : u # t => thread'[u] = thread[u]
        BY <2>2, <2>4 DEF ReadHead, AppendAuditEvent, Done, Typed
      <4>2. thread'[t].pc # "limit"
        <5>1. CASE AppendAuditEvent(t)
          BY <2>2, <5>1 DEF AppendAuditEvent, Done, Idle, Typed
        <5>2. CASE ReadHead(t)
          <6> DEFINE n == [thread[t] EXCEPT !.pc = "append"]
                     r == [n EXCEPT !.head = LogHead]
          <6>1. thread'[t] = r BY <2>2, <5>2 DEF ReadHead, Typed
          <6>2. n \in Request /\ n.pc = "append" BY <2>2 DEF Request, Typed
          <6> HIDE DEF n
          <6> QED BY <6>1, <6>2 DEF Request
        <5> QED BY <2>4, <5>1, <5>2
      <4> QED BY <4>1, <4>2
    <3> QED BY <2>2, <2>3, <3>1, <3>2, UncountedRate, AdministrationAssumption DEF Anchored
  <2>5. ASSUME \A u \in Threads : Calm(u), UNCHANGED <<limits, passed, late>>, now' = now \/ Tick
        PROVE  RateInv'
    <3>1. now' \in 0..MaxTime /\ now <= now' /\ now' \in Nat
      BY <2>3, <2>5, WindowIsPositive DEF Tick
    <3> QED BY <2>2, <2>5, <3>1, UncountedRate, AdministrationAssumption DEF Calm
  <2> QED BY <2>1, <2>2, <2>4, <2>5, Steps, CountedRate, AdministrationAssumption DEF Calm
<1>3. RateInv => RateLimitHolds
  <2> SUFFICES ASSUME RateInv, NEW u \in Users, NEW w \in Windows
               PROVE  passed[u][w] + late[u][w] < Limit + Cardinality(Threads)
    BY DEF RateInv, RateLimitHolds
  <2>1. /\ passed[u][w] \in Nat /\ late[u][w] \in Nat /\ limits[u][w] \in Nat
        /\ limits[u][w] <= Limit /\ Limit \in Nat /\ Counted(u, w)
    BY WindowIsPositive DEF RateInv, Counts
  <2>2. Cardinality(Attempts(u, w)) \in Nat /\ Cardinality(Threads) \in Nat
    BY AttemptCounts, AdministrationAssumption
  <2>3. Cardinality(Threads) # 0
    BY AdministrationAssumption, FS_EmptySet DEF AdministrationAssumption
  <2> QED BY <2>1, <2>2, <2>3 DEF Counted
<1> QED BY <1>1, <1>2, <1>3, PTL DEF Spec

-----------------------------------------------------------------------------
(* What a session is still good for after its logout.                      *)

Spent(s) == {e \in effects : e.revoked = s}
Ready(s) == {t \in Threads : thread[t].pc = "effect" /\ thread[t].session = s}

\* A revoked session lets nobody pass its check: its later changes are those of the
\* threads that were past it at the logout, and the thread that logged out is not one.
SessionInv ==
  /\ IsFiniteSet(effects)
  /\ \A t \in Threads :
       /\ thread[t].session \in DOMAIN sessions \cup {0}
       /\ thread[t].pc \in {"limit", "authenticate"} => thread[t].session = 0
  /\ \A s \in Nat \ {0} :
       IF s \in DOMAIN sessions /\ sessions[s].revoked
       THEN Cardinality(Spent(s)) + Cardinality(Ready(s)) < Cardinality(Threads)
       ELSE Spent(s) = {}

LEMMA SessionCounts ==
  ASSUME AdministrationAssumption, SessionInv, NEW s, NEW S, S \subseteq Ready(s)
  PROVE  /\ IsFiniteSet(Spent(s)) /\ Cardinality(Spent(s)) \in Nat
         /\ IsFiniteSet(Ready(s)) /\ Cardinality(Ready(s)) \in Nat
         /\ IsFiniteSet(S) /\ Cardinality(S) \in Nat
         /\ Cardinality(S) <= Cardinality(Ready(s))
         /\ Cardinality(Threads) \in Nat /\ Cardinality(Threads) > 0
<1>1. /\ Ready(s) \subseteq Threads /\ IsFiniteSet(Threads) /\ Threads # {}
      /\ Spent(s) \subseteq effects /\ IsFiniteSet(effects)
  BY DEF Ready, Spent, SessionInv, AdministrationAssumption
<1>2. IsFiniteSet(Ready(s)) /\ IsFiniteSet(Spent(s)) BY <1>1, FS_Subset
<1>3. IsFiniteSet(S) /\ Cardinality(S) <= Cardinality(Ready(s)) BY <1>2, FS_Subset
<1>4. Cardinality(Threads) # 0 BY <1>1, FS_EmptySet
<1> QED BY <1>1, <1>2, <1>3, <1>4, FS_CardinalityType

\* A thread that comes to its effect with a session has found it valid.
Checked(u) ==
  /\ thread'[u].session \in DOMAIN sessions \cup {0}
  /\ thread'[u].pc \in {"limit", "authenticate"} => thread'[u].session = 0
  /\ thread'[u].pc = "effect" =>
       \/ thread[u].pc = "effect" /\ thread'[u].session = thread[u].session
       \/ thread'[u].session = 0
       \/ ~sessions[thread'[u].session].revoked

\* Moves to a place where nothing is asked of the session, or where it was asked.
LEMMA MoveChecked ==
  ASSUME Typed, SessionInv, NEW t \in Threads, \A u \in Threads \ {t} : thread'[u] = thread[u],
         thread'[t].session \in {thread[t].session, 0},
         thread'[t].pc \in {"limit", "authenticate"} => thread[t].pc = "limit",
         thread'[t].pc = "effect" =>
           thread'[t].session = 0 \/ ~sessions[thread'[t].session].revoked
  PROVE  \A u \in Threads : Checked(u)
<1> SUFFICES ASSUME NEW u \in Threads PROVE Checked(u)
  OBVIOUS
<1>1. CASE u = t BY <1>1 DEF Checked, SessionInv
<1>2. CASE u # t BY <1>2 DEF Checked, SessionInv
<1> QED BY <1>1, <1>2

LEMMA StepChecked ==
  ASSUME Typed, SessionInv, NEW t \in Threads,
         NEW pc \in {"authenticate", "effect", "audit", "append"},
         NEW good \in BOOLEAN, NEW head \in Nat,
         \/ Step(t, pc)
         \/ thread' = [thread EXCEPT ![t] = [@ EXCEPT !.pc = pc, !.good = good]]
         \/ thread' = [thread EXCEPT ![t].pc = pc, ![t].head = head],
         pc = "authenticate" => thread[t].pc = "limit",
         pc = "effect" => thread[t].session = 0 \/ ~sessions[thread[t].session].revoked
  PROVE  \A u \in Threads : Checked(u)
<1> DEFINE n == [thread[t] EXCEPT !.pc = pc]
<1>1. thread[t] \in Request BY DEF Typed
<1>2. n \in Request /\ n.pc = pc /\ n.session = thread[t].session BY <1>1 DEF Request
<1>3. thread'[t] \in {n, [n EXCEPT !.good = good], [n EXCEPT !.head = head]}
      /\ \A u \in Threads \ {t} : thread'[u] = thread[u]
  <2>1. Step(t, pc) => /\ thread'[t] = n
                       /\ \A u \in Threads \ {t} : thread'[u] = thread[u]
    BY DEF Step, Typed
  <2>2. thread' = [thread EXCEPT ![t] = [@ EXCEPT !.pc = pc, !.good = good]] =>
          /\ thread'[t] = [n EXCEPT !.good = good]
          /\ \A u \in Threads \ {t} : thread'[u] = thread[u]
    BY DEF Typed
  <2>3. thread' = [thread EXCEPT ![t].pc = pc, ![t].head = head] =>
          /\ thread'[t] = [n EXCEPT !.head = head]
          /\ \A u \in Threads \ {t} : thread'[u] = thread[u]
    BY DEF Typed
  <2> HIDE DEF n
  <2> QED BY <2>1, <2>2, <2>3
<1> HIDE DEF n
<1>4. thread'[t].pc = pc /\ thread'[t].session = thread[t].session BY <1>2, <1>3 DEF Request
<1> QED BY <1>3, <1>4, MoveChecked

LEMMA DoneChecked ==
  ASSUME Typed, SessionInv, NEW t \in Threads, Done(t)
  PROVE  \A u \in Threads : Checked(u)
<1>1. thread'[t] = Idle /\ \A u \in Threads \ {t} : thread'[u] = thread[u] BY DEF Done, Typed
<1>2. Idle.pc = "idle" /\ Idle.session = 0 BY DEF Idle
<1> QED BY <1>1, <1>2, MoveChecked

\* Only an effect changes sessions and effects.
LEMMA SessionSteps ==
  ASSUME AdministrationAssumption, Typed, SessionInv, [Next]_vars
  PROVE  \/ \E t \in Threads : Effect(t) /\ ~Conflict(t)
         \/ (\A u \in Threads : Checked(u)) /\ UNCHANGED <<sessions, effects>>
<1>1. ASSUME NEW t \in Threads, Arrival(t)
      PROVE  (\A u \in Threads : Checked(u)) /\ UNCHANGED <<sessions, effects>>
  <2>1. PICK request \in Request :
          Arrive(t, request) /\ (Login(request) \/ WithSession(request))
    BY <1>1, Arrivals
  <2>2. PICK q \in Request :
          /\ \A u \in Threads : thread'[u] = IF u = t THEN q ELSE thread[u]
          /\ q.pc = request.pc /\ q.session = request.session
    BY <2>1, Arrived
  <2>3. \A u \in Threads : Checked(u)
    BY <2>1, <2>2 DEF Checked, SessionInv, Login, WithSession
  <2> QED BY <2>1, <2>3 DEF Arrive, database
<1>2. ASSUME NEW t \in Threads, ConsumeRateLimit(t)
      PROVE  (\A u \in Threads : Checked(u)) /\ UNCHANGED <<sessions, effects>>
  <2>1. Step(t, "authenticate") \/ Done(t) BY <1>2 DEF ConsumeRateLimit
  <2> QED BY <1>2, <2>1, StepChecked, DoneChecked DEF ConsumeRateLimit
<1>3. ASSUME NEW t \in Threads, Authenticate(t)
      PROVE  (\A u \in Threads : Checked(u)) /\ UNCHANGED <<sessions, effects>>
  <2>1. \/ Step(t, "effect")
        \/ thread' = [thread EXCEPT ![t] = [@ EXCEPT !.pc = "audit", !.good = FALSE]]
    BY <1>3 DEF Authenticate
  <2>2. thread[t].session = 0 BY <1>3 DEF Authenticate, SessionInv
  <2> QED BY <1>3, <2>1, <2>2, StepChecked DEF Authenticate, database, history
<1>4. ASSUME NEW t \in Threads, CheckSession(t)
      PROVE  (\A u \in Threads : Checked(u)) /\ UNCHANGED <<sessions, effects>>
  <2>1. (Step(t, "effect") /\ ~sessions[thread[t].session].revoked) \/ Done(t)
    BY <1>4 DEF CheckSession, ValidSession
  <2> QED BY <1>4, <2>1, StepChecked, DoneChecked DEF CheckSession, database, history
<1>5. ASSUME NEW t \in Threads, Effect(t), Conflict(t)
      PROVE  (\A u \in Threads : Checked(u)) /\ UNCHANGED <<sessions, effects>>
  BY <1>5, DoneChecked DEF Effect
<1>6. ASSUME NEW t \in Threads, ReadHead(t)
      PROVE  (\A u \in Threads : Checked(u)) /\ UNCHANGED <<sessions, effects>>
  <2>1. LogHead \in Nat BY DEF LogHead, Typed
  <2>2. thread' = [thread EXCEPT ![t].pc = "append", ![t].head = LogHead] BY <1>6 DEF ReadHead
  <2> QED BY <1>6, <2>1, <2>2, StepChecked DEF ReadHead, database, history
<1>7. ASSUME NEW t \in Threads, AppendAuditEvent(t) \/ Locked(t)
      PROVE  (\A u \in Threads : Checked(u)) /\ UNCHANGED <<sessions, effects>>
  BY <1>7, DoneChecked DEF AppendAuditEvent, Locked, database, history
<1>8. CASE Restart
  <2>1. \A u \in Threads : thread'[u].pc = "idle" /\ thread'[u].session = 0
    BY <1>8 DEF Restart, Idle
  <2> QED BY <1>8, <2>1 DEF Restart, Checked, database
<1>9. CASE Tick \/ Horizon \/ UNCHANGED vars
  BY <1>9 DEF Tick, Horizon, vars, database, history, Checked, SessionInv
<1> QED BY <1>1, <1>2, <1>3, <1>4, <1>5, <1>6, <1>7, <1>8, <1>9 DEF Next, Handle, Arrival

\* A step without an effect brings nobody to an effect with a revoked session.
LEMMA CheckedSession ==
  ASSUME AdministrationAssumption, Typed, SessionInv, \A u \in Threads : Checked(u),
         UNCHANGED <<sessions, effects>>
  PROVE  SessionInv'
<1>1. ASSUME NEW s \in Nat \ {0}
      PROVE  IF s \in DOMAIN sessions' /\ sessions'[s].revoked
             THEN Cardinality(Spent(s)') + Cardinality(Ready(s)') < Cardinality(Threads)
             ELSE Spent(s)' = {}
  <2>1. Spent(s)' = Spent(s) BY DEF Spent
  <2>2. CASE s \in DOMAIN sessions /\ sessions[s].revoked
    <3>1. Ready(s)' \subseteq Ready(s) BY <2>2 DEF Ready, Checked
    <3>2. /\ Cardinality(Ready(s)') <= Cardinality(Ready(s)) /\ Cardinality(Ready(s)') \in Nat
          /\ Cardinality(Ready(s)) \in Nat /\ Cardinality(Spent(s)) \in Nat
          /\ Cardinality(Threads) \in Nat
      BY <3>1, SessionCounts
    <3>3. Cardinality(Spent(s)) + Cardinality(Ready(s)) < Cardinality(Threads)
      BY <2>2 DEF SessionInv
    <3>4. Cardinality(Spent(s)) + Cardinality(Ready(s)') < Cardinality(Threads)
      BY <3>2, <3>3
    <3> QED BY <2>1, <2>2, <3>4
  <2>3. CASE ~(s \in DOMAIN sessions /\ sessions[s].revoked)
    BY <2>1, <2>3 DEF SessionInv
  <2> QED BY <2>2, <2>3
<1>2. IsFiniteSet(effects') BY DEF SessionInv
<1>3. \A t \in Threads :
        /\ thread'[t].session \in DOMAIN sessions' \cup {0}
        /\ thread'[t].pc \in {"limit", "authenticate"} => thread'[t].session = 0
  BY DEF Checked
<1> QED BY <1>1, <1>2, <1>3 DEF SessionInv

\* What an effect does to the sessions: it adds a valid one, or revokes its own.
LEMMA EffectOnSessions ==
  ASSUME AdministrationAssumption, Typed, NEW t \in Threads, Effect(t), ~Conflict(t)
  PROVE  /\ Effected(t) \/ effects' = effects
         /\ DOMAIN sessions \subseteq DOMAIN sessions'
         /\ \A s \in DOMAIN sessions :
              s # thread[t].session => sessions'[s].revoked = sessions[s].revoked
         /\ \A s \in DOMAIN sessions : sessions[s].revoked => sessions'[s].revoked
         /\ \A s \in DOMAIN sessions' : s \in DOMAIN sessions \/ ~sessions'[s].revoked
<1>1. sessions \in Seq(Session) /\ thread[t] \in Request BY DEF Typed
<1>2. \A s \in DOMAIN sessions : sessions[s] \in Session BY <1>1
<1>3. CASE thread[t].kind = "login"
  <2> DEFINE new == [role |-> users[thread[t].user], expires |-> now + TTL, revoked |-> FALSE]
  <2>1. Effected(t) /\ sessions' = Append(sessions, new) BY <1>3 DEF Effect, CreateSession
  <2>2. new.revoked = FALSE OBVIOUS
  <2> HIDE DEF new
  <2>3. /\ DOMAIN sessions = 1..Len(sessions) /\ DOMAIN sessions' = 1..(Len(sessions) + 1)
        /\ Len(sessions) \in Nat /\ sessions'[Len(sessions) + 1] = new
        /\ \A s \in DOMAIN sessions : sessions'[s] = sessions[s]
    BY <1>1, <2>1
  <2> QED BY <2>1, <2>2, <2>3
<1>4. CASE thread[t].kind = "logout"
  <2>1. Effected(t) /\ sessions' = [sessions EXCEPT ![thread[t].session] =
                                     [sessions[thread[t].session] EXCEPT !.revoked = TRUE]]
    BY <1>4 DEF Effect, RevokeSession
  <2>2. \A s \in DOMAIN sessions : [sessions[s] EXCEPT !.revoked = TRUE].revoked = TRUE
    BY <1>2 DEF Session
  <2>3. DOMAIN sessions' = DOMAIN sessions
        /\ \A s \in DOMAIN sessions : sessions'[s] =
              IF s = thread[t].session THEN [sessions[s] EXCEPT !.revoked = TRUE] ELSE sessions[s]
    BY <2>1
  <2> QED BY <2>1, <2>2, <2>3
<1>5. CASE thread[t].kind \notin {"login", "logout"}
  <2>1. sessions' = sessions /\ (Effected(t) \/ effects' = effects)
    BY <1>5 DEF Effect, CreateUser
  <2> QED BY <2>1
<1> QED BY <1>3, <1>4, <1>5

LEMMA EffectSession ==
  ASSUME AdministrationAssumption, Typed, SessionInv, NEW t \in Threads, Effect(t), ~Conflict(t)
  PROVE  SessionInv'
<1> DEFINE own == thread[t].session
           e == [id |-> thread[t].id, dead |-> thread[t].dead, revoked |-> Revoked(t)]
<1>1. /\ Effected(t) \/ effects' = effects
      /\ DOMAIN sessions \subseteq DOMAIN sessions'
      /\ \A s \in DOMAIN sessions : s # own => sessions'[s].revoked = sessions[s].revoked
      /\ \A s \in DOMAIN sessions : sessions[s].revoked => sessions'[s].revoked
      /\ \A s \in DOMAIN sessions' : s \in DOMAIN sessions \/ ~sessions'[s].revoked
  BY EffectOnSessions
<1>2. effects' = effects \cup {e} \/ effects' = effects BY <1>1 DEF Effected
<1>3. /\ e.revoked = IF own # 0 /\ sessions[own].revoked THEN own ELSE 0
      /\ own \in DOMAIN sessions \cup {0}
  BY DEF Revoked, SessionInv
<1>4. /\ thread[t].pc = "effect" /\ thread'[t].pc = "audit" /\ thread'[t].session = own
      /\ \A u \in Threads \ {t} : thread'[u] = thread[u]
  <2>1. thread[t] \in Request BY DEF Typed
  <2> QED BY <2>1 DEF Effect, AfterEffect, Step, Typed, Request
<1> HIDE DEF e, own
<1>5. IsFiniteSet(effects') BY <1>2, FS_AddElement DEF SessionInv
<1>6. \A u \in Threads :
        /\ thread'[u].session \in DOMAIN sessions' \cup {0}
        /\ thread'[u].pc \in {"limit", "authenticate"} => thread'[u].session = 0
  BY <1>1, <1>3, <1>4 DEF SessionInv
<1>7. ASSUME NEW s \in Nat \ {0}
      PROVE  IF s \in DOMAIN sessions' /\ sessions'[s].revoked
             THEN Cardinality(Spent(s)') + Cardinality(Ready(s)') < Cardinality(Threads)
             ELSE Spent(s)' = {}
  <2> DEFINE a == Cardinality(Spent(s))
             b == Cardinality(Ready(s))
             c == Cardinality(Spent(s)')
             d == Cardinality(Ready(s)')
             n == Cardinality(Threads)
  <2>1. Spent(s)' \subseteq Spent(s) \cup {e} /\ (e.revoked # s => Spent(s)' \subseteq Spent(s))
    BY <1>2 DEF Spent
  <2>2. Ready(s)' = Ready(s) \ {t} BY <1>4 DEF Ready
  <2>3. /\ IsFiniteSet(Spent(s)) /\ a \in Nat /\ b \in Nat /\ d \in Nat /\ d <= b
        /\ n \in Nat /\ n > 0 /\ IsFiniteSet(Ready(s))
    BY <2>2, SessionCounts
  <2>4. CASE s \in DOMAIN sessions /\ sessions[s].revoked
    <3>1. a + b < n BY <2>4 DEF SessionInv
    <3>2. CASE e.revoked # s
      <4>1. c <= a /\ c \in Nat BY <2>1, <2>3, <3>2, FS_Subset, FS_CardinalityType
      <4> HIDE DEF a, b, c, d, n
      <4>2. c + d < n BY <2>3, <3>1, <4>1
      <4> QED BY <1>1, <2>4, <4>2 DEF c, d, n
    <3>3. CASE e.revoked = s
      <4>1. own = s BY <1>3, <3>3
      <4>2. t \in Ready(s) BY <1>4, <4>1 DEF Ready, own
      <4>3. d = b - 1 BY <2>2, <2>3, <4>2, FS_RemoveElement
      <4>4. IsFiniteSet(Spent(s) \cup {e}) /\ Cardinality(Spent(s) \cup {e}) <= a + 1
        <5>1. /\ IsFiniteSet(Spent(s) \cup {e})
              /\ \/ Cardinality(Spent(s) \cup {e}) = Cardinality(Spent(s))
                 \/ Cardinality(Spent(s) \cup {e}) = Cardinality(Spent(s)) + 1
          BY <2>3, FS_AddElement
        <5> HIDE DEF a
        <5>2. Cardinality(Spent(s) \cup {e}) = a \/ Cardinality(Spent(s) \cup {e}) = a + 1
          BY <5>1 DEF a
        <5> QED BY <2>3, <5>1, <5>2
      <4>5. c <= Cardinality(Spent(s) \cup {e}) /\ c \in Nat
            /\ Cardinality(Spent(s) \cup {e}) \in Nat
        BY <2>1, <4>4, FS_Subset, FS_CardinalityType
      <4>6. c <= a + 1 BY <2>3, <4>4, <4>5
      <4> HIDE DEF a, b, c, d, n
      <4>7. c + d < n BY <2>3, <3>1, <4>3, <4>5, <4>6
      <4> QED BY <1>1, <2>4, <4>7 DEF c, d, n
    <3> QED BY <3>2, <3>3
  <2>5. CASE ~(s \in DOMAIN sessions /\ sessions[s].revoked)
    <3>1. e.revoked # s BY <1>3, <2>5
    <3>2. Spent(s)' = {} BY <2>1, <2>5, <3>1 DEF SessionInv
    <3>3. c = 0 BY <3>2, FS_EmptySet
    <3>4. Ready(s)' \subseteq Threads \ {t} BY <2>2 DEF Ready
    <3>5. IsFiniteSet(Threads) BY DEF AdministrationAssumption
    <3>6. IsFiniteSet(Threads \ {t}) /\ Cardinality(Threads \ {t}) = n - 1
      BY <3>5, FS_RemoveElement
    <3>7. d <= n - 1 BY <3>4, <3>6, FS_Subset
    <3> HIDE DEF a, b, c, d, n
    <3>8. c + d < n BY <2>3, <3>3, <3>7
    <3> QED BY <3>2, <3>8 DEF c, d, n
  <2> QED BY <2>4, <2>5
<1> QED BY <1>5, <1>6, <1>7 DEF SessionInv

\* A session that was logged out before a request arrived changes nothing through it,
\* and after its logout it is good for one change of each other thread at most
\* (_session, revoke_session), for any number of threads, requests and faults.
THEOREM LogoutSafety == Spec => []LogoutIsFinal
<1>1. Init => IInv /\ SessionInv
  <2> SUFFICES ASSUME Init PROVE SessionInv
    BY InitIInv, AdministrationAssumption
  <2>1. /\ effects = {} /\ sessions = <<>>
        /\ \A t \in Threads : thread[t].session = 0
    BY DEF Init, Idle
  <2>2. IsFiniteSet(effects) /\ DOMAIN sessions = {} /\ \A s \in Nat : Spent(s) = {}
    BY <2>1, FS_EmptySet DEF Spent
  <2> QED BY <2>1, <2>2 DEF SessionInv
<1>2. (IInv /\ SessionInv) /\ [Next]_vars => (IInv /\ SessionInv)'
  <2> SUFFICES ASSUME IInv, SessionInv, [Next]_vars PROVE IInv' /\ SessionInv'
    OBVIOUS
  <2>1. IInv' BY StepIInv, AdministrationAssumption
  <2>2. Typed BY DEF IInv
  <2> QED BY <2>1, <2>2, SessionSteps, CheckedSession, EffectSession, AdministrationAssumption
<1>3. IInv /\ SessionInv => LogoutIsFinal
  <2> SUFFICES ASSUME IInv, SessionInv, NEW s \in DOMAIN sessions
               PROVE  Cardinality(Spent(s)) < Cardinality(Threads)
    BY DEF LogoutIsFinal, Spent, IInv, NoneDead
  <2>1. sessions \in Seq(Session) BY DEF IInv, Typed
  <2>2. s \in Nat \ {0} BY <2>1
  <2>3. /\ Cardinality(Spent(s)) \in Nat /\ Cardinality(Ready(s)) \in Nat
        /\ Cardinality(Threads) \in Nat /\ Cardinality(Threads) > 0
    BY SessionCounts, AdministrationAssumption
  <2>4. Spent(s) = {} => Cardinality(Spent(s)) = 0 BY FS_EmptySet
  <2> QED BY <2>2, <2>3, <2>4 DEF SessionInv
<1> QED BY <1>1, <1>2, <1>3, PTL DEF Spec
=============================================================================
