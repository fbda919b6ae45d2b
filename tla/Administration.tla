---------------------------- MODULE Administration ----------------------------
(***************************************************************************)
(* The administration API: one thread per request (server/runtime.py),     *)
(* each handler (api/application.py) a sequence of transactions of         *)
(* security/foundation.py: a login is counted against its rate limit,      *)
(* authenticated and given a session; a change is made under a session     *)
(* that was checked before; every effect is followed by an audit event     *)
(* that is chained to the head of the log, which is read outside the       *)
(* transaction that inserts the event.                                     *)
(*                                                                         *)
(* A session is its position in the table.  An audit event's hash is its   *)
(* position in the log, 0 is GENESIS.                                      *)
(***************************************************************************)
EXTENDS Naturals, Sequences, FiniteSets

CONSTANTS
  Threads,     \* request handlers that run at the same time
  Users,       \* user names
  Root,        \* the user that bootstrap created
  Limit,       \* login_limit
  Window,      \* login_window_seconds
  TTL,         \* lifetime of a session
  MaxTime,     \* bound on the clock
  MaxRequests, \* bound on the requests that arrive
  MaxFaults    \* bound on locked databases and killed servers

ASSUME AdministrationAssumption ==
  /\ Root \in Users
  /\ Limit \in Nat /\ Window \in Nat \ {0} /\ TTL \in Nat
  /\ MaxTime \in Nat /\ MaxRequests \in Nat /\ MaxFaults \in Nat
  /\ IsFiniteSet(Threads) /\ Threads # {}

VARIABLES
  now,
  users,     \* users_v1: name -> role, "none" if absent
  sessions,  \* sessions_v1
  limits,    \* security_rate_limits_v1: name -> window -> count, 0 if absent
  log,       \* security_audit_log_v1
  thread,    \* the request that each thread handles
  arrived,   \* history: number of requests
  effects,   \* history: the changes that were committed
  passed,    \* history: logins let through in the window they were counted in
  late,      \* history: logins let through after the window they were counted in
  faults     \* history: requests whose handler failed

database == <<users, sessions, limits, log>>
history == <<arrived, effects, passed, late, faults>>
vars == <<now, database, thread, history>>

Roles == {"admin", "operator", "viewer"}
Changes == {"user", "enrollment", "message"}
Kinds == {"login", "logout"} \cup Changes
Windows == 0..(MaxTime \div Window)
Idle == [pc |-> "idle", id |-> 0, kind |-> "login", user |-> Root, good |-> FALSE,
         role |-> "admin", session |-> 0, anchor |-> 0, head |-> 0, dead |-> FALSE]

Init ==
  /\ now = 0
  /\ users = [u \in Users |-> IF u = Root THEN "admin" ELSE "none"]
  /\ sessions = <<>> /\ log = <<>>
  /\ limits = [u \in Users |-> [w \in Windows |-> 0]]
  /\ thread = [t \in Threads |-> Idle]
  /\ arrived = 0 /\ effects = {} /\ faults = {}
  /\ passed = [u \in Users |-> [w \in Windows |-> 0]] /\ late = passed

Step(t, pc) == thread' = [thread EXCEPT ![t].pc = pc]
Done(t) == thread' = [thread EXCEPT ![t] = Idle]

-----------------------------------------------------------------------------
(* Requests.                                                               *)

Arrive(t, request) ==
  /\ thread[t].pc = "idle" /\ arrived < MaxRequests
  /\ arrived' = arrived + 1
  /\ thread' = [thread EXCEPT ![t] = [request EXCEPT !.id = arrived + 1, !.anchor = now]]
  /\ UNCHANGED <<now, database, effects, passed, late, faults>>

ArriveLogin(t, u, good) ==
  Arrive(t, [Idle EXCEPT !.pc = "limit", !.user = u, !.good = good])

\* The session of the request may be one that is no longer valid.
ArriveWith(t, s, request) ==
  Arrive(t, [request EXCEPT !.pc = "check", !.session = s, !.dead = sessions[s].revoked])

ArriveLogout(t, s) == ArriveWith(t, s, [Idle EXCEPT !.kind = "logout"])

ArriveCreateUser(t, s, u, role) ==
  ArriveWith(t, s, [Idle EXCEPT !.kind = "user", !.user = u, !.role = role])

ArriveGrant(t, s, kind) == ArriveWith(t, s, [Idle EXCEPT !.kind = kind])

\* Mutated form: rows are deleted too early.
RateLimit_DeletesEarly(u, w, anchor) ==
  [v \in Windows |-> IF v * Window < anchor THEN 0
                     ELSE IF v = w /\ limits[u][w] < Limit THEN limits[u][w] + 1
                     ELSE limits[u][v]]

\* The rows of one key after an attempt in window w: counted while below the limit,
\* then the expired rows of every key are deleted.
RateLimit(u, w, anchor) ==
  [v \in Windows |-> IF (v + 1) * Window < anchor THEN 0
                     ELSE IF v = w /\ limits[u][w] < Limit THEN limits[u][w] + 1
                     ELSE limits[u][v]]

\* consume_rate_limit: the time was read before the transaction could begin.
ConsumeRateLimit(t) ==
  /\ thread[t].pc = "limit"
  /\ LET u == thread[t].user
         anchor == thread[t].anchor
         w == anchor \div Window
         allowed == limits[u][w] < Limit
     IN /\ limits' = [v \in Users |->
              IF v = u THEN RateLimit(u, w, anchor)
              ELSE [x \in Windows |-> IF (x + 1) * Window < anchor THEN 0 ELSE limits[v][x]]]
        /\ IF allowed THEN Step(t, "authenticate") ELSE Done(t)
        /\ passed' = IF allowed /\ w = now \div Window
                     THEN [passed EXCEPT ![u][w] = @ + 1] ELSE passed
        /\ late' = IF allowed /\ w # now \div Window
                   THEN [late EXCEPT ![u][w] = @ + 1] ELSE late
  /\ UNCHANGED <<now, users, sessions, log, arrived, effects, faults>>

\* authenticate_user; a refused login is audited before its 401.
Authenticate(t) ==
  /\ thread[t].pc = "authenticate"
  /\ IF thread[t].good /\ users[thread[t].user] # "none"
     THEN Step(t, "effect")
     ELSE thread' = [thread EXCEPT ![t] = [@ EXCEPT !.pc = "audit", !.good = FALSE]]
  /\ UNCHANGED <<now, database, history>>

\* Mutated form: revoked_at is not read.
ValidSession_Revoked(s) == sessions[s].expires > now

\* validate_session and verify_csrf
ValidSession(s) == ~sessions[s].revoked /\ sessions[s].expires > now

Allowed(kind) == CASE kind = "logout" -> Roles
                   [] kind = "message" -> {"admin", "operator"}
                   [] OTHER -> {"admin"}

CheckSession(t) ==
  /\ thread[t].pc = "check"
  /\ LET s == thread[t].session
     IN IF ValidSession(s) /\ sessions[s].role \in Allowed(thread[t].kind)
        THEN Step(t, "effect") ELSE Done(t)
  /\ UNCHANGED <<now, database, history>>

-----------------------------------------------------------------------------
(* Effects, each in a transaction of its own.                              *)

\* The session that a request uses although it was revoked meanwhile, 0 if it was not.
Revoked(t) ==
  LET s == thread[t].session IN IF s # 0 /\ sessions[s].revoked THEN s ELSE 0

Effected(t) ==
  effects' = effects \cup
    {[id |-> thread[t].id, dead |-> thread[t].dead, revoked |-> Revoked(t)]}

CreateSession(t) ==
  /\ sessions' = Append(sessions, [role |-> users[thread[t].user],
                                   expires |-> now + TTL, revoked |-> FALSE])
  /\ UNCHANGED users

RevokeSession(t) ==
  /\ sessions' = [sessions EXCEPT ![thread[t].session].revoked = TRUE]
  /\ UNCHANGED users

CreateUser(t) ==
  /\ users' = [users EXCEPT ![thread[t].user] = thread[t].role]
  /\ UNCHANGED sessions

\* UNIQUE(organization_id, username): 409, and nothing is audited.
Conflict(t) == thread[t].kind = "user" /\ users[thread[t].user] # "none"

\* Mutated form: the handler that queues messages forgets to audit.
AfterEffect_NotAudited(t) == IF thread[t].kind = "message" THEN Done(t) ELSE Step(t, "audit")

AfterEffect(t) == Step(t, "audit")

Effect(t) ==
  /\ thread[t].pc = "effect"
  /\ IF Conflict(t) THEN Done(t) /\ UNCHANGED <<users, sessions, effects>>
     ELSE /\ AfterEffect(t)
          /\ CASE thread[t].kind = "login" -> CreateSession(t) /\ Effected(t)
               [] thread[t].kind = "logout" -> RevokeSession(t) /\ Effected(t)
               [] thread[t].kind = "user" /\ users[thread[t].user] = "none" ->
                    CreateUser(t) /\ Effected(t)
               [] thread[t].kind \in {"enrollment", "message"} ->
                    UNCHANGED <<users, sessions>> /\ Effected(t)
               [] OTHER -> UNCHANGED <<users, sessions, effects>>
  /\ UNCHANGED <<now, limits, log, arrived, passed, late, faults>>

\* Mutated form: the event before the newest is read.
LogHead_Late == IF log = <<>> THEN 0 ELSE Len(log) - 1

LogHead == Len(log)

\* append_audit_event: a SELECT ...
ReadHead(t) ==
  /\ thread[t].pc = "audit"
  /\ thread' = [thread EXCEPT ![t].pc = "append", ![t].head = LogHead]
  /\ UNCHANGED <<now, database, history>>

\* ... and then an INSERT.
AppendAuditEvent(t) ==
  /\ thread[t].pc = "append"
  /\ log' = Append(log, [previous |-> thread[t].head, id |-> thread[t].id,
                         failure |-> thread[t].kind = "login" /\ ~thread[t].good])
  /\ Done(t)
  /\ UNCHANGED <<now, users, sessions, limits, history>>

-----------------------------------------------------------------------------
(* Faults and time.                                                        *)

\* A transaction finds the database locked for too long: 500.
Locked(t) ==
  /\ thread[t].pc \in {"limit", "effect", "append"}
  /\ Cardinality(faults) < MaxFaults
  /\ faults' = faults \cup {thread[t].id}
  /\ Done(t)
  /\ UNCHANGED <<now, database, arrived, effects, passed, late>>

\* The server is killed and started again: what was committed stays.
Restart ==
  /\ Cardinality(faults) < MaxFaults
  /\ \E t \in Threads : thread[t].pc # "idle"
  /\ faults' = faults \cup {thread[t].id : t \in {u \in Threads : thread[u].pc # "idle"}}
  /\ thread' = [t \in Threads |-> Idle]
  /\ UNCHANGED <<now, database, arrived, effects, passed, late>>

Tick ==
  /\ now < MaxTime
  /\ now' = now + 1
  /\ UNCHANGED <<database, thread, history>>

\* The requests and the clock are bounded: a run ends when all are answered.
Horizon ==
  /\ arrived = MaxRequests /\ now = MaxTime
  /\ \A t \in Threads : thread[t].pc = "idle"
  /\ UNCHANGED vars

Handle(t) ==
  \/ ConsumeRateLimit(t) \/ Authenticate(t) \/ CheckSession(t)
  \/ Effect(t) \/ ReadHead(t) \/ AppendAuditEvent(t)

Next ==
  \/ \E t \in Threads :
       \/ \E u \in Users, good \in BOOLEAN : ArriveLogin(t, u, good)
       \/ \E s \in DOMAIN sessions :
            \/ ArriveLogout(t, s)
            \/ \E u \in Users, role \in Roles : ArriveCreateUser(t, s, u, role)
            \/ \E kind \in {"enrollment", "message"} : ArriveGrant(t, s, kind)
       \/ Handle(t) \/ Locked(t)
  \/ Restart \/ Tick \/ Horizon

Spec == Init /\ [][Next]_vars

-----------------------------------------------------------------------------
(* Properties.                                                             *)

Audited == {log[i].id : i \in DOMAIN log}
Effective == {e.id : e \in effects}
Handled == {thread[t].id : t \in Threads}

\* An audit event of a success reports a change that was committed, whatever other
\* requests did to the same row in the meantime.
AuditIsTrue == \A i \in DOMAIN log : ~log[i].failure => log[i].id \in Effective

\* A change is in the audit log, or its handler is about to write it there, or that
\* handler failed between its two transactions.
UnauditedOnlyByFault == Effective \subseteq Audited \cup Handled \cup faults

\* The audit log and the database tell the same story: no event without its change, and
\* no change without its event unless the handler failed between the two.
AuditMatchesChanges == AuditIsTrue /\ UnauditedOnlyByFault

\* Within a window no more than login_limit attempts of a user get to the password
\* check.  Attempts that wait for the lock past the end of their window may find its row
\* deleted and count from one again, but no more of them than the other handlers that
\* were at work when the row was deleted.
RateLimitHolds == \A u \in Users, w \in Windows :
  /\ passed[u][w] <= Limit
  /\ passed[u][w] + late[u][w] < Limit + Cardinality(Threads)

\* A request that arrives with a session already logged out changes nothing, and after
\* the logout the session is good for one more change of each other handler at most:
\* those that had checked it before.
LogoutIsFinal ==
  /\ \A e \in effects : ~e.dead
  /\ \A s \in DOMAIN sessions :
       Cardinality({e \in effects : e.revoked = s}) < Cardinality(Threads)

\* The audit log may fork, but no further than there are concurrent handlers: a
\* handler that appended never again takes an older event for the head.
ForksAreNarrow == \A p \in 0..Len(log) :
  Cardinality({i \in DOMAIN log : log[i].previous = p}) <= Cardinality(Threads)

\* verify_audit_chain accepts a log that nobody tampered with.
AuditChainVerifies == \A i \in DOMAIN log : log[i].previous = i - 1
=============================================================================
