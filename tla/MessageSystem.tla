---------------------------- MODULE MessageSystem ----------------------------
(***************************************************************************)
(* The message path end to end: the server of MessageDelivery, one edge    *)
(* agent (edge/runtime.py), the notifiers of its user sessions             *)
(* (edge/inbox.py) and the HTTP exchanges between agent and server         *)
(* (edge/transport.py, api/agent_application.py).                          *)
(*                                                                         *)
(* The agent runs one cycle after another: promote displayed messages to   *)
(* receipts, flush receipts, flush heartbeats, sleep.  An exchange may     *)
(* lose its request or its response, or time out at the agent and still    *)
(* be served later.  Agent and notifiers may crash between any two steps.  *)
(***************************************************************************)
EXTENDS MessageDelivery

CONSTANTS
  Agent,         \* the canonical client id of the agent
  Notifiers,     \* one per logon session: they share the inbox
  ReceiptId,     \* its client_receipt_id: uuid5 of the delivery id
  Interval,      \* heartbeat_interval_seconds, in ticks
  AuthPause,     \* pause after an authentication error, in ticks
  RetryDelays,   \* _retry_delay after the first, second, ... failure, in ticks
  Prompt,        \* TRUE: no exchange is lost and no tick passes in a cycle
  FileErrors,    \* TRUE: unlink may fail in LocalInbox.complete
  MaxCrashes     \* bound on crashes of the agent, and of the notifiers

ASSUME SystemAssumption ==
  /\ Clients = {Agent} /\ ReceiptIds = {ReceiptId}
  /\ Interval \in Nat \ {0} /\ AuthPause \in Nat
  /\ RetryDelays \in Seq(Nat) /\ RetryDelays # <<>>
  /\ Prompt \in BOOLEAN /\ FileErrors \in BOOLEAN
  /\ MaxCrashes \in Nat
  /\ IsFiniteSet(Notifiers)

VARIABLES
  pending, marker, cached, acked, outbox,   \* the agent's disk, see EdgeStore
  agent,      \* the agent process
  notifier,   \* the notifier processes
  network,    \* requests on their way to the server
  reply,      \* the response on its way to the waiting agent
  shown,      \* history: how often a notifier showed a delivery
  marked,     \* history: deliveries ever marked displayed
  crashes     \* history: crashes of agent and notifiers

Store == INSTANCE EdgeStore WITH Ids <- Deliveries

server == <<message, delivery, receipts, events>>
store == <<pending, marker, cached, acked, outbox>>
sysvars == <<now, server, store, agent, notifier, network, reply, shown, marked, crashes>>

NoDelivery == <<>>
NoReply == [kind |-> "none"]
Idle == [list |-> {}, showing |-> NoDelivery, found |-> FALSE]

\* agent.work: deliveries still to promote or stage, with their tokens.
\* agent.current: the delivery being completed or acknowledged.
Asleep(t) == [pc |-> "asleep", anchor |-> 0, wakeAt |-> t, authError |-> FALSE,
              work |-> {}, current |-> NoDelivery]

SystemInit ==
  /\ Init
  /\ Store!StoreInit
  /\ agent = Asleep(0)
  /\ notifier = [n \in Notifiers |-> Idle]
  /\ network = {}
  /\ reply = NoReply
  /\ shown = [n \in Notifiers |-> [d \in Deliveries |-> 0]]
  /\ marked = {}
  /\ crashes = [agent |-> 0, notifier |-> 0]

\* A prompt agent finishes a cycle within a tick.
PassTime ==
  /\ Prompt => agent.pc = "asleep" /\ now < agent.wakeAt
  /\ Tick
  /\ UNCHANGED <<store, agent, notifier, network, reply, shown, marked, crashes>>

\* POST /messages of the operator API
Submit ==
  /\ \E m \in Messages, delay \in Delays, ttl \in Ttls, limit \in AttemptLimits :
       QueueMessage(m, {Agent}, now, delay, ttl, limit)
  /\ UNCHANGED <<store, agent, notifier, network, reply, shown, marked, crashes>>

-----------------------------------------------------------------------------
(* run_cycle and _promote_displayed.                                       *)

\* The cycle reads the clock once; displayed_messages drops orphaned markers.
WakeUp ==
  /\ agent.pc = "asleep"
  /\ now >= agent.wakeAt
  /\ agent' = [agent EXCEPT !.pc = "promoting", !.anchor = now, !.authError = FALSE,
       !.work = {[id |-> d, token |-> pending[d]] : d \in Store!Displayed}]
  /\ marker' = {d \in marker : pending[d] # 0}
  /\ UNCHANGED <<now, server, pending, cached, acked, outbox, notifier, network,
                 reply, shown, marked, crashes>>

Promote ==
  /\ agent.pc = "promoting"
  /\ \E w \in agent.work :
       /\ Store!CacheMessage(w.id, w.token, agent.anchor)
       /\ agent' = [agent EXCEPT !.pc = "completing", !.work = @ \ {w}, !.current = w.id]
  /\ UNCHANGED <<now, server, notifier, network, reply, shown, marked, crashes>>

Unlinked == IF FileErrors THEN SUBSET {"pending", "marker"} ELSE {{"pending", "marker"}}

CompleteInbox ==
  /\ agent.pc = "completing"
  /\ \E gone \in Unlinked : Store!Complete(agent.current, gone)
  /\ agent' = [agent EXCEPT !.pc = "promoting", !.current = NoDelivery]
  /\ UNCHANGED <<now, server, notifier, network, reply, shown, marked, crashes>>

-----------------------------------------------------------------------------
(* _flush_receipts.                                                        *)

BeginReceipts ==
  /\ agent.pc = "promoting"
  /\ agent.work = {}
  /\ agent' = [agent EXCEPT !.pc = "receipts"]
  /\ UNCHANGED <<now, server, store, notifier, network, reply, shown, marked, crashes>>

SendReceipt ==
  /\ agent.pc = "receipts"
  /\ Store!DueReceipts(agent.anchor) # {}
  /\ LET r == Store!NextReceipt(agent.anchor)
     IN /\ network' = network \cup
              {[kind |-> "ack", id |-> r.id, token |-> r.token, live |-> TRUE]}
        /\ agent' = [agent EXCEPT !.pc = "ackWait", !.current = r.id]
  /\ UNCHANGED <<now, server, store, notifier, reply, shown, marked, crashes>>

NoReceiptDue ==
  /\ agent.pc = "receipts"
  /\ Store!DueReceipts(agent.anchor) = {}
  /\ agent' = [agent EXCEPT !.pc = "heartbeat"]
  /\ UNCHANGED <<now, server, store, notifier, network, reply, shown, marked, crashes>>

Receipted ==
  /\ agent.pc = "ackWait"
  /\ reply.kind = "ok"
  /\ Store!CompleteReceipt(agent.current)
  /\ agent' = [agent EXCEPT !.pc = "receipts", !.current = NoDelivery]
  /\ reply' = NoReply
  /\ UNCHANGED <<now, server, notifier, network, shown, marked, crashes>>

\* UnauthorizedError: the receipt stays as it is, the loop ends.
ReceiptRejected ==
  /\ agent.pc = "ackWait"
  /\ reply.kind = "unauthorized"
  /\ agent' = [agent EXCEPT !.pc = "heartbeat", !.authError = TRUE, !.current = NoDelivery]
  /\ reply' = NoReply
  /\ UNCHANGED <<now, server, store, notifier, network, shown, marked, crashes>>

\* A retryable TransportError backs the receipt off and ends the loop.
BackOff ==
  /\ Store!FailReceipt(agent.current, agent.anchor, RetryDelays)
  /\ agent' = [agent EXCEPT !.pc = "heartbeat", !.current = NoDelivery]

ReceiptFailed ==
  /\ agent.pc = "ackWait"
  /\ reply.kind = "error"
  /\ BackOff
  /\ reply' = NoReply
  /\ UNCHANGED <<now, server, notifier, network, shown, marked, crashes>>

-----------------------------------------------------------------------------
(* _flush_heartbeats.  What a heartbeat carries is modelled elsewhere: here *)
(* it is the exchange that claims messages.                                 *)

SendHeartbeat ==
  /\ agent.pc = "heartbeat"
  /\ network' = network \cup {[kind |-> "heartbeat", live |-> TRUE]}
  /\ agent' = [agent EXCEPT !.pc = "heartbeatWait"]
  /\ UNCHANGED <<now, server, store, notifier, reply, shown, marked, crashes>>

Delivered ==
  /\ agent.pc = "heartbeatWait"
  /\ reply.kind = "messages"
  /\ agent' = [agent EXCEPT !.pc = "staging", !.work = reply.work]
  /\ reply' = NoReply
  /\ UNCHANGED <<now, server, store, notifier, network, shown, marked, crashes>>

\* Mutated forms: a delivered message is cached before it is displayed, or staged
\* again although it is cached.
StageMessage_CachesAtOnce ==
  /\ agent.pc = "staging"
  /\ \E w \in agent.work :
       /\ Store!CacheMessage(w.id, w.token, agent.anchor)
       /\ agent' = [agent EXCEPT !.work = @ \ {w}]
  /\ UNCHANGED <<now, server, notifier, network, reply, shown, marked, crashes>>
StageMessage_AlwaysStages ==
  /\ agent.pc = "staging"
  /\ \E w \in agent.work :
       /\ Store!Stage(w.id, w.token)
       /\ agent' = [agent EXCEPT !.work = @ \ {w}]
  /\ UNCHANGED <<now, server, notifier, network, reply, shown, marked, crashes>>

\* _refresh_cached_delivery
StageMessage ==
  /\ agent.pc = "staging"
  /\ \E w \in agent.work :
       /\ IF w.id \in cached
          THEN Store!Recache(w.id, w.token, agent.anchor)
          ELSE Store!Stage(w.id, w.token)
       /\ agent' = [agent EXCEPT !.work = @ \ {w}]
  /\ UNCHANGED <<now, server, notifier, network, reply, shown, marked, crashes>>

\* Another queued heartbeat may be due if an earlier one was lost; run_forever
\* sleeps after the last.
NextHeartbeat ==
  /\ ~Prompt
  /\ agent.pc = "staging"
  /\ agent.work = {}
  /\ agent' = [agent EXCEPT !.pc = "heartbeat"]
  /\ UNCHANGED <<now, server, store, notifier, network, reply, shown, marked, crashes>>

Pause == IF agent.authError /\ AuthPause > Interval THEN AuthPause ELSE Interval

Sleep ==
  /\ agent.pc = "staging"
  /\ agent.work = {}
  /\ agent' = Asleep(now + Pause)
  /\ UNCHANGED <<now, server, store, notifier, network, reply, shown, marked, crashes>>

-----------------------------------------------------------------------------
(* The exchanges.                                                          *)

\* Mutated form: a delivery in any other state counts as acknowledged.
StatusOf_WrongStateOk(outcome) ==
  CASE outcome \in {"accepted", "idempotent", "wrong_state"} -> "ok"
    [] outcome = "forbidden" -> "unauthorized"
    [] OTHER -> "error"

\* handle: PermissionError becomes 401, KeyError and RuntimeError become 500.
StatusOf(outcome) ==
  CASE outcome \in {"accepted", "idempotent"} -> "ok"
    [] outcome = "forbidden" -> "unauthorized"
    [] OTHER -> "error"

Answer(req, answer) ==
  /\ network' = network \ {req}
  /\ reply' = IF req.live THEN answer ELSE reply

ServeAcknowledge ==
  /\ \E req \in network, t \in Anchors :
       /\ req.kind = "ack"
       /\ LET outcome == AckOutcome(Agent, req.id, req.token, ReceiptId, t)
          IN /\ IF outcome = "accepted"
                THEN Acknowledge(Agent, req.id, req.token, ReceiptId, t)
                ELSE UNCHANGED <<now, server>>
             /\ Answer(req, [kind |-> StatusOf(outcome)])
  /\ UNCHANGED <<store, agent, notifier, shown, marked, crashes>>

ServeHeartbeat ==
  /\ \E req \in network, t \in Anchors :
       /\ req.kind = "heartbeat"
       /\ \E batch \in Batches(Agent, t) :
            /\ Claim(Agent, t, batch)
            /\ Answer(req, [kind |-> "messages",
                 work |-> {[id |-> d, token |-> delivery'[d].token] : d \in batch}])
  /\ UNCHANGED <<store, agent, notifier, shown, marked, crashes>>

\* The network drops a request or the response.
Lose ==
  /\ ~Prompt
  /\ \/ \E req \in network : network' = network \ {req} /\ UNCHANGED reply
     \/ reply # NoReply /\ reply' = NoReply /\ UNCHANGED network
  /\ UNCHANGED <<now, server, store, agent, notifier, shown, marked, crashes>>

\* An abandoned request may still reach the server.
Abandoned == {[req EXCEPT !.live = FALSE] : req \in network}

\* The agent's timeout: the request failed for all it knows.
TimeOut ==
  /\ ~Prompt
  /\ reply = NoReply
  /\ \/ agent.pc = "ackWait" /\ BackOff
     \/ /\ agent.pc = "heartbeatWait"
        /\ agent' = Asleep(now + Pause)
        /\ UNCHANGED store
  /\ network' = Abandoned
  /\ UNCHANGED <<now, server, notifier, reply, shown, marked, crashes>>

\* The service manager restarts the agent: only its disk is left.
AgentCrash ==
  /\ crashes.agent < MaxCrashes
  /\ agent.pc # "asleep"
  /\ \/ UNCHANGED store
     \/ agent.pc = "completing" /\ Store!Complete(agent.current, {"pending"})
  /\ agent' = Asleep(now)
  /\ network' = Abandoned
  /\ reply' = NoReply
  /\ crashes' = [crashes EXCEPT !.agent = @ + 1]
  /\ UNCHANGED <<now, server, notifier, shown, marked>>

-----------------------------------------------------------------------------
(* UserNotifier.display_once.                                              *)

Poll(n) ==
  /\ notifier[n] = Idle
  /\ Store!Unmarked # {}
  /\ notifier' = [notifier EXCEPT ![n].list = Store!Unmarked]
  /\ UNCHANGED <<now, server, store, agent, network, reply, shown, marked, crashes>>

Popup(n) ==
  /\ notifier[n].showing = NoDelivery
  /\ \E d \in notifier[n].list :
       /\ notifier' = [notifier EXCEPT ![n] =
            [Idle EXCEPT !.list = notifier[n].list \ {d}, !.showing = d]]
       /\ shown' = [shown EXCEPT ![n][d] = @ + 1]
  /\ UNCHANGED <<now, server, store, agent, network, reply, marked, crashes>>

\* The command failed or timed out: the message is tried again later.
PopupFails(n) ==
  /\ notifier[n].showing = NoDelivery
  /\ \E d \in notifier[n].list : notifier' = [notifier EXCEPT ![n].list = @ \ {d}]
  /\ UNCHANGED <<now, server, store, agent, network, reply, shown, marked, crashes>>

\* mark_displayed looks for the file; nobody catches its FileNotFoundError, and the
\* process ends until the next logon.
FindFile(n) ==
  /\ notifier[n].showing # NoDelivery /\ ~notifier[n].found
  /\ notifier' = [notifier EXCEPT ![n] =
       IF pending[notifier[n].showing] # 0 THEN [@ EXCEPT !.found = TRUE] ELSE Idle]
  /\ UNCHANGED <<now, server, store, agent, network, reply, shown, marked, crashes>>

\* The file may be gone again: the marker is an orphan then.
MarkDisplayed(n) ==
  /\ notifier[n].found
  /\ marker' = marker \cup {notifier[n].showing}
  /\ marked' = marked \cup {notifier[n].showing}
  /\ notifier' = [notifier EXCEPT ![n] = [Idle EXCEPT !.list = notifier[n].list]]
  /\ UNCHANGED <<now, server, pending, cached, acked, outbox, agent, network, reply,
                 shown, crashes>>

NotifierCrash(n) ==
  /\ crashes.notifier < MaxCrashes
  /\ notifier[n] # Idle
  /\ notifier' = [notifier EXCEPT ![n] = Idle]
  /\ crashes' = [crashes EXCEPT !.notifier = @ + 1]
  /\ UNCHANGED <<now, server, store, agent, network, reply, shown, marked>>

NotifierStep(n) ==
  \/ Poll(n) \/ Popup(n) \/ PopupFails(n) \/ FindFile(n) \/ MarkDisplayed(n)
  \/ NotifierCrash(n)

\* The clock is bounded: a run ends at MaxTime with the agent asleep.
Horizon ==
  /\ now = MaxTime
  /\ agent.pc = "asleep" /\ agent.wakeAt > MaxTime
  /\ UNCHANGED sysvars

-----------------------------------------------------------------------------
AgentStep ==
  \/ WakeUp \/ Promote \/ CompleteInbox \/ BeginReceipts \/ SendReceipt
  \/ NoReceiptDue \/ Receipted \/ ReceiptRejected \/ ReceiptFailed
  \/ SendHeartbeat \/ Delivered \/ StageMessage \/ Sleep

Serve == ServeAcknowledge \/ ServeHeartbeat

SystemNext ==
  \/ PassTime \/ Submit
  \/ AgentStep \/ NextHeartbeat
  \/ Serve \/ Lose \/ TimeOut \/ AgentCrash
  \/ \E n \in Notifiers : NotifierStep(n)
  \/ Horizon

SystemSpec == SystemInit /\ [][SystemNext]_sysvars

\* The clock and the agent's loop go on and the server answers; nobody can be
\* made to log in, so nothing is fair about the notifiers.
SystemFairness == WF_sysvars(PassTime) /\ WF_sysvars(AgentStep) /\ WF_sysvars(Serve)

FairSystemSpec == SystemSpec /\ SystemFairness

-----------------------------------------------------------------------------
(* Properties.                                                             *)

\* The server holds a receipt only for a message that the notifier displayed
\* and marked: no retry, crash or late request acknowledges an unseen message.
AcknowledgedWasDisplayed == \A d \in Deliveries : receipts[d] # {} => d \in marked

\* A session pops a message up once, and once more only if a notifier died between
\* the popup and its marker: redelivered leases, lost responses, crashes of the agent
\* and the other session's notifier never show it again.
ShownOnce == \A n \in Notifiers, d \in Deliveries : shown[n][d] <= 1 + crashes.notifier

\* That a message was displayed is never forgotten before the server has settled it:
\* the marker with its file, or the receipt queued in their place, survives every crash
\* until the receipt is acknowledged.
DisplayRemembered == \A d \in marked :
  \/ d \in Store!Displayed
  \/ Store!HasReceipt(d)
  \/ d \in acked

\* The agent records an acknowledgement only when the server has one, so the
\* branch that reopens an acknowledged delivery is never taken.
LocalAckIsServerAck == \A d \in acked :
  delivery[d].state = "ACKNOWLEDGED" /\ ~Store!HasReceipt(d)

\* A notifier that does not find the file of the message it has just shown lost it to
\* the notifier of another session, which has shown it too; and the agent took the file
\* only when it had the message in its cache, where the receipt is queued or acknowledged.
FileGoneToAnother == \A n \in Notifiers :
  LET d == notifier[n].showing
  IN d # NoDelivery /\ pending[d] = 0 =>
       /\ d \in cached
       /\ \E o \in Notifiers \ {n} : shown[o][d] > 0

\* How many cycles of the agent a delay lasts.
Cycles(delay) == (delay + Interval - 1) \div Interval

\* How many cycles the refused receipts of the other messages can fill one after the
\* other: those of the delays after which such a receipt is due again within two cycles.
\* After a longer delay the receipt behind it is sent before its lease has passed.
Held ==
  LET sum[n \in 0..Len(RetryDelays)] ==
        IF n = 0 THEN 0
        ELSE sum[n - 1] + IF RetryDelays[n] <= 2 * Interval THEN Cycles(RetryDelays[n]) ELSE 0
  IN (Cardinality(Messages) - 1) * sum[Len(RetryDelays)]

\* A message that is displayed with the attempts and the lifetime left to outlast the
\* refused receipts that may be ahead of its own ends up acknowledged.
InTime(d) ==
  /\ d \in marked
  /\ delivery[d].attempts + (Held + 2) \div Cycles(LeaseSeconds) <= MessageOf(d).maxAttempts
  /\ now + (Held + 3) * Interval < MessageOf(d).expires
DisplayedIsAcknowledged == \A d \in Deliveries :
  InTime(d) ~> delivery[d].state = "ACKNOWLEDGED"
=============================================================================
