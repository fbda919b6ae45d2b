------------------------------ MODULE EdgeStore ------------------------------
(***************************************************************************)
(* What an edge agent keeps on disk about messages: the inbox directories  *)
(* it shares with the notifier (edge/inbox.py) and the message cache and   *)
(* receipt queue of its SQLite file (edge/state.py).  Operators here are   *)
(* the effect of one file replace or one transaction; MessageSystem gives  *)
(* them their order.                                                       *)
(***************************************************************************)
EXTENDS Naturals, Sequences

CONSTANT Ids   \* delivery ids

VARIABLES
  pending,   \* pending/<id>.json: its dispatch token, 0 if there is no file
  marker,    \* displayed/<id>.json: ids that have a marker file
  cached,    \* edge_message_cache_v1: ids that have a row
  acked,     \* ... those of them whose acknowledged_at is set
  outbox     \* edge_receipt_queue_v1 in order of sequence

store == <<pending, marker, cached, acked, outbox>>

StoreInit ==
  /\ pending = [i \in Ids |-> 0]
  /\ marker = {}
  /\ cached = {}
  /\ acked = {}
  /\ outbox = <<>>

HasReceipt(i) == \E k \in DOMAIN outbox : outbox[k].id = i

\* LocalInbox.stage: a renewed lease only replaces the token of the file.
Stage(i, token) ==
  /\ pending' = [pending EXCEPT ![i] = token]
  /\ UNCHANGED <<marker, cached, acked, outbox>>

\* LocalInbox.pending_messages and displayed_messages; the latter also unlinks
\* markers whose pending file is gone.
\* Mutated form: the marker is not looked for.
Unmarked_AnyMarker == {i \in Ids : pending[i] # 0}

Unmarked == {i \in Ids : pending[i] # 0 /\ i \notin marker}
Displayed == {i \in Ids : pending[i] # 0 /\ i \in marker}

\* ON CONFLICT(delivery_id) DO UPDATE keeps the row's place and its attempts.
Upserted(i, token, t) ==
  IF HasReceipt(i)
  THEN [k \in DOMAIN outbox |->
         IF outbox[k].id = i
         THEN [outbox[k] EXCEPT !.token = token, !.dueAt = t] ELSE outbox[k]]
  ELSE Append(outbox, [id |-> i, token |-> token, dueAt |-> t, attempts |-> 0])

\* EdgeQueue.cache_message
CacheMessage(i, token, t) ==
  /\ cached' = cached \cup {i}
  /\ outbox' = IF i \in acked THEN outbox ELSE Upserted(i, token, t)
  /\ UNCHANGED <<pending, marker, acked>>

\* _refresh_cached_delivery for a cached delivery: an acknowledged one is
\* reopened first, so its receipt is queued again with the new token.
Recache(i, token, t) ==
  /\ acked' = acked \ {i}
  /\ outbox' = Upserted(i, token, t)
  /\ UNCHANGED <<pending, marker, cached>>

\* LocalInbox.complete unlinks the pending file, then the marker; `gone` says
\* which unlinks happened (an OSError is swallowed, a crash may come between).
Complete(i, gone) ==
  /\ pending' = [pending EXCEPT ![i] = IF "pending" \in gone THEN 0 ELSE @]
  /\ marker' = IF "marker" \in gone THEN marker \ {i} ELSE marker
  /\ UNCHANGED <<cached, acked, outbox>>

\* EdgeQueue.next_receipt: the oldest one that is due.
DueReceipts(t) == {k \in DOMAIN outbox : outbox[k].dueAt <= t}
NextReceipt(t) == outbox[CHOOSE k \in DueReceipts(t) : \A j \in DueReceipts(t) : k <= j]

\* The queue without the row of a delivery; delivery_id is its primary key.
Without(i) ==
  [k \in 1..Len(outbox) - 1 |->
     IF \E j \in 1..k : outbox[j].id = i THEN outbox[k + 1] ELSE outbox[k]]

\* EdgeQueue.complete_receipt
CompleteReceipt(i) ==
  /\ outbox' = IF HasReceipt(i) THEN Without(i) ELSE outbox
  /\ acked' = acked \cup (cached \cap {i})
  /\ UNCHANGED <<pending, marker, cached>>

\* Mutated form: a failed receipt is dropped.
FailReceipt_Drops(i, t, delays) ==
  /\ outbox' = IF HasReceipt(i) THEN Without(i) ELSE outbox
  /\ UNCHANGED <<pending, marker, cached, acked>>

\* Mutated form: a failed receipt stays due, ahead of all others.
FailReceipt_StaysDue(i, t, delays) ==
  /\ UNCHANGED <<pending, marker, cached, acked, outbox>>

\* EdgeQueue.fail_receipt; attempts are counted up to the last step of the backoff.
FailReceipt(i, t, delays) ==
  /\ outbox' = [k \in DOMAIN outbox |->
       IF outbox[k].id = i
       THEN [outbox[k] EXCEPT !.dueAt = t + delays[outbox[k].attempts + 1],
                              !.attempts = IF @ + 1 < Len(delays) THEN @ + 1 ELSE @]
       ELSE outbox[k]]
  /\ UNCHANGED <<pending, marker, cached, acked>>

=============================================================================
