---------------------------- MODULE CommandLane ----------------------------
(***************************************************************************)
(* The durable JetStream request/reply lane of eal-api-server              *)
(* (src/src/transport.rs, spawn_jetstream_from_env and everything below    *)
(* it): the command consumer, the PostgreSQL transaction that records a    *)
(* command and its reply, and the outbox publisher.                        *)
(*                                                                         *)
(* Several API processes (Servers) share one database and one durable      *)
(* consumer.  A process runs two tasks: the consumer loop, with control    *)
(* state pc[s], and the publisher loop, with control state pub[s].  Each   *)
(* action is what a task does between two await points.                    *)
(*                                                                         *)
(* PostgreSQL and the NATS server are not part of the repository; they are *)
(* modelled from how the code uses them: unique constraints with           *)
(* ON CONFLICT, transactions that commit all their rows or none, explicit  *)
(* acknowledgement with redelivery after ack_wait, and message             *)
(* deduplication by Nats-Msg-Id.                                           *)
(***************************************************************************)
EXTENDS Integers, Sequences, FiniteSets

CONSTANTS
    Servers,              \* API processes
    Msgs,                 \* messages of the stream EAL_COMMANDS_V1
    Command,              \* Command[m]: the payload of message m
    CommandKey,           \* EAL_NATS_COMMAND_HMAC_KEY
    ProductTenant,        \* EAL_PRODUCT_TENANT
    None,                 \* absent value
    MaxOperationDeadline, \* MAX_OPERATION_DEADLINE_MS, in ticks
    AckWait,              \* consumer ack_wait, in ticks
    MaxDeliver,           \* consumer max_deliver
    MaxAckPending,        \* consumer max_ack_pending
    OutboxBatch,          \* LIMIT of SELECT_OUTBOX_SQL
    ListLimit,            \* LIMIT of DIRECT_ALERTS_SQL
    MaxPayloadRows        \* alerts that fit in MAX_NATS_PAYLOAD_BYTES

(* Bounds of the model: nothing in the code corresponds to them. *)
CONSTANTS
    Horizon,              \* the clock stops here, after every deadline
    MaxAlerts,            \* alerts an actor may own
    MaxCrashes,           \* process crashes in a behaviour
    MaxErrors,            \* consumer tasks ended by an error in a behaviour
    MaxLapses             \* how often a message id leaves the dedupe window

(* What the code tells apart in an AsyncCommand.  envelope_bounded stands  *)
(* for the checks of the envelope that do not depend on the clock.         *)
ASSUME CommandAssumption ==
    \A m \in Msgs :
        /\ Command[m].oversized \in BOOLEAN
        /\ Command[m].parses \in BOOLEAN
        /\ Command[m].dedupe_bounded \in BOOLEAN
        /\ Command[m].envelope_bounded \in BOOLEAN
        /\ Command[m].deadline \in Nat
        /\ Command[m].deadline < Horizon

ASSUME BoundsAssumption ==
    /\ MaxOperationDeadline \in Nat
    /\ AckWait \in Nat \ {0}
    /\ MaxDeliver \in Nat \ {0}
    /\ MaxAckPending \in Nat \ {0}
    /\ OutboxBatch \in Nat \ {0}
    /\ ListLimit \in Nat
    /\ MaxPayloadRows \in Nat
    /\ Horizon \in Nat
    /\ MaxAlerts \in Nat
    /\ MaxCrashes \in Nat
    /\ MaxErrors \in Nat
    /\ MaxLapses \in Nat

(* The actor whose alerts a command asks for. *)
OwnerOf(c) == <<c.product_tenant, c.actor_subject>>

Correlations == {Command[m].correlation_id : m \in Msgs}
Owners == {OwnerOf(Command[m]) : m \in Msgs}

VARIABLES
    \* NATS JetStream
    sent,        \* messages stored in the command stream
    deliveries,  \* how often each message was delivered to the durable consumer
    wait,        \* ticks until an unacknowledged message may be redelivered
    settled,     \* how the consumer acknowledged each message
    events,      \* the stream EAL_EVENTS_V1
    recent,      \* message ids inside the dedupe window
    lapses,      \* how often each id has left that window
    \* PostgreSQL
    inbox,       \* rows of eal_transport_inbox
    outbox,      \* rows of eal_transport_outbox
    marked,      \* event_id of the outbox rows with published_at set
    status,      \* rows of eal_transport_status, by correlation_id
    alerts,      \* how many rows of eal_alert_rules each owner has
    txns,        \* transactions begun, which orders their created_at
    \* the API processes
    pc,          \* control state of the consumer task
    buffer,      \* messages prefetched by the pull consumer
    cur,         \* the message being handled
    tx,          \* the open transaction
    pub,         \* control state of the publisher task
    batch,       \* rows that publish_pending still has to publish
    \* environment and history
    now,         \* clock
    crashes,     \* process crashes so far
    errors,      \* consumer tasks ended by an error so far
    accepted     \* history: messages that passed every check at least once

streamVars   == <<sent, deliveries, wait, settled>>
eventVars    == <<events, recent, lapses>>
dbVars       == <<inbox, outbox, marked, status>>
consumerVars == <<pc, buffer, cur, tx>>
pubVars      == <<pub, batch>>
envVars      == <<alerts, now, crashes, errors>>
histVars     == <<txns, accepted>>
vars == <<streamVars, eventVars, dbVars, consumerVars, pubVars, envVars, histVars>>

-----------------------------------------------------------------------------
(* Rows and envelopes. *)

InboxRow(m) ==
    [event_id       |-> Command[m].event_id,
     correlation_id |-> Command[m].correlation_id,
     dedupe_key     |-> Command[m].dedupe_key,
     product_tenant |-> Command[m].product_tenant,
     actor_subject  |-> Command[m].actor_subject]

(* Mutant: correlation_id is not UNIQUE. *)
ConflictsWithoutCorrelation(r, q) ==
    \/ r.event_id = q.event_id
    \/ r.dedupe_key = q.dedupe_key

(* The three unique constraints of eal_transport_inbox. *)
Conflicts(r, q) ==
    \/ r.event_id = q.event_id
    \/ r.correlation_id = q.correlation_id
    \/ r.dedupe_key = q.dedupe_key

(* format!("reply:{}", dedupe_key): injective, and never a command's key.  *)
ReplyKey(key) == <<"reply", key>>

CompletedReply(m, n) ==
    [operation_id |-> Command[m].correlation_id,
     status       |-> "completed",
     error        |-> "none",
     owner        |-> OwnerOf(Command[m]),
     rows         |-> n]

ErrorReply(m, error) ==
    [operation_id |-> Command[m].correlation_id,
     status       |-> "rejected",
     error        |-> error,
     owner        |-> OwnerOf(Command[m]),
     rows         |-> 0]

(* The outbox row of enqueue_reply.  event_id is a fresh UUID and          *)
(* created_at the start of the transaction; the number of the transaction  *)
(* stands for both.                                                        *)
EventEnvelope(m, id, reply) ==
    [event_id       |-> id,
     correlation_id |-> Command[m].correlation_id,
     dedupe_key     |-> ReplyKey(Command[m].dedupe_key),
     product_tenant |-> Command[m].product_tenant,
     reply          |-> reply]

StatusRow(m, st) ==
    [product_tenant |-> Command[m].product_tenant,
     actor_subject  |-> Command[m].actor_subject,
     status         |-> st]

EventIds == {Command[m].event_id : m \in Msgs}
DedupeKeys == {Command[m].dedupe_key : m \in Msgs}
Tenants == {Command[m].product_tenant : m \in Msgs}
Subjects == {Command[m].actor_subject : m \in Msgs}
ReplyKeys == {ReplyKey(key) : key \in DedupeKeys}

InboxRows ==
    [event_id : EventIds, correlation_id : Correlations, dedupe_key : DedupeKeys,
     product_tenant : Tenants, actor_subject : Subjects]

Replies ==
    [operation_id : Correlations, status : {"completed", "rejected"},
     error : {"none", "unavailable", "timeout"}, owner : Owners,
     rows : 0..ListLimit]

OutboxRows ==
    [event_id : Nat, correlation_id : Correlations, dedupe_key : ReplyKeys,
     product_tenant : Tenants, reply : Replies]

StatusRows ==
    [product_tenant : Tenants, actor_subject : Subjects,
     status : {"completed", "rejected"}]

Transactions ==
    [created : 0..txns, inbox : {None} \cup InboxRows, reply : {None} \cup Replies,
     outbox : {None} \cup OutboxRows, status : {None} \cup StatusRows]

NoTx == [created |-> 0, inbox |-> None, reply |-> None,
         outbox |-> None, status |-> None]

ASSUME NoneAssumption ==
    /\ None \notin InboxRows /\ None \notin OutboxRows /\ None \notin StatusRows
    /\ None \notin Owners

-----------------------------------------------------------------------------
(* Validation. *)

command_signing_bytes(c) ==
    <<c.event_id, c.correlation_id, c.dedupe_key, c.product_tenant,
      c.operation_id, c.actor_subject, c.deadline>>

(* HMAC-SHA256 is ideal: a signature is the key and the bytes it was made  *)
(* from, and it verifies for those only.                                   *)
verify_command_signature(c) ==
    c.signature = [key |-> CommandKey, bytes |-> command_signing_bytes(c)]

validate_operation_envelope_at(c, t) ==
    /\ c.envelope_bounded
    /\ c.deadline >= t
    /\ c.deadline - t <= MaxOperationDeadline

(* Mutant: the signature is not verified. *)
AcceptableUnsigned(m) ==
    LET c == Command[m] IN
    /\ ~c.oversized
    /\ c.parses
    /\ c.product_tenant = ProductTenant
    /\ c.product_tenant = c.op_tenant
    /\ c.operation_id = c.correlation_id
    /\ c.dedupe_bounded
    /\ validate_operation_envelope_at(c, now)

(* The checks of the loop in run_jetstream, in order: size, decoding, then *)
(* the tenant, correlation, dedupe key, signature and deadline.            *)
Acceptable(m) ==
    LET c == Command[m] IN
    /\ ~c.oversized
    /\ c.parses
    /\ c.product_tenant = ProductTenant
    /\ c.product_tenant = c.op_tenant
    /\ c.operation_id = c.correlation_id
    /\ c.dedupe_bounded
    /\ verify_command_signature(c)
    /\ validate_operation_envelope_at(c, now)

-----------------------------------------------------------------------------
(* The states of a consumer with an open transaction, and of one that runs.*)
InTransaction == {"inbox", "read", "enqueue", "status", "commit"}
Running == {"idle", "term", "ack"} \cup InTransaction

Init ==
    /\ sent = {}
    /\ deliveries = [m \in Msgs |-> 0]
    /\ wait = [m \in Msgs |-> 0]
    /\ settled = [m \in Msgs |-> "no"]
    /\ events = <<>>
    /\ recent = {}
    /\ lapses = [id \in ReplyKeys |-> 0]
    /\ inbox = {}
    /\ outbox = {}
    /\ marked = {}
    /\ status = [c \in Correlations |-> None]
    /\ alerts = [a \in Owners |-> 0]
    /\ txns = 0
    /\ pc = [s \in Servers |-> "setup"]
    /\ buffer = [s \in Servers |-> <<>>]
    /\ cur = [s \in Servers |-> None]
    /\ tx = [s \in Servers |-> NoTx]
    /\ pub = [s \in Servers |-> "off"]
    /\ batch = [s \in Servers |-> {}]
    /\ now = 0
    /\ crashes = 0
    /\ errors = 0
    /\ accepted = {}

-----------------------------------------------------------------------------
(* The environment: the paired web server, the HTTP lane, the clock, the   *)
(* NATS server.                                                            *)

(* The web server publishes a signed command.  Two messages may carry the  *)
(* same command (a publish that was retried) or share one of its keys.     *)
SendCommand(m) ==
    /\ m \notin sent
    /\ sent' = sent \cup {m}
    /\ UNCHANGED <<deliveries, wait, settled, eventVars, dbVars, consumerVars,
                   pubVars, envVars, histVars>>

(* POST /v1/alerts adds a row of eal_alert_rules. *)
CreateAlert(a) ==
    /\ alerts[a] < MaxAlerts
    /\ alerts' = [alerts EXCEPT ![a] = @ + 1]
    /\ UNCHANGED <<streamVars, eventVars, dbVars, consumerVars, pubVars,
                   now, crashes, errors, histVars>>

Tick ==
    /\ now' = IF now < Horizon THEN now + 1 ELSE now
    /\ wait' = [m \in Msgs |-> IF wait[m] > 0 THEN wait[m] - 1 ELSE 0]
    /\ UNCHANGED <<sent, deliveries, settled, eventVars, dbVars, consumerVars,
                   pubVars, alerts, crashes, errors, histVars>>

(* The dedupe window of EAL_EVENTS_V1 closes for a message id. *)
LapseWindow(id) ==
    /\ id \in recent
    /\ lapses[id] < MaxLapses
    /\ recent' = recent \ {id}
    /\ lapses' = [lapses EXCEPT ![id] = @ + 1]
    /\ UNCHANGED <<streamVars, events, dbVars, consumerVars, pubVars, envVars,
                   histVars>>

(* max_deliver attempts have been made and the last ack_wait is over. *)
Exhausted(m) == deliveries[m] = MaxDeliver /\ wait[m] = 0

AckPending == {m \in Msgs : /\ deliveries[m] > 0
                            /\ settled[m] = "no"
                            /\ ~Exhausted(m)}

Deliverable(m) ==
    /\ m \in sent
    /\ settled[m] = "no"
    /\ wait[m] = 0
    /\ deliveries[m] < MaxDeliver
    /\ deliveries[m] = 0 => Cardinality(AckPending) < MaxAckPending

(* The durable consumer hands m to a pull request of s, or loses it on the *)
(* way.  Either way it waits ack_wait before it delivers m again.          *)
Deliver(s, m) ==
    /\ pc[s] \in Running
    /\ Deliverable(m)
    /\ deliveries' = [deliveries EXCEPT ![m] = @ + 1]
    /\ wait' = [wait EXCEPT ![m] = AckWait]
    /\ buffer' = [buffer EXCEPT ![s] = Append(@, m)]
    /\ UNCHANGED <<sent, settled, eventVars, dbVars, pc, cur, tx, pubVars,
                   envVars, histVars>>

LoseDelivery(m) ==
    /\ \E s \in Servers : pc[s] # "setup"    \* a pull request outlives its task
    /\ Deliverable(m)
    /\ deliveries' = [deliveries EXCEPT ![m] = @ + 1]
    /\ wait' = [wait EXCEPT ![m] = AckWait]
    /\ UNCHANGED <<sent, settled, eventVars, dbVars, consumerVars, pubVars,
                   envVars, histVars>>

-----------------------------------------------------------------------------
(* The consumer task. *)

(* Mutant: the durable consumer is created, and fails if it exists. *)
SetupOnce(s) ==
    /\ pc[s] = "setup"
    /\ \A m \in Msgs : deliveries[m] = 0
    /\ pc' = [pc EXCEPT ![s] = "idle"]
    /\ pub' = [pub EXCEPT ![s] = "sleep"]
    /\ UNCHANGED <<streamVars, eventVars, dbVars, buffer, cur, tx, batch,
                   envVars, histVars>>

(* run_jetstream up to consumer.messages(): both streams and the durable   *)
(* consumer exist, the publisher task is spawned.                          *)
Setup(s) ==
    /\ pc[s] = "setup"
    /\ pc' = [pc EXCEPT ![s] = "idle"]
    /\ pub' = [pub EXCEPT ![s] = "sleep"]
    /\ UNCHANGED <<streamVars, eventVars, dbVars, buffer, cur, tx, batch,
                   envVars, histVars>>

(* messages.next() yields a command that passes every check;               *)
(* process_command opens its transaction.                                  *)
Accept(s) ==
    /\ pc[s] = "idle"
    /\ buffer[s] # <<>>
    /\ Acceptable(Head(buffer[s]))
    /\ pc' = [pc EXCEPT ![s] = "inbox"]
    /\ cur' = [cur EXCEPT ![s] = Head(buffer[s])]
    /\ buffer' = [buffer EXCEPT ![s] = Tail(@)]
    /\ txns' = txns + 1
    /\ tx' = [tx EXCEPT ![s] = [NoTx EXCEPT !.created = txns + 1]]
    /\ accepted' = accepted \cup {Head(buffer[s])}
    /\ UNCHANGED <<streamVars, eventVars, dbVars, pubVars, envVars>>

(* A message that fails a check is terminated: never redelivered, and no   *)
(* status row or reply is written for it.                                  *)
Reject(s) ==
    /\ pc[s] = "idle"
    /\ buffer[s] # <<>>
    /\ ~Acceptable(Head(buffer[s]))
    /\ pc' = [pc EXCEPT ![s] = "term"]
    /\ cur' = [cur EXCEPT ![s] = Head(buffer[s])]
    /\ buffer' = [buffer EXCEPT ![s] = Tail(@)]
    /\ UNCHANGED <<streamVars, eventVars, dbVars, tx, pubVars, envVars, histVars>>

(* Mutant: an insert does not wait. *)
NeverBlocked(s) == FALSE

(* Another open transaction has inserted a row that the one of s would     *)
(* conflict with: the INSERT of s waits until that transaction ends.       *)
InsertBlocked(s) ==
    \E t \in Servers \ {s} :
        /\ tx[t].inbox # None
        /\ Conflicts(tx[t].inbox, InboxRow(cur[s]))

(* INSERT_INBOX_SQL: rows_affected() == 1 unless a committed row conflicts.*)
InboxInserts(s) ==
    \A r \in inbox : ~Conflicts(r, InboxRow(cur[s]))

InsertInbox(s) ==
    /\ pc[s] = "inbox"
    /\ ~InsertBlocked(s)
    /\ \/ /\ InboxInserts(s)
          /\ tx' = [tx EXCEPT ![s].inbox = InboxRow(cur[s])]
          /\ pc' = [pc EXCEPT ![s] = "read"]
       \/ /\ ~InboxInserts(s)
          /\ pc' = [pc EXCEPT ![s] = "commit"]
          /\ UNCHANGED tx
    /\ UNCHANGED <<streamVars, eventVars, dbVars, buffer, cur, pubVars, envVars,
                   histVars>>

ListedRows(m) ==
    LET n == alerts[OwnerOf(Command[m])]
    IN  IF n < ListLimit THEN n ELSE ListLimit

(* read_alerts inside the transaction, under QUERY_TIMEOUT.  A row that    *)
(* does not decode gives "unavailable".  A database error gives it too,    *)
(* but aborts the transaction, so that enqueue_reply fails: that is        *)
(* ConsumerError.                                                          *)
ReadAlerts(s) ==
    /\ pc[s] = "read"
    /\ \E reply \in {CompletedReply(cur[s], ListedRows(cur[s])),
                     ErrorReply(cur[s], "unavailable"),
                     ErrorReply(cur[s], "timeout")} :
           tx' = [tx EXCEPT ![s].reply = reply]
    /\ pc' = [pc EXCEPT ![s] = "enqueue"]
    /\ UNCHANGED <<streamVars, eventVars, dbVars, buffer, cur, pubVars, envVars,
                   histVars>>

(* INSERT_OUTBOX_SQL, ON CONFLICT (dedupe_key) DO NOTHING. *)
EnqueueReply(s) ==
    LET row == EventEnvelope(cur[s], tx[s].created, tx[s].reply) IN
    /\ pc[s] = "enqueue"
    /\ \A t \in Servers \ {s} :    \* waits for a transaction that holds the key
          tx[t].outbox # None => tx[t].outbox.dedupe_key # row.dedupe_key
    /\ pc' = [pc EXCEPT ![s] = "status"]
    /\ tx' = IF \E e \in outbox : e.dedupe_key = row.dedupe_key
             THEN tx
             ELSE [tx EXCEPT ![s].outbox = row]
    /\ UNCHANGED <<streamVars, eventVars, dbVars, buffer, cur, pubVars, envVars,
                   histVars>>

(* INSERT_STATUS_SQL. *)
RecordStatus(s) ==
    /\ pc[s] = "status"
    /\ pc' = [pc EXCEPT ![s] = "commit"]
    /\ tx' = [tx EXCEPT ![s].status = StatusRow(cur[s], tx[s].reply.status)]
    /\ UNCHANGED <<streamVars, eventVars, dbVars, buffer, cur, pubVars, envVars,
                   histVars>>

(* Mutant: a row is written also when there is none. *)
Mandatory(row) == {row}

Optional(row) == IF row = None THEN {} ELSE {row}

(* ON CONFLICT (correlation_id) DO UPDATE SET status: the tenant and the   *)
(* subject of an existing row stay.                                        *)
UpsertStatus(c, row) ==
    IF row = None THEN status
    ELSE [status EXCEPT ![c] = IF @ = None THEN row
                               ELSE [@ EXCEPT !.status = row.status]]

(* Mutant: the inbox row is committed by itself. *)
CommitInboxFirst(s) ==
    /\ inbox' = inbox \cup Optional(tx[s].inbox)
    /\ UNCHANGED <<outbox, status, marked>>

(* The commit makes the rows of the transaction visible, all at once. *)
CommitRows(s) ==
    /\ inbox' = inbox \cup Optional(tx[s].inbox)
    /\ outbox' = outbox \cup Optional(tx[s].outbox)
    /\ status' = UpsertStatus(Command[cur[s]].correlation_id, tx[s].status)
    /\ UNCHANGED marked

Commit(s) ==
    /\ pc[s] = "commit"
    /\ CommitRows(s)
    /\ pc' = [pc EXCEPT ![s] = "ack"]
    /\ tx' = [tx EXCEPT ![s] = NoTx]
    /\ UNCHANGED <<streamVars, eventVars, buffer, cur, pubVars, envVars, histVars>>

(* The first acknowledgement of a message settles it and ends its ack_wait.*)
Settle(m, how) ==
    /\ settled' = [settled EXCEPT ![m] = IF @ = "no" THEN how ELSE @]
    /\ wait' = [wait EXCEPT ![m] = 0]

Acknowledge(s) ==
    /\ \/ pc[s] = "ack"  /\ Settle(cur[s], "ack")
       \/ pc[s] = "term" /\ Settle(cur[s], "term")
    /\ pc' = [pc EXCEPT ![s] = "idle"]
    /\ cur' = [cur EXCEPT ![s] = None]
    /\ UNCHANGED <<sent, deliveries, eventVars, dbVars, buffer, tx, pubVars,
                   envVars, histVars>>

(* message.ack() hands the acknowledgement to the client without waiting   *)
(* for the server: it may never arrive.                                    *)
LoseAck(s) ==
    /\ pc[s] \in {"ack", "term"}
    /\ pc' = [pc EXCEPT ![s] = "idle"]
    /\ cur' = [cur EXCEPT ![s] = None]
    /\ UNCHANGED <<streamVars, eventVars, dbVars, buffer, tx, pubVars, envVars,
                   histVars>>

(* The consumer task returns: the pull stream and the transaction are      *)
(* dropped, the latter is rolled back.  Nothing starts the task again.     *)
StopConsumer(s) ==
    /\ errors < MaxErrors
    /\ errors' = errors + 1
    /\ pc' = [pc EXCEPT ![s] = "stopped"]
    /\ buffer' = [buffer EXCEPT ![s] = <<>>]
    /\ cur' = [cur EXCEPT ![s] = None]
    /\ tx' = [tx EXCEPT ![s] = NoTx]

(* Mutant: an error of process_command is dropped, the message is acknowledged. *)
ErrorIgnored(s) ==
    /\ pc[s] \in InTransaction
    /\ errors < MaxErrors
    /\ errors' = errors + 1
    /\ pc' = [pc EXCEPT ![s] = "ack"]
    /\ tx' = [tx EXCEPT ![s] = NoTx]
    /\ UNCHANGED <<streamVars, eventVars, dbVars, pubVars, buffer, cur, alerts, now,
                   crashes, histVars>>

(* Any `?` of run_jetstream or process_command. *)
ConsumerError(s) ==
    /\ pc[s] \in Running \cup {"setup"}
    /\ StopConsumer(s)
    /\ UNCHANGED <<streamVars, eventVars, dbVars, pubVars, alerts, now, crashes,
                   histVars>>

(* The database commits, but commit() returns an error. *)
CommitUnknown(s) ==
    /\ pc[s] = "commit"
    /\ CommitRows(s)
    /\ StopConsumer(s)
    /\ UNCHANGED <<streamVars, eventVars, pubVars, alerts, now, crashes, histVars>>

-----------------------------------------------------------------------------
(* The publisher task: publish_pending every 250 ms, whatever its result.  *)

Pending == {e \in outbox : e.event_id \notin marked}

(* SELECT_OUTBOX_SQL: the oldest OutboxBatch rows not yet published. *)
SelectedRows ==
    {e \in Pending :
        Cardinality({f \in Pending : f.event_id < e.event_id}) < OutboxBatch}

(* The row that publish_pending handles next. *)
NextRows(rows) == {e \in rows : \A f \in rows : e.event_id <= f.event_id}

SelectPending(s) ==
    /\ pub[s] = "sleep"
    /\ Pending # {}
    /\ batch' = [batch EXCEPT ![s] = SelectedRows]
    /\ pub' = [pub EXCEPT ![s] = "publish"]
    /\ UNCHANGED <<streamVars, eventVars, dbVars, consumerVars, envVars, histVars>>

Oversized(e) == e.reply.rows > MaxPayloadRows

(* The header Nats-Msg-Id. *)
MsgId(e) == e.dedupe_key

(* Mutant: the header is left out, and the stream compares nothing. *)
StoreWithoutId(e) ==
    /\ ~Oversized(e)
    /\ events' = Append(events, e)
    /\ UNCHANGED <<recent, lapses>>

(* EAL_EVENTS_V1 stores a message unless its id is in the dedupe window. *)
StoreEvent(e) ==
    /\ ~Oversized(e)
    /\ events' = IF MsgId(e) \in recent THEN events ELSE Append(events, e)
    /\ recent' = recent \cup {MsgId(e)}
    /\ UNCHANGED lapses

(* Mutant: the row is marked although the publish got no acknowledgement. *)
PublishUnawaited(s) ==
    /\ pub[s] = "publish"
    /\ \/ \E row \in NextRows(batch[s]) : StoreEvent(row)
       \/ UNCHANGED eventVars
    /\ pub' = [pub EXCEPT ![s] = "mark"]
    /\ UNCHANGED <<streamVars, dbVars, consumerVars, batch, envVars, histVars>>

PublishReply(s) ==
    /\ pub[s] = "publish"
    /\ \E row \in NextRows(batch[s]) : StoreEvent(row)
    /\ pub' = [pub EXCEPT ![s] = "mark"]
    /\ UNCHANGED <<streamVars, dbVars, consumerVars, batch, envVars, histVars>>

(* Mutant: an error ends the publisher task. *)
LeaveLoop(s) ==
    /\ pub' = [pub EXCEPT ![s] = "off"]
    /\ batch' = [batch EXCEPT ![s] = {}]

(* publish_pending returns an error: the rest of the batch waits for the   *)
(* next call.                                                              *)
LeaveBatch(s) ==
    /\ pub' = [pub EXCEPT ![s] = "sleep"]
    /\ batch' = [batch EXCEPT ![s] = {}]

(* The event is stored, but its acknowledgement does not arrive. *)
PublishUnacknowledged(s) ==
    /\ pub[s] = "publish"
    /\ \E row \in NextRows(batch[s]) : StoreEvent(row)
    /\ LeaveBatch(s)
    /\ UNCHANGED <<streamVars, dbVars, consumerVars, envVars, histVars>>

(* An oversized payload, or a publish or an UPDATE that fails. *)
PublishError(s) ==
    /\ pub[s] \in {"publish", "mark"}
    /\ LeaveBatch(s)
    /\ UNCHANGED <<streamVars, eventVars, dbVars, consumerVars, envVars, histVars>>

(* MARK_OUTBOX_SQL, then the next row of the batch. *)
MarkPublished(s) ==
    /\ pub[s] = "mark"
    /\ \E row \in NextRows(batch[s]) :
          /\ marked' = marked \cup {row.event_id}
          /\ \/ /\ batch' = [batch EXCEPT ![s] = @ \ {row}]
                /\ pub' = [pub EXCEPT ![s] = IF batch[s] = {row} THEN "sleep"
                                             ELSE "publish"]
             \/ LeaveBatch(s)    \* the UPDATE takes effect, but returns an error
    /\ UNCHANGED <<streamVars, eventVars, inbox, outbox, status, consumerVars,
                   envVars, histVars>>

-----------------------------------------------------------------------------
(* The process. *)

Crash(s) ==
    /\ pc[s] # "down"
    /\ crashes < MaxCrashes
    /\ crashes' = crashes + 1
    /\ pc' = [pc EXCEPT ![s] = "down"]
    /\ buffer' = [buffer EXCEPT ![s] = <<>>]
    /\ cur' = [cur EXCEPT ![s] = None]
    /\ tx' = [tx EXCEPT ![s] = NoTx]
    /\ pub' = [pub EXCEPT ![s] = "off"]
    /\ batch' = [batch EXCEPT ![s] = {}]
    /\ UNCHANGED <<streamVars, eventVars, dbVars, alerts, now, errors, histVars>>

(* Mutant: a consumer task that returned is started again. *)
RestartStopped(s) ==
    /\ pc[s] \in {"down", "stopped"}
    /\ pc' = [pc EXCEPT ![s] = "setup"]
    /\ UNCHANGED <<streamVars, eventVars, dbVars, buffer, cur, tx, pubVars, envVars,
                   histVars>>

Restart(s) ==
    /\ pc[s] = "down"
    /\ pc' = [pc EXCEPT ![s] = "setup"]
    /\ UNCHANGED <<streamVars, eventVars, dbVars, buffer, cur, tx, pubVars, envVars,
                   histVars>>

-----------------------------------------------------------------------------
Consumer(s) ==
    \/ Setup(s) \/ Accept(s) \/ Reject(s) \/ InsertInbox(s) \/ ReadAlerts(s)
    \/ EnqueueReply(s) \/ RecordStatus(s) \/ Commit(s) \/ Acknowledge(s)

Faults(s) == LoseAck(s) \/ ConsumerError(s) \/ CommitUnknown(s) \/ Crash(s)

Publisher(s) ==
    \/ SelectPending(s) \/ PublishReply(s) \/ PublishUnacknowledged(s)
    \/ PublishError(s) \/ MarkPublished(s)

Environment ==
    \/ Tick
    \/ \E m \in Msgs : SendCommand(m) \/ LoseDelivery(m)
    \/ \E a \in Owners : CreateAlert(a)
    \/ \E id \in recent : LapseWindow(id)

Next ==
    \/ Environment
    \/ \E s \in Servers :
          \/ Consumer(s) \/ Faults(s) \/ Publisher(s) \/ Restart(s)
          \/ \E m \in Msgs : Deliver(s, m)

Spec == Init /\ [][Next]_vars

(* Fairness.  Tokio runs every ready task, so a step of a task that stays  *)
(* possible is taken (WF).  The publisher loop retries for ever, and a     *)
(* publish or an UPDATE that is tried again and again succeeds once (SF).  *)
(* Time passes, the NATS server delivers what it may deliver, and a        *)
(* process that is down is started again by its supervisor.                *)
Fairness ==
    /\ WF_vars(Tick)
    /\ \A m \in Msgs : WF_vars(\E s \in Servers : Deliver(s, m))
    /\ \A s \in Servers :
          /\ WF_vars(Consumer(s))
          /\ WF_vars(Restart(s))
          /\ WF_vars(SelectPending(s))
          /\ SF_vars(PublishReply(s))
          /\ SF_vars(MarkPublished(s))

FairSpec == Spec /\ Fairness

-----------------------------------------------------------------------------
(* Properties. *)

(* Every variable has its type. *)
TypeOK ==
    /\ sent \subseteq Msgs /\ accepted \subseteq Msgs
    /\ deliveries \in [Msgs -> 0..MaxDeliver]
    /\ wait \in [Msgs -> 0..AckWait]
    /\ settled \in [Msgs -> {"no", "ack", "term"}]
    /\ events \in Seq(OutboxRows)
    /\ recent \subseteq ReplyKeys
    /\ inbox \subseteq InboxRows
    /\ outbox \subseteq OutboxRows
    /\ marked \subseteq 1..txns
    /\ status \in [Correlations -> {None} \cup StatusRows]
    /\ alerts \in [Owners -> 0..MaxAlerts]
    /\ pc \in [Servers -> Running \cup {"setup", "stopped", "down"}]
    /\ buffer \in [Servers -> Seq(Msgs)]
    /\ cur \in [Servers -> {None} \cup Msgs]
    /\ tx \in [Servers -> Transactions]
    /\ pub \in [Servers -> {"off", "sleep", "publish", "mark"}]
    /\ batch \in [Servers -> SUBSET OutboxRows]
    /\ now \in 0..Horizon
    /\ lapses \in [ReplyKeys -> 0..MaxLapses]
    /\ crashes \in 0..MaxCrashes
    /\ errors \in 0..MaxErrors
    /\ txns \in Nat

(* A command leaves one reply, however often it is delivered, retried by   *)
(* the web server under a new correlation or dedupe key, or handled by two *)
(* processes at once: no two outbox rows share a correlation id or a       *)
(* dedupe key.                                                             *)
OneReplyPerCommand ==
    \A e, f \in outbox :
        \/ e = f
        \/ e.correlation_id # f.correlation_id /\ e.dedupe_key # f.dedupe_key

(* The three tables agree after every commit, every rollback and every     *)
(* crash: a recorded command has exactly its reply and its status row, for *)
(* the tenant and the subject of the command, and neither exists alone.    *)
RecordsAgree ==
    /\ \A r \in inbox :
          \E e \in outbox :
             /\ e.correlation_id = r.correlation_id
             /\ e.dedupe_key = ReplyKey(r.dedupe_key)
             /\ e.reply.owner = OwnerOf(r)
             /\ status[r.correlation_id] = [product_tenant |-> r.product_tenant,
                                            actor_subject  |-> r.actor_subject,
                                            status         |-> e.reply.status]
    /\ \A e \in outbox :
          \E r \in inbox : /\ r.correlation_id = e.correlation_id
                           /\ ReplyKey(r.dedupe_key) = e.dedupe_key
    /\ \A c \in Correlations :
          status[c] # None => \E r \in inbox : r.correlation_id = c

(* A command is on record when a row of the inbox holds one of its keys.   *)
Recorded(m) == \E r \in inbox : Conflicts(r, InboxRow(m))

(* The consumer acknowledges a command after its rows are committed, also  *)
(* when the acknowledgement is for a redelivery: an acknowledged command   *)
(* is never lost by a crash.                                               *)
AckedImpliesRecorded ==
    \A m \in Msgs : settled[m] = "ack" => Recorded(m)

(* What is on EAL_EVENTS_V1 was committed, and a row is marked published   *)
(* only if its own event is on the stream, also when the stream dropped    *)
(* the publish as a duplicate or another process published the row.        *)
StreamMatchesOutbox ==
    /\ \A i \in DOMAIN events : events[i] \in outbox
    /\ \A id \in marked : \E i \in DOMAIN events : events[i].event_id = id

(* Where a reply is on the stream. *)
Copies(id) == {i \in DOMAIN events : events[i].dedupe_key = id}

(* Lost publish acknowledgements, failed UPDATEs, crashes between publish  *)
(* and mark, and two processes publishing the same row put a reply on the  *)
(* stream again only if its own id left the dedupe window in between.      *)
NoDuplicateWithinWindow ==
    \A id \in ReplyKeys : Cardinality(Copies(id)) <= 1 + lapses[id]

(* A reply answers a request that the web server signed for this product:  *)
(* the correlation id, the dedupe key and the owner whose alerts were read *)
(* are those of one signed command.                                        *)
ReplyToSigner ==
    \A e \in outbox : \E m \in accepted :
        /\ verify_command_signature(Command[m])
        /\ Command[m].product_tenant = ProductTenant
        /\ e.correlation_id = Command[m].correlation_id
        /\ e.dedupe_key = ReplyKey(Command[m].dedupe_key)
        /\ e.reply.owner = OwnerOf(Command[m])

(* A step that removes no row, unmarks no reply and changes no status. *)
RecordsKept ==
    /\ inbox \subseteq inbox'
    /\ outbox \subseteq outbox'
    /\ marked \subseteq marked'
    /\ \A c \in Correlations : status[c] # None => status'[c] = status[c]

(* Records are permanent: no step removes a row, unmarks a reply, or       *)
(* changes a status, although INSERT_STATUS_SQL is an upsert.              *)
RecordsPermanent == [][RecordsKept]_vars

(* Every committed reply is eventually marked published, whatever crashes, *)
(* lost acknowledgements and failed UPDATEs happen on the way.             *)
OutboxDrains ==
    \A c \in Correlations :
        status[c] # None ~> \E e \in outbox : e.correlation_id = c /\ e.event_id \in marked

(* Every command sent is eventually acknowledged or terminated, or all its *)
(* max_deliver deliveries are used up.                                     *)
CommandsSettled ==
    \A m \in Msgs : m \in sent ~> settled[m] # "no" \/ Exhausted(m)

(* A reply that fits in a message is eventually marked published, whatever *)
(* other replies wait in the outbox.                                       *)
FittingRepliesDrain ==
    \A c \in Correlations :
        (\E e \in outbox : e.correlation_id = c /\ ~Oversized(e))
            ~> (\E e \in outbox : e.correlation_id = c /\ e.event_id \in marked)

(* Redelivery is safe: a command that was accepted once is not terminated  *)
(* by a later delivery while it is on no record.                           *)
RedeliverySafe ==
    \A m \in accepted : settled[m] = "term" => Recorded(m)

-----------------------------------------------------------------------------
(* The inductive invariant behind these properties. *)

(* What the open transaction of a consumer holds at each of its steps. *)
Stage(s) ==
    LET m == cur[s]
        t == tx[s]
        written ==
            /\ t.inbox = InboxRow(m)
            /\ t.reply \in Replies
            /\ t.reply.owner = OwnerOf(Command[m])
            /\ t.outbox = EventEnvelope(m, t.created, t.reply)
    IN
    /\ pc[s] \in InTransaction \cup {"ack"} => m \in accepted
    /\ pc[s] = "term" => m \in Msgs
    /\ pc[s] \notin InTransaction => t = NoTx
    /\ pc[s] = "inbox" => t.inbox = None
    /\ pc[s] \in {"read", "enqueue"} => t.inbox = InboxRow(m)
    /\ pc[s] \in {"inbox", "read", "enqueue"} => t.outbox = None
    /\ pc[s] \in {"inbox", "read", "enqueue", "status"} => t.status = None
    /\ pc[s] = "enqueue" =>
          t.reply \in Replies /\ t.reply.owner = OwnerOf(Command[m])
    /\ pc[s] = "status" => written
    /\ pc[s] = "commit" =>
          \/ written /\ t.status = StatusRow(m, t.reply.status)
          \/ /\ t.inbox = None /\ t.outbox = None /\ t.status = None
             /\ Recorded(m)
    /\ pc[s] = "ack" => Recorded(m)

StageInvariant == \A s \in Servers : Stage(s)

(* No two rows of the inbox share a key, be they committed or held by an   *)
(* open transaction.                                                       *)
KeysDistinct ==
    /\ \A r, q \in inbox : r = q \/ ~Conflicts(r, q)
    /\ \A s \in Servers :
          tx[s].inbox # None =>
              /\ \A r \in inbox : ~Conflicts(r, tx[s].inbox)
              /\ \A t \in Servers \ {s} :
                    tx[t].inbox # None => ~Conflicts(tx[t].inbox, tx[s].inbox)

(* A transaction has a number of its own, and so has each outbox row.      *)
NumbersDistinct ==
    /\ \A s \in Servers : pc[s] \in InTransaction =>
          /\ tx[s].created \in 1..txns
          /\ \A e \in outbox : e.event_id # tx[s].created
          /\ \A t \in Servers \ {s} :
                pc[t] \in InTransaction => tx[t].created # tx[s].created
    /\ \A e \in outbox : e.event_id \in 1..txns
    /\ \A e, f \in outbox : e.event_id = f.event_id => e = f

(* A publisher handles committed rows, and a row it is about to mark, like *)
(* an id in the dedupe window, is on the stream.                           *)
PublisherInvariant ==
    /\ \A s \in Servers :
          /\ batch[s] \subseteq outbox
          /\ pub[s] = "mark" =>
                \A e \in NextRows(batch[s]) : \E i \in DOMAIN events : events[i] = e
    /\ \A id \in recent : \E i \in DOMAIN events : events[i].dedupe_key = id

(* The stream has a reply once for each time its id left the dedupe window,*)
(* and once more while the id is in it.                                    *)
CopiesCounted ==
    \A id \in ReplyKeys :
        Cardinality(Copies(id)) = lapses[id] + IF id \in recent THEN 1 ELSE 0

(* The inductive invariant: rows are written under distinct keys, a commit *)
(* publishes a matching set of them, and an acknowledgement, a publish and *)
(* a mark each follow the step that makes it safe.                         *)
LaneInvariant ==
    /\ TypeOK
    /\ StageInvariant
    /\ KeysDistinct
    /\ NumbersDistinct
    /\ PublisherInvariant
    /\ OneReplyPerCommand
    /\ RecordsAgree
    /\ AckedImpliesRecorded
    /\ StreamMatchesOutbox

-----------------------------------------------------------------------------
(* The refinement mapping to RequestReply. *)

(* Who asked: the commands sent that the web server signed for the product.*)
Asked ==
    {<<Command[m].correlation_id, OwnerOf(Command[m])>> :
        m \in {m \in sent : verify_command_signature(Command[m])}}

(* The answer to a correlation id is its row of the outbox. *)
AnswerFor ==
    [c \in Correlations |->
        IF \E e \in outbox : e.correlation_id = c
        THEN (CHOOSE e \in outbox : e.correlation_id = c).reply.owner
        ELSE None]

OnStream == {events[i].correlation_id : i \in DOMAIN events}

Promise == INSTANCE RequestReply WITH
    Unanswered <- None, asked <- Asked, answer <- AnswerFor, published <- OnStream

(* The lane implements RequestReply: the inbox, the outbox and the stream  *)
(* together answer each correlation id at most once, for an owner that     *)
(* asked under it, and publish nothing else.                               *)
ImplementsRequestReply == Promise!Spec

(* With the publisher loop running, every answer is published. *)
ImplementsFairRequestReply == Promise!FairSpec

(* The task of the lane in each process, as Lifecycle sees it. *)
ConsumerTask ==
    [s \in Servers |-> IF pc[s] = "down" THEN "off"
                       ELSE IF pc[s] = "stopped" THEN "ended" ELSE "running"]

ConsumerTasks == INSTANCE LaneTask WITH Tasks <- Servers, task <- ConsumerTask

(* The consumer task is to its process what Lifecycle assumes of a lane:   *)
(* it may return at any await, and only a new process starts it again.     *)
ConsumerTaskAsAssumed == ConsumerTasks!Spec
=============================================================================
