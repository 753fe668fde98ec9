-------------------------- MODULE CommandLaneSteps --------------------------
(***************************************************************************)
(* First part of the proofs about CommandLane: facts about the data, and the*)
(* steps of the environment and of the consumer up to its commit preserve  *)
(* LaneInvariant.                                                          *)
(***************************************************************************)
EXTENDS CommandLane, TLAPS

-----------------------------------------------------------------------------
(* Facts about the data. *)

(* What a message contributes to the tables has the type of their columns. *)
LEMMA RowTypes ==
    ASSUME NEW m \in Msgs
    PROVE  /\ InboxRow(m) \in InboxRows
           /\ InboxRow(m) # None
           /\ Command[m].correlation_id \in Correlations
           /\ OwnerOf(Command[m]) \in Owners
           /\ \A st \in {"completed", "rejected"} : StatusRow(m, st) \in StatusRows
           /\ \A n \in 0..ListLimit : CompletedReply(m, n) \in Replies
           /\ \A err \in {"unavailable", "timeout"} : ErrorReply(m, err) \in Replies
           /\ \A id \in Nat, reply \in Replies : EventEnvelope(m, id, reply) \in OutboxRows
  <1>1. /\ Command[m].event_id \in EventIds
        /\ Command[m].correlation_id \in Correlations
        /\ Command[m].dedupe_key \in DedupeKeys
        /\ Command[m].product_tenant \in Tenants
        /\ Command[m].actor_subject \in Subjects
        /\ OwnerOf(Command[m]) \in Owners
    BY DEF EventIds, Correlations, DedupeKeys, Tenants, Subjects, Owners
  <1>2. ReplyKey(Command[m].dedupe_key) \in ReplyKeys
    BY <1>1 DEF ReplyKeys
  <1>3. InboxRow(m) \in InboxRows
    BY <1>1 DEF InboxRow, InboxRows
  <1>4. InboxRow(m) # None
    BY <1>3, NoneAssumption
  <1>5. \A st \in {"completed", "rejected"} : StatusRow(m, st) \in StatusRows
    BY <1>1 DEF StatusRow, StatusRows
  <1>6. \A n \in 0..ListLimit : CompletedReply(m, n) \in Replies
    BY <1>1 DEF CompletedReply, Replies
  <1>7. \A err \in {"unavailable", "timeout"} : ErrorReply(m, err) \in Replies
    BY <1>1, BoundsAssumption DEF ErrorReply, Replies
  <1>8. \A id \in Nat, reply \in Replies : EventEnvelope(m, id, reply) \in OutboxRows
    BY <1>1, <1>2 DEF EventEnvelope, OutboxRows
  <1> QED
    BY <1>1, <1>3, <1>4, <1>5, <1>6, <1>7, <1>8

(* Sharing a key is reflexive and symmetric. *)
LEMMA ConflictsSymmetric ==
    /\ \A r : Conflicts(r, r)
    /\ \A r, q : Conflicts(r, q) => Conflicts(q, r)
  BY DEF Conflicts

(* The key of a reply determines the key of its command. *)
LEMMA ReplyKeyInjective ==
    ASSUME NEW k, NEW l, ReplyKey(k) = ReplyKey(l)
    PROVE  k = l
  BY DEF ReplyKey

(* What is on a stream. *)
Elements(q) == {q[i] : i \in DOMAIN q}

(* Appending an element adds that element to what is on a stream. *)
LEMMA AppendElements ==
    \A S : \A q \in Seq(S), e \in S :
        /\ Append(q, e) \in Seq(S)
        /\ Elements(Append(q, e)) = Elements(q) \cup {e}
  <1> SUFFICES ASSUME NEW S, NEW q \in Seq(S), NEW e \in S
               PROVE  /\ Append(q, e) \in Seq(S)
                      /\ Elements(Append(q, e)) = Elements(q) \cup {e}
    OBVIOUS
  <1>1. Append(q, e) \in Seq(S) /\ Len(Append(q, e)) = Len(q) + 1 /\ Len(q) \in Nat
    OBVIOUS
  <1>2. DOMAIN q = 1..Len(q) /\ DOMAIN Append(q, e) = 1..(Len(q) + 1)
    BY <1>1
  <1>3. \A j \in 1..Len(q) : Append(q, e)[j] = q[j]
    OBVIOUS
  <1>4. Append(q, e)[Len(q) + 1] = e
    OBVIOUS
  <1>5. /\ \A i \in 1..(Len(q) + 1) : i \in 1..Len(q) \/ i = Len(q) + 1
        /\ \A i \in 1..Len(q) : i \in 1..(Len(q) + 1)
        /\ Len(q) + 1 \in 1..(Len(q) + 1)
    BY <1>1
  <1>6. ASSUME NEW x \in Elements(Append(q, e)) PROVE x \in Elements(q) \cup {e}
    BY <1>2, <1>3, <1>4, <1>5, <1>6 DEF Elements
  <1>7. ASSUME NEW x \in Elements(q) \cup {e} PROVE x \in Elements(Append(q, e))
    <2>1. CASE x = e
      BY <1>2, <1>4, <1>5, <2>1 DEF Elements
    <2>2. CASE x \in Elements(q)
      <3>1. PICK j \in 1..Len(q) : x = q[j]
        BY <1>2, <2>2 DEF Elements
      <3>2. j \in DOMAIN Append(q, e) /\ x = Append(q, e)[j]
        BY <1>2, <1>3, <1>5, <3>1
      <3> QED
        BY <3>2 DEF Elements
    <2> QED
      BY <1>7, <2>1, <2>2
  <1> QED
    BY <1>1, <1>6, <1>7

-----------------------------------------------------------------------------
(* Each conjunct of the invariant depends on some of the variables only. *)

(* A conjunct stays true when the variables it is about stay the same. *)
LEMMA Frames ==
    ASSUME LaneInvariant
    PROVE  /\ UNCHANGED <<pc, cur, tx, accepted, inbox>> => StageInvariant'
           /\ UNCHANGED <<tx, inbox>> => KeysDistinct'
           /\ UNCHANGED <<pc, tx, txns, outbox>> => NumbersDistinct'
           /\ UNCHANGED <<pub, batch, outbox, events, recent>> => PublisherInvariant'
           /\ UNCHANGED outbox => OneReplyPerCommand'
           /\ UNCHANGED <<inbox, outbox, status>> => RecordsAgree'
           /\ UNCHANGED <<settled, inbox>> => AckedImpliesRecorded'
           /\ UNCHANGED <<events, outbox, marked>> => StreamMatchesOutbox'
  <1> USE DEF LaneInvariant
  <1>1. UNCHANGED <<pc, cur, tx, accepted, inbox>> => StageInvariant'
    BY DEF StageInvariant, Stage, Recorded
  <1>2. UNCHANGED <<tx, inbox>> => KeysDistinct'
    BY DEF KeysDistinct
  <1>3. UNCHANGED <<pc, tx, txns, outbox>> => NumbersDistinct'
    BY DEF NumbersDistinct
  <1>4. UNCHANGED <<pub, batch, outbox, events, recent>> => PublisherInvariant'
    BY DEF PublisherInvariant
  <1>5. UNCHANGED outbox => OneReplyPerCommand'
    BY DEF OneReplyPerCommand
  <1>6. ASSUME UNCHANGED <<inbox, outbox, status>> PROVE RecordsAgree'
    <2>1. inbox' = inbox /\ outbox' = outbox /\ status' = status
      BY <1>6
    <2> QED
      BY <2>1, Zenon DEF RecordsAgree
  <1>7. UNCHANGED <<settled, inbox>> => AckedImpliesRecorded'
    BY DEF AckedImpliesRecorded, Recorded
  <1>8. UNCHANGED <<events, outbox, marked>> => StreamMatchesOutbox'
    BY DEF StreamMatchesOutbox
  <1> QED
    BY <1>1, <1>2, <1>3, <1>4, <1>5, <1>6, <1>7, <1>8

(* The invariant holds when the lane starts. *)
LEMMA InitInvariant ==
    Init => LaneInvariant
  <1> SUFFICES ASSUME Init PROVE LaneInvariant
    OBVIOUS
  <1>1. TypeOK
    BY BoundsAssumption DEF Init, TypeOK, NoTx, Transactions, Running
  <1>2. StageInvariant
    BY DEF Init, StageInvariant, Stage, InTransaction
  <1>3. KeysDistinct
    BY DEF Init, KeysDistinct, NoTx
  <1>4. NumbersDistinct
    BY DEF Init, NumbersDistinct, InTransaction
  <1>5. PublisherInvariant
    BY DEF Init, PublisherInvariant
  <1>6. OneReplyPerCommand /\ RecordsAgree /\ AckedImpliesRecorded /\ StreamMatchesOutbox
    BY DEF Init, OneReplyPerCommand, RecordsAgree, AckedImpliesRecorded, StreamMatchesOutbox
  <1> QED
    BY <1>1, <1>2, <1>3, <1>4, <1>5, <1>6 DEF LaneInvariant

-----------------------------------------------------------------------------
(* The environment. *)

(* The web server, the HTTP lane, the clock and the NATS server touch      *)
(* nothing that the invariant relates, except the dedupe window.           *)
LEMMA EnvironmentInvariant ==
    ASSUME LaneInvariant, Environment
    PROVE  LaneInvariant'
  <1> USE DEF LaneInvariant, streamVars, eventVars, dbVars, consumerVars, pubVars,
              envVars, histVars
  <1>1. CASE Tick
    <2>1. TypeOK'
      BY <1>1, BoundsAssumption DEF Tick, TypeOK, Transactions
    <2> QED
      BY <1>1, <2>1, Frames DEF Tick
  <1>2. ASSUME NEW m \in Msgs, SendCommand(m) PROVE LaneInvariant'
    <2>1. TypeOK'
      BY <1>2, Zenon DEF SendCommand, TypeOK, Transactions
    <2> QED
      BY <1>2, <2>1, Frames DEF SendCommand
  <1>3. ASSUME NEW m \in Msgs, LoseDelivery(m) PROVE LaneInvariant'
    <2>1. TypeOK'
      BY <1>3, BoundsAssumption, SMTT(30) DEF LoseDelivery, Deliverable, TypeOK, Transactions
    <2> QED
      BY <1>3, <2>1, Frames DEF LoseDelivery
  <1>4. ASSUME NEW a \in Owners, CreateAlert(a) PROVE LaneInvariant'
    <2>1. TypeOK'
      BY <1>4, BoundsAssumption DEF CreateAlert, TypeOK, Transactions
    <2> QED
      BY <1>4, <2>1, Frames DEF CreateAlert
  <1>5. ASSUME NEW id \in recent, LapseWindow(id) PROVE LaneInvariant'
    <2>1. TypeOK'
      BY <1>5, BoundsAssumption, SMTT(30) DEF LapseWindow, TypeOK, Transactions
    <2>2. PublisherInvariant'
      BY <1>5 DEF LapseWindow, PublisherInvariant
    <2> QED
      BY <1>5, <2>1, <2>2, Frames DEF LapseWindow
  <1> QED
    BY <1>1, <1>2, <1>3, <1>4, <1>5 DEF Environment

-----------------------------------------------------------------------------
(* The consumer outside a transaction. *)

(* A server that is outside a transaction once it has moved, while the     *)
(* others stay where they are, keeps every stage.                          *)
LEMMA OutsideTransaction ==
    ASSUME LaneInvariant, NEW s \in Servers,
           tx'[s] = NoTx, pc'[s] \notin InTransaction,
           pc'[s] = "term" => cur'[s] \in Msgs,
           pc'[s] = "ack" => cur'[s] \in accepted' /\ Recorded(cur[s])',
           \A t \in Servers \ {s} : tx'[t] = tx[t] /\ pc'[t] = pc[t] /\ cur'[t] = cur[t],
           inbox \subseteq inbox', accepted' = accepted
    PROVE  StageInvariant'
  <1>1. Stage(s)'
    BY Zenon DEF Stage, InTransaction
  <1>2. ASSUME NEW t \in Servers \ {s} PROVE Stage(t)'
    <2>1. Stage(t)
      BY DEF LaneInvariant, StageInvariant
    <2>2. tx'[t] = tx[t] /\ pc'[t] = pc[t] /\ cur'[t] = cur[t]
      OBVIOUS
    <2> QED
      BY <2>1, <2>2, Zenon DEF Stage, Recorded
  <1> QED
    BY <1>1, <1>2 DEF StageInvariant

(* Deliveries, setup and restart do not touch a transaction. *)
LEMMA IdleInvariant ==
    ASSUME LaneInvariant, NEW s \in Servers,
           Setup(s) \/ Restart(s) \/ (\E m \in Msgs : Deliver(s, m))
    PROVE  LaneInvariant'
  <1> USE DEF LaneInvariant, streamVars, eventVars, dbVars, consumerVars, pubVars,
              envVars, histVars
  <1>1. CASE Setup(s)
    <2>1. TypeOK'
      BY <1>1, Zenon DEF Setup, TypeOK, Transactions, Running
    <2>2. StageInvariant'
      <3>1. /\ pc[s] \in {"setup", "down"} /\ pc'[s] \in {"setup", "idle"}
            /\ \A t \in Servers \ {s} : pc'[t] = pc[t]
            /\ UNCHANGED <<tx, cur, accepted, inbox>>
        BY <1>1, Zenon DEF Setup, TypeOK
      <3>2. tx[s] = NoTx
        BY <3>1 DEF StageInvariant, Stage, InTransaction
      <3> QED
        BY <3>1, <3>2, OutsideTransaction DEF InTransaction
    <2>3. NumbersDistinct'
      BY <1>1 DEF Setup, TypeOK, NumbersDistinct, InTransaction
    <2>4. PublisherInvariant'
      BY <1>1 DEF Setup, TypeOK, PublisherInvariant
    <2> QED
      BY <1>1, <2>1, <2>2, <2>3, <2>4, Frames DEF Setup
  <1>2. CASE Restart(s)
    <2>1. TypeOK'
      BY <1>2 DEF Restart, TypeOK, Transactions, Running
    <2>2. StageInvariant'
      <3>1. /\ pc[s] \in {"setup", "down"} /\ pc'[s] \in {"setup", "idle"}
            /\ \A t \in Servers \ {s} : pc'[t] = pc[t]
            /\ UNCHANGED <<tx, cur, accepted, inbox>>
        BY <1>2 DEF Restart, TypeOK
      <3>2. tx[s] = NoTx
        BY <3>1 DEF StageInvariant, Stage, InTransaction
      <3> QED
        BY <3>1, <3>2, OutsideTransaction DEF InTransaction
    <2>3. NumbersDistinct'
      BY <1>2 DEF Restart, TypeOK, NumbersDistinct, InTransaction
    <2> QED
      BY <1>2, <2>1, <2>2, <2>3, Frames DEF Restart
  <1>3. ASSUME NEW m \in Msgs, Deliver(s, m) PROVE LaneInvariant'
    <2>1. TypeOK'
      BY <1>3, BoundsAssumption, SMTT(30) DEF Deliver, Deliverable, TypeOK, Transactions
    <2> QED
      BY <1>3, <2>1, Frames DEF Deliver
  <1> QED
    BY <1>1, <1>2, <1>3

(* A transaction begins with a number of its own and no rows. *)
LEMMA AcceptInvariant ==
    ASSUME LaneInvariant, NEW s \in Servers, Accept(s)
    PROVE  LaneInvariant'
  <1> USE DEF LaneInvariant, streamVars, eventVars, dbVars, pubVars, envVars
  <1> DEFINE new == [created |-> txns + 1, inbox |-> None, reply |-> None,
                     outbox |-> None, status |-> None]
  <1>1. Head(buffer[s]) \in Msgs /\ Tail(buffer[s]) \in Seq(Msgs)
    BY DEF Accept, TypeOK
  <1>2. [NoTx EXCEPT !.created = txns + 1] = new
    BY DEF NoTx
  <1>3. tx' = [tx EXCEPT ![s] = new] /\ txns' = txns + 1 /\ txns \in Nat
    BY <1>2, Zenon DEF Accept, TypeOK
  <1>4. new \in Transactions' /\ Transactions \subseteq Transactions'
    BY <1>3 DEF Transactions
  <1>5. tx' \in [Servers -> Transactions'] /\ marked \subseteq 1..txns'
    BY <1>3, <1>4 DEF TypeOK
  <1>6. /\ pc' \in [Servers -> Running \cup {"setup", "stopped", "down"}]
        /\ cur' \in [Servers -> {None} \cup Msgs]
        /\ buffer' \in [Servers -> Seq(Msgs)]
        /\ accepted' \subseteq Msgs
    BY <1>1 DEF Accept, TypeOK, Running, InTransaction
  <1>7. TypeOK'
    <2>1. UNCHANGED <<sent, deliveries, wait, settled, events, recent, lapses, inbox,
                      outbox, marked, status, alerts, pub, batch, now, crashes, errors>>
      BY DEF Accept
    <2> HIDE DEF new
    <2> QED
      BY <1>3, <1>5, <1>6, <2>1 DEF TypeOK
  <1>8. /\ tx'[s] = new
        /\ \A t \in Servers \ {s} : tx'[t] = tx[t] /\ pc'[t] = pc[t]
        /\ outbox' = outbox /\ inbox' = inbox
    BY <1>3, Zenon DEF Accept, TypeOK
  <1>9. StageInvariant'
    BY <1>1 DEF Accept, TypeOK, StageInvariant, Stage, Recorded, InTransaction, NoTx
  <1>10. KeysDistinct'
    BY <1>8 DEF KeysDistinct
  <1>11. NumbersDistinct'
    BY <1>3, <1>8 DEF NumbersDistinct
  <1> QED
    BY <1>7, <1>9, <1>10, <1>11, Frames DEF Accept

(* A message that fails a check is on its way to be terminated. *)
LEMMA RejectInvariant ==
    ASSUME LaneInvariant, NEW s \in Servers, Reject(s)
    PROVE  LaneInvariant'
  <1> USE DEF LaneInvariant, streamVars, eventVars, dbVars, pubVars, envVars, histVars
  <1>1. Head(buffer[s]) \in Msgs /\ Tail(buffer[s]) \in Seq(Msgs)
    BY DEF Reject, TypeOK
  <1>2. TypeOK'
    BY <1>1, Zenon DEF Reject, TypeOK, Transactions, Running
  <1>3. StageInvariant'
    <2>1. /\ pc[s] = "idle" /\ pc'[s] = "term" /\ cur'[s] \in Msgs
          /\ \A t \in Servers \ {s} : pc'[t] = pc[t] /\ cur'[t] = cur[t]
          /\ UNCHANGED <<tx, accepted, inbox>>
      BY <1>1, Zenon DEF Reject, TypeOK
    <2>2. tx[s] = NoTx
      BY <2>1 DEF StageInvariant, Stage, InTransaction
    <2> QED
      BY <2>1, <2>2, OutsideTransaction DEF InTransaction
  <1>4. NumbersDistinct'
    BY DEF Reject, TypeOK, NumbersDistinct, InTransaction
  <1> QED
    BY <1>2, <1>3, <1>4, Frames DEF Reject

(* The message of an acknowledgement is on record; whether it arrives or   *)
(* is lost, the consumer goes on to the next message.                      *)
LEMMA AcknowledgeInvariant ==
    ASSUME LaneInvariant, NEW s \in Servers, Acknowledge(s) \/ LoseAck(s)
    PROVE  LaneInvariant'
  <1> USE DEF LaneInvariant, streamVars, eventVars, dbVars, pubVars, envVars, histVars
  <1>1. /\ pc[s] \in {"ack", "term"}
        /\ pc' = [pc EXCEPT ![s] = "idle"]
        /\ cur' = [cur EXCEPT ![s] = None]
        /\ UNCHANGED <<sent, deliveries, eventVars, dbVars, buffer, tx, pubVars,
                       envVars, histVars>>
    BY Zenon DEF Acknowledge, LoseAck
  <1>2. cur[s] \in Msgs
    BY <1>1, Zenon DEF StageInvariant, Stage, TypeOK
  <1>3. /\ settled' \in [Msgs -> {"no", "ack", "term"}]
        /\ wait' \in [Msgs -> 0..AckWait]
    <2>1. CASE UNCHANGED <<settled, wait>>
      BY <2>1 DEF TypeOK
    <2>2. CASE \E how \in {"ack", "term"} : Settle(cur[s], how)
      BY <1>2, <2>2, BoundsAssumption DEF Settle, TypeOK
    <2> QED
      BY <2>1, <2>2 DEF Acknowledge, LoseAck
  <1>4. TypeOK'
    BY <1>1, <1>3, Zenon DEF TypeOK, Transactions, Running
  <1>5. StageInvariant'
    <2>1. /\ pc'[s] = "idle"
          /\ \A t \in Servers \ {s} : pc'[t] = pc[t] /\ cur'[t] = cur[t]
          /\ UNCHANGED <<tx, accepted, inbox>>
      BY <1>1, Zenon DEF TypeOK
    <2>2. tx[s] = NoTx
      BY <1>1, Zenon DEF StageInvariant, Stage, InTransaction
    <2> QED
      BY <2>1, <2>2, OutsideTransaction, Zenon DEF InTransaction
  <1>6. NumbersDistinct'
    BY <1>1, Zenon DEF TypeOK, NumbersDistinct, InTransaction
  <1>7. AckedImpliesRecorded'
    BY <1>1, <1>2, Zenon DEF Acknowledge, LoseAck, Settle, TypeOK, AckedImpliesRecorded,
                      Recorded, StageInvariant, Stage
  <1> QED
    BY <1>1, <1>4, <1>5, <1>6, <1>7, Frames

-----------------------------------------------------------------------------
(* The consumer inside a transaction. *)

(* A step inside the transaction of s changes pc[s] and tx[s] only. *)
LEMMA TransactionStepTypes ==
    ASSUME TypeOK, NEW s \in Servers, NEW p \in InTransaction,
           pc' = [pc EXCEPT ![s] = p],
           tx' \in [Servers -> Transactions],
           UNCHANGED <<streamVars, eventVars, dbVars, buffer, cur, pubVars, envVars,
                       histVars>>
    PROVE  TypeOK'
  <1>1. Transactions' = Transactions
    BY DEF Transactions, histVars
  <1>2. pc' \in [Servers -> Running \cup {"setup", "stopped", "down"}]
    BY DEF TypeOK, Running
  <1> QED
    BY <1>1, <1>2, Zenon DEF TypeOK, streamVars, eventVars, dbVars, pubVars, envVars, histVars

(* A row put into the transaction of s leaves the other transactions and   *)
(* the number of this one alone.                                           *)
LEMMA TransactionUpdates ==
    ASSUME TypeOK, NEW s \in Servers
    PROVE  /\ \A r \in InboxRows :
                 [tx EXCEPT ![s].inbox = r] \in [Servers -> Transactions]
           /\ \A r \in Replies :
                 [tx EXCEPT ![s].reply = r] \in [Servers -> Transactions]
           /\ \A r \in OutboxRows :
                 [tx EXCEPT ![s].outbox = r] \in [Servers -> Transactions]
           /\ \A r \in StatusRows :
                 [tx EXCEPT ![s].status = r] \in [Servers -> Transactions]
  <1>1. tx[s] \in Transactions /\ tx \in [Servers -> Transactions]
    BY DEF TypeOK
  <1>2. /\ \A r \in InboxRows : [tx[s] EXCEPT !.inbox = r] \in Transactions
        /\ \A r \in Replies : [tx[s] EXCEPT !.reply = r] \in Transactions
        /\ \A r \in OutboxRows : [tx[s] EXCEPT !.outbox = r] \in Transactions
        /\ \A r \in StatusRows : [tx[s] EXCEPT !.status = r] \in Transactions
    BY <1>1 DEF Transactions
  <1> HIDE DEF Transactions
  <1> QED
    BY <1>1, <1>2

(* Numbers stay distinct while no transaction begins or commits a row. *)
LEMMA NumbersStep ==
    ASSUME NumbersDistinct, UNCHANGED <<txns, outbox>>,
           \A t \in Servers : tx'[t].created = tx[t].created,
           \A t \in Servers : pc'[t] \in InTransaction => pc[t] \in InTransaction
    PROVE  NumbersDistinct'
  BY DEF NumbersDistinct

(* An inserted row conflicts with no committed row and with no row of      *)
(* another transaction; a duplicate is on record.                          *)
LEMMA InsertInboxInvariant ==
    ASSUME LaneInvariant, NEW s \in Servers, InsertInbox(s)
    PROVE  LaneInvariant'
  <1> USE DEF LaneInvariant, streamVars, eventVars, dbVars, pubVars, envVars, histVars
  <1>1. cur[s] \in Msgs /\ cur[s] \in accepted
    BY DEF InsertInbox, StageInvariant, Stage, TypeOK, InTransaction
  <1>2. InboxRow(cur[s]) \in InboxRows /\ InboxRow(cur[s]) # None
    BY <1>1, RowTypes
  <1>3. CASE InboxInserts(s)
    <2>1. /\ pc' = [pc EXCEPT ![s] = "read"]
          /\ tx' = [tx EXCEPT ![s].inbox = InboxRow(cur[s])]
          /\ UNCHANGED <<streamVars, eventVars, dbVars, buffer, cur, pubVars, envVars,
                         histVars>>
      BY <1>3 DEF InsertInbox
    <2>2. TypeOK'
      BY <1>2, <2>1, TransactionUpdates, TransactionStepTypes, Zenon DEF InTransaction
    <2>3. StageInvariant'
      BY <1>1, <2>1 DEF InsertInbox, TypeOK, Transactions, StageInvariant, Stage, Recorded,
                        InTransaction
    <2>4. /\ tx'[s].inbox = InboxRow(cur[s])
          /\ tx'[s].created = tx[s].created
          /\ \A t \in Servers \ {s} : tx'[t] = tx[t] /\ pc'[t] = pc[t]
          /\ pc[s] = "inbox"
      BY <2>1 DEF InsertInbox, TypeOK, Transactions
    <2>5. KeysDistinct'
      BY <1>3, <2>1, <2>4, ConflictsSymmetric
      DEF InsertInbox, InboxInserts, InsertBlocked, KeysDistinct
    <2>6. NumbersDistinct'
      BY <2>1, <2>4 DEF NumbersDistinct, InTransaction
    <2> QED
      BY <2>1, <2>2, <2>3, <2>5, <2>6, Frames
  <1>4. CASE ~InboxInserts(s)
    <2>1. /\ pc' = [pc EXCEPT ![s] = "commit"]
          /\ UNCHANGED <<streamVars, eventVars, dbVars, buffer, cur, tx, pubVars, envVars,
                         histVars>>
      BY <1>4 DEF InsertInbox
    <2>2. TypeOK'
      BY <2>1 DEF TypeOK, Transactions, Running, InTransaction
    <2>3. Recorded(cur[s])
      BY <1>4 DEF InboxInserts, Recorded
    <2>4. StageInvariant'
      BY <1>1, <2>1, <2>3 DEF InsertInbox, TypeOK, StageInvariant, Stage, Recorded, InTransaction
    <2>5. NumbersDistinct'
      BY <2>1 DEF InsertInbox, TypeOK, NumbersDistinct, InTransaction
    <2> QED
      BY <2>1, <2>2, <2>4, <2>5, Frames
  <1> QED
    BY <1>3, <1>4

(* The reply is about the owner that the command names. *)
LEMMA ReadAlertsInvariant ==
    ASSUME LaneInvariant, NEW s \in Servers, ReadAlerts(s)
    PROVE  LaneInvariant'
  <1> USE DEF LaneInvariant, streamVars, eventVars, dbVars, pubVars, envVars, histVars
  <1>1. cur[s] \in Msgs /\ cur[s] \in accepted
    BY DEF ReadAlerts, StageInvariant, Stage, TypeOK, InTransaction
  <1>2. ListedRows(cur[s]) \in 0..ListLimit
    <2>1. OwnerOf(Command[cur[s]]) \in Owners
      BY <1>1, RowTypes
    <2>2. alerts \in [Owners -> 0..MaxAlerts]
      BY DEF TypeOK
    <2> HIDE DEF LaneInvariant
    <2>3. alerts[OwnerOf(Command[cur[s]])] \in 0..MaxAlerts
      BY <2>1, <2>2
    <2> QED
      BY <2>3, BoundsAssumption DEF ListedRows
  <1>3. PICK reply \in Replies : /\ reply.owner = OwnerOf(Command[cur[s]])
                                 /\ tx' = [tx EXCEPT ![s].reply = reply]
    <2>1. /\ CompletedReply(cur[s], ListedRows(cur[s])) \in Replies
          /\ ErrorReply(cur[s], "unavailable") \in Replies
          /\ ErrorReply(cur[s], "timeout") \in Replies
      BY <1>1, <1>2, RowTypes
    <2>2. /\ CompletedReply(cur[s], ListedRows(cur[s])).owner = OwnerOf(Command[cur[s]])
          /\ ErrorReply(cur[s], "unavailable").owner = OwnerOf(Command[cur[s]])
          /\ ErrorReply(cur[s], "timeout").owner = OwnerOf(Command[cur[s]])
      BY DEF CompletedReply, ErrorReply
    <2> QED
      BY <2>1, <2>2, Zenon DEF ReadAlerts
  <1>4. /\ pc[s] = "read"
        /\ pc' = [pc EXCEPT ![s] = "enqueue"]
        /\ UNCHANGED <<streamVars, eventVars, dbVars, buffer, cur, pubVars, envVars,
                       histVars>>
    BY DEF ReadAlerts
  <1>5. TypeOK'
    BY <1>3, <1>4, TransactionUpdates, TransactionStepTypes, Zenon DEF InTransaction
  <1>6. StageInvariant'
    BY <1>1, <1>3, <1>4 DEF TypeOK, Transactions, StageInvariant, Stage, Recorded, InTransaction
  <1>7. \A t \in Servers : /\ tx'[t].inbox = tx[t].inbox
                           /\ tx'[t].created = tx[t].created
    BY <1>3 DEF TypeOK, Transactions
  <1>8. KeysDistinct'
    BY <1>4, <1>7, Zenon DEF KeysDistinct
  <1>9. NumbersDistinct'
    BY <1>4, <1>7, NumbersStep, Zenon DEF TypeOK, InTransaction
  <1> QED
    BY <1>4, <1>5, <1>6, <1>8, <1>9, Frames

(* The key of the reply is free: its owner would be a committed command    *)
(* that conflicts with the one of this transaction.                        *)
LEMMA EnqueueReplyInvariant ==
    ASSUME LaneInvariant, NEW s \in Servers, EnqueueReply(s)
    PROVE  LaneInvariant'
  <1> USE DEF LaneInvariant, streamVars, eventVars, dbVars, pubVars, envVars, histVars
  <1> DEFINE row == EventEnvelope(cur[s], tx[s].created, tx[s].reply)
  <1>1. /\ cur[s] \in Msgs /\ cur[s] \in accepted
        /\ tx[s].inbox = InboxRow(cur[s])
        /\ tx[s].reply \in Replies
        /\ tx[s].reply.owner = OwnerOf(Command[cur[s]])
        /\ tx[s].created \in Nat
    BY SMTT(30) DEF EnqueueReply, StageInvariant, Stage, TypeOK, InTransaction, Transactions
  <1>2. row \in OutboxRows
    BY <1>1, RowTypes
  <1>3. \A e \in outbox : e.dedupe_key # row.dedupe_key
    <2> SUFFICES ASSUME NEW e \in outbox, e.dedupe_key = row.dedupe_key PROVE FALSE
      OBVIOUS
    <2>1. PICK r \in inbox : ReplyKey(r.dedupe_key) = e.dedupe_key
      BY Zenon DEF RecordsAgree
    <2>2. r.dedupe_key = InboxRow(cur[s]).dedupe_key
      BY <2>1, ReplyKeyInjective, Zenon DEF EventEnvelope, InboxRow
    <2>3. ~Conflicts(r, InboxRow(cur[s]))
      BY <1>1, RowTypes, Zenon DEF KeysDistinct
    <2> QED
      BY <2>2, <2>3 DEF Conflicts
  <1>4. /\ pc[s] = "enqueue"
        /\ pc' = [pc EXCEPT ![s] = "status"]
        /\ tx' = [tx EXCEPT ![s].outbox = row]
        /\ UNCHANGED <<streamVars, eventVars, dbVars, buffer, cur, pubVars, envVars,
                       histVars>>
    BY <1>3 DEF EnqueueReply
  <1> HIDE DEF row
  <1>5. TypeOK'
    BY <1>2, <1>4, TransactionUpdates, TransactionStepTypes, Zenon DEF InTransaction
  <1>6. StageInvariant'
    BY <1>1, <1>4 DEF row, TypeOK, Transactions, StageInvariant, Stage, Recorded, InTransaction
  <1>7. \A t \in Servers : /\ tx'[t].inbox = tx[t].inbox
                           /\ tx'[t].created = tx[t].created
    BY <1>4 DEF TypeOK, Transactions
  <1>8. KeysDistinct'
    BY <1>4, <1>7 DEF KeysDistinct
  <1>9. NumbersDistinct'
    BY <1>4, <1>7, NumbersStep DEF TypeOK, InTransaction
  <1> QED
    BY <1>4, <1>5, <1>6, <1>8, <1>9, Frames

(* The status row repeats the status of the reply. *)
LEMMA RecordStatusInvariant ==
    ASSUME LaneInvariant, NEW s \in Servers, RecordStatus(s)
    PROVE  LaneInvariant'
  <1> USE DEF LaneInvariant, streamVars, eventVars, dbVars, pubVars, envVars, histVars
  <1> DEFINE row == StatusRow(cur[s], tx[s].reply.status)
  <1>1. cur[s] \in Msgs /\ cur[s] \in accepted /\ tx[s].reply \in Replies
    BY Zenon DEF RecordStatus, StageInvariant, Stage, TypeOK, InTransaction
  <1>2. row \in StatusRows
    BY <1>1, RowTypes, Zenon DEF Replies
  <1>3. /\ pc[s] = "status"
        /\ pc' = [pc EXCEPT ![s] = "commit"]
        /\ tx' = [tx EXCEPT ![s].status = row]
        /\ UNCHANGED <<streamVars, eventVars, dbVars, buffer, cur, pubVars, envVars,
                       histVars>>
    BY DEF RecordStatus
  <1> HIDE DEF row
  <1>4. TypeOK'
    BY <1>2, <1>3, TransactionUpdates, TransactionStepTypes, Zenon DEF InTransaction
  <1>5. StageInvariant'
    BY <1>1, <1>3 DEF row, TypeOK, Transactions, StageInvariant, Stage, Recorded, InTransaction
  <1>6. \A t \in Servers : /\ tx'[t].inbox = tx[t].inbox
                           /\ tx'[t].created = tx[t].created
    BY <1>3 DEF TypeOK, Transactions
  <1>7. KeysDistinct'
    BY <1>3, <1>6 DEF KeysDistinct
  <1>8. NumbersDistinct'
    BY <1>3, <1>6, NumbersStep DEF TypeOK, InTransaction
  <1> QED
    BY <1>3, <1>4, <1>5, <1>7, <1>8, Frames
=============================================================================
