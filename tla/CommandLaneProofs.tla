------------------------- MODULE CommandLaneProofs --------------------------
(***************************************************************************)
(* Third part of the proofs about CommandLane: the publisher preserves     *)
(* LaneInvariant, which is therefore an invariant for every set of processes*)
(* and messages and every value of the bounds; the safety properties of the*)
(* lane are among its conjuncts or follow from it.                         *)
(***************************************************************************)
EXTENDS CommandLaneCommit, FiniteSetTheorems

-----------------------------------------------------------------------------
(* The publisher. *)

(* After a publish the row is on the stream: the stream stored it, or the  *)
(* id in its dedupe window belongs to this very row.                       *)
LEMMA PublishedRow ==
    ASSUME LaneInvariant, NEW row \in outbox, StoreEvent(row)
    PROVE  /\ events' \in Seq(OutboxRows)
           /\ \A i \in DOMAIN events' : events'[i] \in outbox
           /\ \A j \in DOMAIN events : \E i \in DOMAIN events' : events'[i] = events[j]
           /\ \E i \in DOMAIN events' : events'[i] = row
           /\ recent' = recent \cup {row.dedupe_key} /\ recent' \subseteq ReplyKeys
           /\ lapses' = lapses
  <1> USE DEF LaneInvariant
  <1>1. /\ events \in Seq(OutboxRows) /\ row \in OutboxRows
        /\ \A i \in DOMAIN events : events[i] \in outbox
    BY DEF TypeOK, StreamMatchesOutbox
  <1>2. recent' = recent \cup {row.dedupe_key} /\ lapses' = lapses
    BY DEF StoreEvent, MsgId
  <1>3. recent' \subseteq ReplyKeys
    BY <1>1, <1>2 DEF TypeOK, OutboxRows
  <1>4. CASE row.dedupe_key \in recent
    <2>1. events' = events
      BY <1>4 DEF StoreEvent, MsgId
    <2>2. PICK i \in DOMAIN events : events[i].dedupe_key = row.dedupe_key
      BY <1>4 DEF PublisherInvariant
    <2>3. events[i] = row
      BY <1>1, <2>2 DEF OneReplyPerCommand
    <2> QED
      BY <1>1, <1>2, <1>3, <2>1, <2>3
  <1>5. CASE row.dedupe_key \notin recent
    <2>1. events' = Append(events, row)
      BY <1>5 DEF StoreEvent, MsgId
    <2>2. events' \in Seq(OutboxRows) /\ Elements(events') = Elements(events) \cup {row}
      BY <1>1, <2>1, AppendElements
    <2> QED
      BY <1>1, <1>2, <1>3, <2>2, Zenon DEF Elements
  <1> QED
    BY <1>4, <1>5

(* A batch has one next row, since numbers are distinct. *)
LEMMA NextRowUnique ==
    ASSUME LaneInvariant, NEW s \in Servers,
           NEW e \in NextRows(batch[s]), NEW f \in NextRows(batch[s])
    PROVE  e = f /\ e \in outbox /\ e \in batch[s]
  <1> USE DEF LaneInvariant
  <1>1. e \in outbox /\ f \in outbox /\ e \in batch[s] /\ f \in batch[s]
    BY DEF NextRows, PublisherInvariant
  <1>2. e.event_id \in Nat /\ f.event_id \in Nat
    BY <1>1 DEF TypeOK, OutboxRows
  <1>3. e.event_id <= f.event_id /\ f.event_id <= e.event_id
    BY <1>1 DEF NextRows
  <1>4. e.event_id = f.event_id
    BY <1>2, <1>3
  <1> QED
    BY <1>1, <1>4 DEF NumbersDistinct

(* A publisher publishes committed rows and marks those on the stream.     *)
LEMMA PublisherStep ==
    ASSUME LaneInvariant, NEW s \in Servers, Publisher(s)
    PROVE  LaneInvariant'
  <1> USE DEF LaneInvariant, streamVars, eventVars, dbVars, consumerVars, pubVars,
              envVars, histVars
  <1>1. CASE SelectPending(s)
    <2>1. SelectedRows \subseteq outbox
      BY DEF SelectedRows, Pending
    <2>2. TypeOK'
      BY <1>1, <2>1, Zenon DEF SelectPending, TypeOK, Transactions
    <2>3. PublisherInvariant'
      BY <1>1, <2>1 DEF SelectPending, TypeOK, PublisherInvariant
    <2> QED
      BY <1>1, <2>2, <2>3, Frames DEF SelectPending
  <1>2. CASE PublishError(s)
    <2>1. TypeOK'
      BY <1>2 DEF PublishError, LeaveBatch, TypeOK, Transactions
    <2>2. PublisherInvariant'
      BY <1>2 DEF PublishError, LeaveBatch, TypeOK, PublisherInvariant
    <2> QED
      BY <1>2, <2>1, <2>2, Frames DEF PublishError
  <1>3. CASE PublishReply(s) \/ PublishUnacknowledged(s)
    <2>1. PICK row \in NextRows(batch[s]) : StoreEvent(row)
      BY <1>3 DEF PublishReply, PublishUnacknowledged
    <2>2. row \in outbox /\ \A e \in NextRows(batch[s]) : e = row
      BY <2>1, NextRowUnique
    <2>3. /\ events' \in Seq(OutboxRows)
          /\ \A i \in DOMAIN events' : events'[i] \in outbox
          /\ \A j \in DOMAIN events : \E i \in DOMAIN events' : events'[i] = events[j]
          /\ \E i \in DOMAIN events' : events'[i] = row
          /\ recent' = recent \cup {row.dedupe_key} /\ recent' \subseteq ReplyKeys
          /\ lapses' = lapses
      BY <2>1, <2>2, PublishedRow
    <2>4. /\ UNCHANGED <<streamVars, dbVars, consumerVars, envVars, histVars>>
          /\ \A t \in Servers \ {s} : pub'[t] = pub[t] /\ batch'[t] = batch[t]
          /\ \/ pub'[s] = "mark" /\ batch'[s] = batch[s]
             \/ pub'[s] = "sleep" /\ batch'[s] = {}
          /\ pub' \in [Servers -> {"off", "sleep", "publish", "mark"}]
          /\ batch' \in [Servers -> SUBSET OutboxRows]
      BY <1>3, Zenon DEF PublishReply, PublishUnacknowledged, LeaveBatch, TypeOK
    <2>5. TypeOK'
      BY <2>3, <2>4 DEF TypeOK, Transactions
    <2>6. PublisherInvariant'
      <3>1. \A t \in Servers : batch'[t] \subseteq outbox'
        BY <2>4 DEF PublisherInvariant
      <3>2. ASSUME NEW t \in Servers, pub'[t] = "mark", NEW e \in NextRows(batch'[t])
            PROVE  \E i \in DOMAIN events' : events'[i] = e
        <4>1. CASE t = s
          BY <2>2, <2>3, <2>4, <3>2, <4>1
        <4>2. CASE t # s
          <5>1. PICK j \in DOMAIN events : events[j] = e
            BY <2>4, <3>2, <4>2 DEF PublisherInvariant
          <5> QED
            BY <2>3, <5>1
        <4> QED
          BY <4>1, <4>2
      <3>3. ASSUME NEW id \in recent'
            PROVE  \E i \in DOMAIN events' : events'[i].dedupe_key = id
        <4>1. CASE id = row.dedupe_key
          BY <2>3, <4>1
        <4>2. CASE id \in recent
          <5>1. PICK j \in DOMAIN events : events[j].dedupe_key = id
            BY <4>2 DEF PublisherInvariant
          <5> QED
            BY <2>3, <5>1
        <4> QED
          BY <2>3, <4>1, <4>2
      <3> QED
        BY <3>1, <3>2, <3>3, Zenon DEF PublisherInvariant, NextRows
    <2>7. StreamMatchesOutbox'
      <3>1. ASSUME NEW id \in marked PROVE \E i \in DOMAIN events' : events'[i].event_id = id
        <4>1. PICK j \in DOMAIN events : events[j].event_id = id
          BY DEF StreamMatchesOutbox
        <4> QED
          BY <2>3, <4>1
      <3> QED
        BY <2>3, <2>4, <3>1 DEF StreamMatchesOutbox
    <2> QED
      BY <2>4, <2>5, <2>6, <2>7, Frames
  <1>4. CASE MarkPublished(s)
    <2>1. PICK row \in NextRows(batch[s]) :
             /\ marked' = marked \cup {row.event_id}
             /\ \/ /\ batch' = [batch EXCEPT ![s] = @ \ {row}]
                   /\ pub' = [pub EXCEPT ![s] = IF batch[s] = {row} THEN "sleep"
                                                ELSE "publish"]
                \/ LeaveBatch(s)
      BY <1>4 DEF MarkPublished
    <2>2. row \in outbox /\ \E i \in DOMAIN events : events[i] = row
      BY <1>4, <2>1, NextRowUnique DEF MarkPublished, PublisherInvariant
    <2>3. UNCHANGED <<streamVars, eventVars, inbox, outbox, status, consumerVars,
                      envVars, histVars>>
      BY <1>4 DEF MarkPublished
    <2>4. /\ \A t \in Servers \ {s} : pub'[t] = pub[t] /\ batch'[t] = batch[t]
          /\ pub'[s] \in {"sleep", "publish"} /\ batch'[s] \subseteq batch[s]
          /\ pub' \in [Servers -> {"off", "sleep", "publish", "mark"}]
          /\ batch' \in [Servers -> SUBSET OutboxRows]
      <3>1. CASE LeaveBatch(s)
        BY <3>1 DEF LeaveBatch, TypeOK
      <3>2. CASE /\ batch' = [batch EXCEPT ![s] = @ \ {row}]
                 /\ \E p \in {"sleep", "publish"} : pub' = [pub EXCEPT ![s] = p]
        BY <3>2 DEF TypeOK
      <3> QED
        BY <2>1, <3>1, <3>2
    <2>5. marked' \subseteq 1..txns
      BY <2>1, <2>2, Zenon DEF TypeOK, NumbersDistinct
    <2>6. TypeOK'
      BY <2>3, <2>4, <2>5, Zenon DEF TypeOK, Transactions
    <2>7. PublisherInvariant'
      <3>1. PublisherInvariant /\ UNCHANGED <<events, recent, outbox>>
        BY <2>3
      <3> HIDE DEF LaneInvariant
      <3> QED
        BY <2>4, <3>1 DEF PublisherInvariant, NextRows
    <2>8. StreamMatchesOutbox'
      BY <2>1, <2>2, <2>3 DEF StreamMatchesOutbox
    <2> QED
      BY <2>3, <2>6, <2>7, <2>8, Frames
  <1> QED
    BY <1>1, <1>2, <1>3, <1>4 DEF Publisher

-----------------------------------------------------------------------------
(* The theorems. *)

(* LaneInvariant holds in every state: each step of the consumers, the     *)
(* publishers, the faults and the environment preserves it.                *)
THEOREM LaneInvariantHolds ==
    Spec => []LaneInvariant
  <1>1. LaneInvariant /\ [Next]_vars => LaneInvariant'
    <2> SUFFICES ASSUME LaneInvariant, [Next]_vars PROVE LaneInvariant'
      OBVIOUS
    <2>1. CASE Environment
      BY <2>1, EnvironmentInvariant
    <2>2. ASSUME NEW s \in Servers, Consumer(s) PROVE LaneInvariant'
      BY <2>2, IdleInvariant, AcceptInvariant, RejectInvariant, InsertInboxInvariant,
         ReadAlertsInvariant, EnqueueReplyInvariant, RecordStatusInvariant,
         CommitInvariant, AcknowledgeInvariant DEF Consumer
    <2>3. ASSUME NEW s \in Servers, Faults(s) PROVE LaneInvariant'
      BY <2>3, StopInvariant, AcknowledgeInvariant DEF Faults
    <2>4. ASSUME NEW s \in Servers, Publisher(s) PROVE LaneInvariant'
      BY <2>4, PublisherStep
    <2>5. ASSUME NEW s \in Servers, Restart(s) \/ \E m \in Msgs : Deliver(s, m)
          PROVE  LaneInvariant'
      BY <2>5, IdleInvariant
    <2>6. CASE UNCHANGED vars
      <3>1. TypeOK'
        BY <2>6 DEF LaneInvariant, TypeOK, Transactions, vars, streamVars, eventVars,
                    dbVars, consumerVars, pubVars, envVars, histVars
      <3> QED
        BY <2>6, <3>1, Frames, Zenon DEF LaneInvariant, vars, streamVars, eventVars, dbVars,
                                  consumerVars, pubVars, envVars, histVars
    <2> QED
      BY <2>1, <2>2, <2>3, <2>4, <2>5, <2>6 DEF Next
  <1> QED
    BY <1>1, InitInvariant, PTL DEF Spec

(* Every variable keeps its type, whatever the processes, commands and     *)
(* faults.                                                                 *)
THEOREM TypeCorrect ==
    Spec => []TypeOK
  <1>1. LaneInvariant => TypeOK
    BY DEF LaneInvariant
  <1> QED
    BY <1>1, LaneInvariantHolds, PTL

(* A command leaves one reply, for any number of processes and messages.   *)
THEOREM OneReply ==
    Spec => []OneReplyPerCommand
  <1>1. LaneInvariant => OneReplyPerCommand
    BY DEF LaneInvariant
  <1> QED
    BY <1>1, LaneInvariantHolds, PTL

(* Inbox, outbox and status agree in every state. *)
THEOREM TablesAgree ==
    Spec => []RecordsAgree
  <1>1. LaneInvariant => RecordsAgree
    BY DEF LaneInvariant
  <1> QED
    BY <1>1, LaneInvariantHolds, PTL

(* An acknowledged command is on record. *)
THEOREM AckIsSafe ==
    Spec => []AckedImpliesRecorded
  <1>1. LaneInvariant => AckedImpliesRecorded
    BY DEF LaneInvariant
  <1> QED
    BY <1>1, LaneInvariantHolds, PTL

(* Only committed replies are published, and only published ones marked.   *)
THEOREM PublishIsSafe ==
    Spec => []StreamMatchesOutbox
  <1>1. LaneInvariant => StreamMatchesOutbox
    BY DEF LaneInvariant
  <1> QED
    BY <1>1, LaneInvariantHolds, PTL

(* Only a commit and a mark change the records. *)
LEMMA WhatChangesRecords ==
    ASSUME LaneInvariant, [Next]_vars
    PROVE  \/ UNCHANGED dbVars
           \/ \E s \in Servers : pc[s] = "commit" /\ CommitRows(s)
           \/ \E id : marked' = marked \cup {id} /\ UNCHANGED <<inbox, outbox, status>>
  <1>1. CASE Environment
    BY <1>1 DEF Environment, Tick, SendCommand, LoseDelivery, CreateAlert, LapseWindow
  <1>2. ASSUME NEW s \in Servers, Consumer(s)
        PROVE  UNCHANGED dbVars \/ (pc[s] = "commit" /\ CommitRows(s))
    BY <1>2 DEF Consumer, Setup, Accept, Reject, InsertInbox, ReadAlerts, EnqueueReply,
                RecordStatus, Commit, Acknowledge
  <1>3. ASSUME NEW s \in Servers, Faults(s)
        PROVE  UNCHANGED dbVars \/ (pc[s] = "commit" /\ CommitRows(s))
    BY <1>3 DEF Faults, LoseAck, ConsumerError, CommitUnknown, Crash
  <1>4. ASSUME NEW s \in Servers, Publisher(s)
        PROVE  \/ UNCHANGED dbVars
               \/ \E id : marked' = marked \cup {id} /\ UNCHANGED <<inbox, outbox, status>>
    BY <1>4, Zenon DEF Publisher, SelectPending, PublishReply, PublishUnacknowledged,
                PublishError, MarkPublished
  <1>5. ASSUME NEW s \in Servers, Restart(s) \/ \E m \in Msgs : Deliver(s, m)
        PROVE  UNCHANGED dbVars
    BY <1>5 DEF Restart, Deliver
  <1>6. CASE UNCHANGED vars
    BY <1>6 DEF vars
  <1> QED
    BY <1>1, <1>2, <1>3, <1>4, <1>5, <1>6, Zenon DEF Next

(* No step takes a record back.  The upsert of the status never meets a    *)
(* row: a second command under a correlation id conflicts in the inbox.    *)
THEOREM RecordsStay ==
    Spec => RecordsPermanent
  <1>1. LaneInvariant /\ [Next]_vars => [RecordsKept]_vars
    <2> SUFFICES ASSUME LaneInvariant, [Next]_vars PROVE RecordsKept
      OBVIOUS
    <2>1. CASE UNCHANGED dbVars
      BY <2>1 DEF RecordsKept, dbVars
    <2>2. ASSUME NEW s \in Servers, pc[s] = "commit", CommitRows(s) PROVE RecordsKept
      <3>1. CASE tx[s].inbox = None
        BY <2>2, <3>1, DuplicateCommitsNothing DEF RecordsKept
      <3>2. CASE tx[s].inbox # None
        <4>1. /\ inbox \subseteq inbox' /\ outbox \subseteq outbox' /\ marked' = marked
              /\ status[Command[cur[s]].correlation_id] = None
              /\ \E st : status' = [status EXCEPT ![Command[cur[s]].correlation_id] = st]
          BY <2>2, <3>2, CommittedRows, Zenon
        <4> QED
          BY <4>1, Zenon DEF RecordsKept, LaneInvariant, TypeOK
      <3> QED
        BY <3>1, <3>2
    <2>3. CASE \E id : marked' = marked \cup {id} /\ UNCHANGED <<inbox, outbox, status>>
      BY <2>3 DEF RecordsKept
    <2> QED
      BY <2>1, <2>2, <2>3, WhatChangesRecords
  <1> QED
    BY <1>1, LaneInvariantHolds, PTL DEF Spec, RecordsPermanent

(* Whatever passed the checks was signed for this product. *)
AcceptedAreSigned ==
    \A m \in accepted : /\ verify_command_signature(Command[m])
                        /\ Command[m].product_tenant = ProductTenant

(* A step forgets no accepted message, and adds one only if it passed. *)
LEMMA AcceptedGrows ==
    ASSUME [Next]_vars
    PROVE  /\ accepted \subseteq accepted'
           /\ \A m \in accepted' : m \in accepted \/ Acceptable(m)
  <1>1. CASE Environment
    BY <1>1 DEF Environment, Tick, SendCommand, LoseDelivery, CreateAlert,
                LapseWindow, histVars
  <1>2. ASSUME NEW s \in Servers, Consumer(s)
        PROVE  /\ accepted \subseteq accepted'
               /\ \A m \in accepted' : m \in accepted \/ Acceptable(m)
    BY <1>2, Zenon DEF Consumer, Setup, Accept, Reject, InsertInbox, ReadAlerts,
                EnqueueReply, RecordStatus, Commit, Acknowledge, histVars
  <1>3. ASSUME NEW s \in Servers,
               \/ Faults(s) \/ Publisher(s) \/ Restart(s)
               \/ \E m \in Msgs : Deliver(s, m)
        PROVE  accepted' = accepted
    BY <1>3 DEF Faults, LoseAck, ConsumerError, CommitUnknown, Crash, Publisher,
                SelectPending, PublishReply, PublishUnacknowledged, PublishError,
                MarkPublished, Restart, Deliver, histVars
  <1>4. CASE UNCHANGED vars
    BY <1>4 DEF vars, histVars
  <1> QED
    BY <1>1, <1>2, <1>3, <1>4 DEF Next

(* Nothing is accepted without a signature for this product. *)
LEMMA AcceptedSigned ==
    Spec => []AcceptedAreSigned
  <1>1. Init => AcceptedAreSigned
    BY DEF Init, AcceptedAreSigned
  <1>2. AcceptedAreSigned /\ [Next]_vars => AcceptedAreSigned'
    BY AcceptedGrows DEF AcceptedAreSigned, Acceptable, verify_command_signature
  <1> QED
    BY <1>1, <1>2, PTL DEF Spec

(* Every reply answers a command that the web server signed, for the owner *)
(* that the signed command names, however commands are forged, repeated or *)
(* interleaved.                                                            *)
THEOREM RepliesAreSigned ==
    Spec => []ReplyToSigner
  <1>1. Init => ReplyToSigner
    BY DEF Init, ReplyToSigner
  <1>2. LaneInvariant /\ AcceptedAreSigned /\ ReplyToSigner /\ [Next]_vars => ReplyToSigner'
    <2> SUFFICES ASSUME LaneInvariant, AcceptedAreSigned, ReplyToSigner, [Next]_vars
                 PROVE  ReplyToSigner'
      OBVIOUS
    <2>1. accepted \subseteq accepted'
      BY AcceptedGrows
    <2>2. ASSUME outbox' = outbox PROVE ReplyToSigner'
      BY <2>1, <2>2 DEF ReplyToSigner
    <2>3. ASSUME NEW s \in Servers, pc[s] = "commit", CommitRows(s) PROVE ReplyToSigner'
      <3>1. CASE tx[s].inbox = None
        BY <2>2, <2>3, <3>1, DuplicateCommitsNothing
      <3>2. CASE tx[s].inbox # None
        <4> DEFINE m == cur[s]
                   row == EventEnvelope(m, tx[s].created, tx[s].reply)
        <4>1. /\ m \in accepted /\ outbox' = outbox \cup {row}
              /\ tx[s].reply.owner = OwnerOf(Command[m])
          BY <2>3, <3>2, CommittedRows
        <4>2. /\ row.correlation_id = Command[m].correlation_id
              /\ row.dedupe_key = ReplyKey(Command[m].dedupe_key)
              /\ row.reply = tx[s].reply
          BY DEF EventEnvelope
        <4>3. /\ verify_command_signature(Command[m])
              /\ Command[m].product_tenant = ProductTenant
          BY <4>1 DEF AcceptedAreSigned
        <4> HIDE DEF m, row
        <4> QED
          BY <2>1, <4>1, <4>2, <4>3, Zenon DEF ReplyToSigner
      <3> QED
        BY <3>1, <3>2
    <2> QED
      BY <2>2, <2>3, WhatChangesRecords DEF dbVars
  <1> QED
    BY <1>1, <1>2, LaneInvariantHolds, AcceptedSigned, PTL DEF Spec

-----------------------------------------------------------------------------
(* The dedupe window. *)

(* The stream changes only when an event is stored or an id leaves.        *)
LEMMA WhatChangesStream ==
    ASSUME LaneInvariant, [Next]_vars
    PROVE  \/ UNCHANGED eventVars
           \/ \E id \in recent : LapseWindow(id)
           \/ \E row \in outbox : StoreEvent(row)
  <1>1. CASE Environment
    BY <1>1, Zenon DEF Environment, Tick, SendCommand, LoseDelivery, CreateAlert
  <1>2. ASSUME NEW s \in Servers, Consumer(s) \/ Faults(s) \/ Restart(s)
                                 \/ \E m \in Msgs : Deliver(s, m)
        PROVE  UNCHANGED eventVars
    BY <1>2 DEF Consumer, Setup, Accept, Reject, InsertInbox, ReadAlerts, EnqueueReply,
                RecordStatus, Commit, Acknowledge, Faults, LoseAck, ConsumerError,
                CommitUnknown, Crash, Restart, Deliver
  <1>3. ASSUME NEW s \in Servers, Publisher(s)
        PROVE  UNCHANGED eventVars \/ \E row \in outbox : StoreEvent(row)
    <2>1. \A row \in NextRows(batch[s]) : row \in outbox
      BY DEF NextRows, LaneInvariant, PublisherInvariant
    <2> QED
      BY <1>3, <2>1, Zenon DEF Publisher, SelectPending, PublishReply, PublishUnacknowledged,
                        PublishError, MarkPublished
  <1>4. CASE UNCHANGED vars
    BY <1>4 DEF vars
  <1> QED
    BY <1>1, <1>2, <1>3, <1>4 DEF Next

CopiesIn(q, id) == {i \in DOMAIN q : q[i].dedupe_key = id}

(* The copies of a reply are finitely many, and storing an event adds one  *)
(* copy of that event and no other.                                        *)
LEMMA CopiesAppend ==
    ASSUME NEW q \in Seq(OutboxRows), NEW row \in OutboxRows, NEW id
    PROVE  /\ Cardinality(CopiesIn(q, id)) \in Nat
           /\ Cardinality(CopiesIn(Append(q, row), id)) =
                  Cardinality(CopiesIn(q, id)) + IF row.dedupe_key = id THEN 1 ELSE 0
  <1> DEFINE r == Append(q, row)
             n == Len(q)
  <1>1. n \in Nat /\ DOMAIN q = 1..n
    OBVIOUS
  <1>2. DOMAIN r = 1..(n + 1) /\ r[n + 1] = row /\ \A i \in 1..n : r[i] = q[i]
    OBVIOUS
  <1>3. IsFiniteSet(1..n)
    BY <1>1, FS_Interval
  <1>4. IsFiniteSet(CopiesIn(q, id)) /\ Cardinality(CopiesIn(q, id)) \in Nat
    BY <1>1, <1>3, FS_Subset, FS_CardinalityType DEF CopiesIn
  <1>5. n + 1 \notin CopiesIn(q, id)
    BY <1>1 DEF CopiesIn
  <1> HIDE DEF r, n
  <1>6. CopiesIn(r, id) = CopiesIn(q, id) \cup IF row.dedupe_key = id THEN {n + 1} ELSE {}
    BY <1>1, <1>2 DEF CopiesIn
  <1>7. CASE row.dedupe_key = id
    <2>1. CopiesIn(r, id) = CopiesIn(q, id) \cup {n + 1}
      BY <1>6, <1>7
    <2>2. Cardinality(CopiesIn(r, id)) = Cardinality(CopiesIn(q, id)) + 1
      BY <1>4, <1>5, <2>1, FS_AddElement, Zenon
    <2> QED
      BY <1>4, <1>7, <2>2 DEF r
  <1>8. CASE row.dedupe_key # id
    <2>1. CopiesIn(r, id) = CopiesIn(q, id)
      BY <1>6, <1>8
    <2> QED
      BY <1>4, <1>8, <2>1 DEF r
  <1> QED
    BY <1>7, <1>8

(* A step keeps the count of the copies of each reply.                     *)
LEMMA CopiesStep ==
    ASSUME LaneInvariant, CopiesCounted, [Next]_vars
    PROVE  CopiesCounted'
  <1>1. /\ events \in Seq(OutboxRows) /\ outbox \subseteq OutboxRows
        /\ lapses \in [ReplyKeys -> 0..MaxLapses] /\ recent \subseteq ReplyKeys
        /\ MaxLapses \in Nat
    BY BoundsAssumption DEF LaneInvariant, TypeOK
  <1>2. CASE UNCHANGED eventVars
    BY <1>2 DEF CopiesCounted, Copies, eventVars
  <1>3. ASSUME NEW id \in recent, LapseWindow(id) PROVE CopiesCounted'
    <2>1. /\ recent' = recent \ {id} /\ events' = events
          /\ lapses' = [lapses EXCEPT ![id] = @ + 1]
      BY <1>3 DEF LapseWindow
    <2>2. ASSUME NEW k \in ReplyKeys
          PROVE  lapses'[k] + (IF k \in recent' THEN 1 ELSE 0)
                    = lapses[k] + (IF k \in recent THEN 1 ELSE 0)
      BY <1>1, <2>1
    <2>3. \A k : Copies(k)' = Copies(k)
      BY <2>1 DEF Copies
    <2> QED
      BY <2>2, <2>3 DEF CopiesCounted
  <1>4. ASSUME NEW row \in outbox, StoreEvent(row) PROVE CopiesCounted'
    <2>1. /\ events' = IF row.dedupe_key \in recent THEN events ELSE Append(events, row)
          /\ recent' = recent \cup {row.dedupe_key} /\ lapses' = lapses
      BY <1>4 DEF StoreEvent, MsgId
    <2>2. CASE row.dedupe_key \in recent
      <3>1. events' = events /\ recent' = recent
        BY <2>1, <2>2
      <3> QED
        BY <2>1, <3>1 DEF CopiesCounted, Copies
    <2>3. CASE row.dedupe_key \notin recent
      <3>1. ASSUME NEW k \in ReplyKeys
            PROVE  /\ Cardinality(Copies(k)) \in Nat
                   /\ Cardinality(Copies(k)') =
                         Cardinality(Copies(k)) + IF row.dedupe_key = k THEN 1 ELSE 0
        <4>1. Copies(k) = CopiesIn(events, k) /\ Copies(k)' = CopiesIn(Append(events, row), k)
          BY <2>1, <2>3 DEF Copies, CopiesIn
        <4>2. row \in OutboxRows
          BY <1>1
        <4> QED
          BY <1>1, <4>1, <4>2, CopiesAppend
      <3>2. ASSUME NEW k \in ReplyKeys
            PROVE  Cardinality(Copies(k)') = lapses'[k] + IF k \in recent' THEN 1 ELSE 0
        <4>1. Cardinality(Copies(k)) = lapses[k] + IF k \in recent THEN 1 ELSE 0
          BY DEF CopiesCounted
        <4>2. lapses[k] \in Nat
          BY <1>1
        <4> QED
          BY <2>1, <2>3, <3>1, <4>1, <4>2
      <3> QED
        BY <3>2 DEF CopiesCounted
    <2> QED
      BY <2>2, <2>3
  <1> QED
    BY <1>2, <1>3, <1>4, WhatChangesStream

(* A reply is on the stream again only as often as its id left the dedupe  *)
(* window: retries, crashes before the mark and two publishers add nothing *)
(* while the id is in it.                                                  *)
THEOREM PublishedOnce ==
    Spec => []NoDuplicateWithinWindow
  <1>1. Init => CopiesCounted
    <2> SUFFICES ASSUME Init, NEW id \in ReplyKeys
                 PROVE  Cardinality(Copies(id)) = lapses[id] + IF id \in recent THEN 1 ELSE 0
      BY DEF CopiesCounted
    <2>1. Copies(id) = {}
      BY DEF Init, Copies
    <2> QED
      BY <2>1, FS_EmptySet DEF Init
  <1>2. Spec => []CopiesCounted
    BY <1>1, CopiesStep, LaneInvariantHolds, PTL DEF Spec
  <1>3. ASSUME LaneInvariant, CopiesCounted PROVE NoDuplicateWithinWindow
    <2>1. \A id \in ReplyKeys : lapses[id] \in Nat
      BY <1>3, BoundsAssumption DEF LaneInvariant, TypeOK
    <2> QED
      BY <1>3, <2>1, SMTT(30) DEF CopiesCounted, NoDuplicateWithinWindow
  <1> QED
    BY <1>2, <1>3, LaneInvariantHolds, PTL
=============================================================================
