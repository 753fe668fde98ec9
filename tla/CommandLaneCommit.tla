------------------------- MODULE CommandLaneCommit --------------------------
(***************************************************************************)
(* Second part of the proofs about CommandLane: a commit, an error and a   *)
(* crash preserve LaneInvariant.  The commit is where the three tables     *)
(* change together.                                                        *)
(***************************************************************************)
EXTENDS CommandLaneSteps

-----------------------------------------------------------------------------
(* The commit. *)

(* A transaction that ends returns to NoTx; the others go on. *)
LEMMA TransactionEnds ==
    ASSUME LaneInvariant, NEW s \in Servers, NEW p, p \notin InTransaction,
           pc' = [pc EXCEPT ![s] = p], tx' = [tx EXCEPT ![s] = NoTx],
           UNCHANGED txns
    PROVE  /\ tx' \in [Servers -> Transactions']
           /\ tx'[s] = NoTx /\ tx'[s].inbox = None /\ pc'[s] = p
           /\ \A t \in Servers \ {s} : tx'[t] = tx[t] /\ pc'[t] = pc[t]
  <1>1. NoTx \in Transactions
    BY DEF LaneInvariant, TypeOK, NoTx, Transactions
  <1>2. Transactions' = Transactions
    BY DEF Transactions
  <1>3. /\ tx' \in [Servers -> Transactions]
        /\ tx'[s] = NoTx /\ pc'[s] = p
        /\ \A t \in Servers \ {s} : tx'[t] = tx[t] /\ pc'[t] = pc[t]
    BY <1>1 DEF LaneInvariant, TypeOK
  <1>4. NoTx.inbox = None
    BY DEF NoTx
  <1> QED
    BY <1>2, <1>3, <1>4

(* When the transaction of s is over without rows, and nobody else moves,  *)
(* the numbers stay distinct.                                              *)
LEMMA NumbersAfterEnd ==
    ASSUME LaneInvariant, NEW s \in Servers, pc'[s] \notin InTransaction,
           \A t \in Servers \ {s} : tx'[t] = tx[t] /\ pc'[t] = pc[t],
           outbox' = outbox, txns' = txns
    PROVE  NumbersDistinct'
  <1>1. NumbersDistinct
    BY DEF LaneInvariant
  <1> QED
    BY <1>1 DEF NumbersDistinct

(* What a transaction with rows commits: a command that conflicts with no  *)
(* record, its one reply, and a status for a correlation id without one.   *)
LEMMA CommittedRows ==
    ASSUME LaneInvariant, NEW s \in Servers, pc[s] = "commit", CommitRows(s),
           tx[s].inbox # None
    PROVE  LET m == cur[s]
               row == EventEnvelope(m, tx[s].created, tx[s].reply)
           IN  /\ m \in Msgs /\ m \in accepted
               /\ tx[s].created \in 1..txns
               /\ tx[s].inbox = InboxRow(m)
               /\ tx[s].reply \in Replies
               /\ tx[s].reply.owner = OwnerOf(Command[m])
               /\ row \in OutboxRows
               /\ \A r \in inbox : ~Conflicts(r, InboxRow(m))
               /\ status[Command[m].correlation_id] = None
               /\ inbox' = inbox \cup {InboxRow(m)}
               /\ outbox' = outbox \cup {row}
               /\ status' = [status EXCEPT ![Command[m].correlation_id] =
                                StatusRow(m, tx[s].reply.status)]
               /\ marked' = marked
  <1> USE DEF LaneInvariant
  <1> DEFINE m == cur[s]
             row == EventEnvelope(m, tx[s].created, tx[s].reply)
             st == StatusRow(m, tx[s].reply.status)
  <1>1. /\ m \in Msgs /\ m \in accepted
        /\ tx[s].inbox = InboxRow(m)
        /\ tx[s].reply \in Replies
        /\ tx[s].reply.owner = OwnerOf(Command[m])
        /\ tx[s].outbox = row
        /\ tx[s].status = st
    BY DEF StageInvariant, Stage, TypeOK, InTransaction
  <1>2. tx[s].created \in 1..txns /\ txns \in Nat
    BY DEF NumbersDistinct, InTransaction, TypeOK
  <1>3. row \in OutboxRows /\ row # None
    <2>1. tx[s].created \in Nat
      BY <1>2
    <2>2. row \in OutboxRows
      BY <1>1, <2>1, RowTypes
    <2> HIDE DEF row
    <2> QED
      BY <2>2, NoneAssumption
  <1>4. st \in StatusRows /\ st # None
    <2>1. tx[s].reply.status \in {"completed", "rejected"}
      BY <1>1 DEF Replies
    <2>2. st \in StatusRows
      BY <1>1, <2>1, RowTypes
    <2> HIDE DEF st
    <2> QED
      BY <2>2, NoneAssumption
  <1>5. \A r \in inbox : ~Conflicts(r, InboxRow(m))
    BY <1>1 DEF KeysDistinct
  <1>6. status[Command[m].correlation_id] = None
    <2>1. Command[m].correlation_id \in Correlations
      BY <1>1, RowTypes
    <2>2. \A r \in inbox : r.correlation_id # Command[m].correlation_id
      BY <1>5 DEF Conflicts, InboxRow
    <2> QED
      BY <2>1, <2>2 DEF RecordsAgree
  <1>7. inbox' = inbox \cup {InboxRow(m)}
    BY <1>1 DEF CommitRows, Optional
  <1>8. outbox' = outbox \cup {row}
    BY <1>1, <1>3 DEF CommitRows, Optional
  <1>9. status' = [status EXCEPT ![Command[m].correlation_id] = st]
    <2> HIDE DEF st
    <2> QED
      BY <1>1, <1>4, <1>6, RowTypes DEF CommitRows, UpsertStatus, TypeOK
  <1> QED
    BY <1>1, <1>2, <1>3, <1>5, <1>6, <1>7, <1>8, <1>9, Zenon DEF CommitRows

(* A transaction that found a conflict commits nothing: a record exists. *)
LEMMA DuplicateCommitsNothing ==
    ASSUME LaneInvariant, NEW s \in Servers, pc[s] = "commit", CommitRows(s),
           tx[s].inbox = None
    PROVE  Recorded(cur[s]) /\ UNCHANGED <<inbox, outbox, status, marked>>
  <1>1. cur[s] \in Msgs
    BY DEF LaneInvariant, StageInvariant, Stage, TypeOK, InTransaction
  <1>2. InboxRow(cur[s]) # None
    BY <1>1, RowTypes
  <1>3. tx[s].outbox = None /\ tx[s].status = None /\ Recorded(cur[s])
    BY <1>2 DEF LaneInvariant, StageInvariant, Stage
  <1> QED
    BY <1>3 DEF CommitRows, Optional, UpsertStatus

(* What a commit does to the database keeps the tables in agreement, and   *)
(* leaves the command of the transaction on record.                        *)
LEMMA CommitKeepsRecords ==
    ASSUME LaneInvariant, NEW s \in Servers, NEW p, p \notin InTransaction,
           pc[s] = "commit", CommitRows(s),
           pc' = [pc EXCEPT ![s] = p], tx' = [tx EXCEPT ![s] = NoTx],
           UNCHANGED <<settled, eventVars, pubVars, txns>>
    PROVE  /\ inbox' \subseteq InboxRows
           /\ outbox' \subseteq OutboxRows
           /\ status' \in [Correlations -> {None} \cup StatusRows]
           /\ inbox \subseteq inbox'
           /\ \E r \in inbox' : Conflicts(r, InboxRow(cur[s]))
           /\ KeysDistinct' /\ NumbersDistinct' /\ PublisherInvariant'
           /\ OneReplyPerCommand' /\ RecordsAgree'
           /\ AckedImpliesRecorded' /\ StreamMatchesOutbox'
  <1> USE DEF LaneInvariant, eventVars, pubVars
  <1>1. /\ tx'[s].inbox = None /\ pc'[s] = p
        /\ \A t \in Servers \ {s} : tx'[t] = tx[t] /\ pc'[t] = pc[t]
    BY TransactionEnds, Zenon
  <1>2. CASE tx[s].inbox = None
    <2>2. Recorded(cur[s]) /\ UNCHANGED <<inbox, outbox, status, marked>>
      BY <1>2, DuplicateCommitsNothing
    <2>3. KeysDistinct'
      BY <1>1, <2>2 DEF KeysDistinct
    <2>4. NumbersDistinct'
      BY <1>1, <2>2, NumbersAfterEnd
    <2> QED
      BY <2>2, <2>3, <2>4, Frames DEF TypeOK, Recorded
  <1>3. CASE tx[s].inbox # None
    <2> DEFINE m == cur[s]
               new == InboxRow(m)
               row == EventEnvelope(m, tx[s].created, tx[s].reply)
               st == StatusRow(m, tx[s].reply.status)
    <2>1. /\ m \in Msgs
          /\ tx[s].created \in 1..txns
          /\ tx[s].inbox = new
          /\ tx[s].reply \in Replies
          /\ tx[s].reply.owner = OwnerOf(Command[m])
          /\ row \in OutboxRows
          /\ \A r \in inbox : ~Conflicts(r, new)
          /\ inbox' = inbox \cup {new}
          /\ outbox' = outbox \cup {row}
          /\ status' = [status EXCEPT ![Command[m].correlation_id] = st]
          /\ marked' = marked
      BY <1>3, CommittedRows
    <2>2. new \in InboxRows /\ st \in StatusRows /\ Command[m].correlation_id \in Correlations
      BY <2>1, RowTypes, Zenon DEF Replies
    <2>3. /\ row.correlation_id = Command[m].correlation_id
          /\ row.dedupe_key = ReplyKey(Command[m].dedupe_key)
          /\ row.event_id = tx[s].created
          /\ row.reply = tx[s].reply
          /\ new.correlation_id = Command[m].correlation_id
          /\ new.dedupe_key = Command[m].dedupe_key
          /\ OwnerOf(new) = OwnerOf(Command[m])
          /\ st = [product_tenant |-> new.product_tenant,
                   actor_subject |-> new.actor_subject,
                   status |-> tx[s].reply.status]
      BY DEF EventEnvelope, InboxRow, StatusRow, OwnerOf
    <2> HIDE DEF m, new, row, st
    <2>4. /\ inbox' \subseteq InboxRows
          /\ outbox' \subseteq OutboxRows
          /\ status' \in [Correlations -> {None} \cup StatusRows]
      BY <2>1, <2>2 DEF TypeOK
    <2>5. \E r \in inbox' : Conflicts(r, InboxRow(cur[s]))
      BY <2>1, ConflictsSymmetric, Zenon DEF new, m
    <2>6. KeysDistinct'
      <3>1. \A r, q \in inbox' : r = q \/ ~Conflicts(r, q)
        <4>1. \A r, q \in inbox : r = q \/ ~Conflicts(r, q)
          BY DEF KeysDistinct
        <4>2. \A r \in inbox : ~Conflicts(r, new) /\ ~Conflicts(new, r)
          BY <2>1, ConflictsSymmetric
        <4>3. inbox' = inbox \cup {new}
          BY <2>1
        <4> QED
          BY <4>1, <4>2, <4>3
      <3>2. \A t \in Servers \ {s} : tx[t].inbox # None => ~Conflicts(new, tx[t].inbox)
        BY <1>3, <2>1 DEF KeysDistinct
      <3> QED
        BY <1>1, <2>1, <3>1, <3>2 DEF KeysDistinct
    <2>7. NumbersDistinct'
      <3>1. \A e \in outbox : e.event_id # row.event_id
        BY <2>3 DEF NumbersDistinct, InTransaction
      <3>2. \A t \in Servers \ {s} : pc[t] \in InTransaction => row.event_id # tx[t].created
        BY <2>3, Zenon DEF NumbersDistinct, InTransaction
      <3> QED
        <4>1. /\ outbox' = outbox \cup {row} /\ txns' = txns
              /\ row.event_id \in 1..txns /\ pc'[s] \notin InTransaction
          BY <1>1, <2>1, <2>3
        <4>2. NumbersDistinct
          OBVIOUS
        <4>3. (\A e, f \in outbox : e.event_id = f.event_id => e = f)'
          BY <3>1, <4>1, <4>2 DEF NumbersDistinct
        <4>4. (\A e \in outbox : e.event_id \in 1..txns)'
          BY <4>1, <4>2 DEF NumbersDistinct
        <4>5. ASSUME NEW t \in Servers, pc'[t] \in InTransaction
              PROVE  /\ tx'[t].created \in 1..txns'
                     /\ \A e \in outbox' : e.event_id # tx'[t].created
                     /\ \A u \in Servers \ {t} :
                           pc'[u] \in InTransaction => tx'[u].created # tx'[t].created
          <5>1. t # s /\ tx'[t] = tx[t] /\ pc'[t] = pc[t]
            BY <1>1, <4>1, <4>5
          <5>2. \A u \in Servers \ {t} :
                   pc'[u] \in InTransaction => tx'[u] = tx[u] /\ pc'[u] = pc[u]
            BY <1>1, <4>1
          <5> QED
            BY <3>2, <4>1, <4>2, <4>5, <5>1, <5>2 DEF NumbersDistinct
        <4> QED
          BY <4>3, <4>4, <4>5 DEF NumbersDistinct
    <2>8. \A e \in outbox : e.correlation_id # row.correlation_id
                            /\ e.dedupe_key # row.dedupe_key
      <3> SUFFICES ASSUME NEW e \in outbox
                   PROVE  e.correlation_id # row.correlation_id
                          /\ e.dedupe_key # row.dedupe_key
        OBVIOUS
      <3>1. PICK r \in inbox : /\ r.correlation_id = e.correlation_id
                               /\ ReplyKey(r.dedupe_key) = e.dedupe_key
        BY DEF RecordsAgree
      <3>2. r.correlation_id # new.correlation_id /\ r.dedupe_key # new.dedupe_key
        BY <2>1 DEF Conflicts
      <3> QED
        BY <2>3, <3>1, <3>2, ReplyKeyInjective
    <2>9. OneReplyPerCommand'
      BY <2>1, <2>8 DEF OneReplyPerCommand
    <2>10. RecordsAgree'
      <3>1. \A c \in Correlations : c # new.correlation_id => status'[c] = status[c]
        BY <2>1, <2>3, Zenon DEF TypeOK
      <3>2. status'[new.correlation_id] = st
        BY <2>1, <2>2, <2>3, Zenon DEF TypeOK
      <3>3. \A r \in inbox : /\ r.correlation_id \in Correlations
                             /\ r.correlation_id # new.correlation_id
        BY <2>1, Zenon DEF TypeOK, InboxRows, Conflicts
      <3>4. ASSUME NEW r \in inbox'
            PROVE  \E e \in outbox' :
                      /\ e.correlation_id = r.correlation_id
                      /\ e.dedupe_key = ReplyKey(r.dedupe_key)
                      /\ e.reply.owner = OwnerOf(r)
                      /\ status'[r.correlation_id] =
                            [product_tenant |-> r.product_tenant,
                             actor_subject  |-> r.actor_subject,
                             status         |-> e.reply.status]
        <4>1. CASE r \in inbox
          <5>1. PICK e \in outbox :
                   /\ e.correlation_id = r.correlation_id
                   /\ e.dedupe_key = ReplyKey(r.dedupe_key)
                   /\ e.reply.owner = OwnerOf(r)
                   /\ status[r.correlation_id] =
                         [product_tenant |-> r.product_tenant,
                          actor_subject  |-> r.actor_subject,
                          status         |-> e.reply.status]
            BY <4>1, Zenon DEF RecordsAgree
          <5>2. status'[r.correlation_id] = status[r.correlation_id] /\ e \in outbox'
            BY <2>1, <3>1, <3>3, <4>1
          <5> QED
            BY <5>1, <5>2, Zenon
        <4>2. CASE r = new
          BY <2>1, <2>3, <3>2, <4>2, ZenonT(40)
        <4> QED
          BY <2>1, <4>1, <4>2, Zenon
      <3>5. ASSUME NEW e \in outbox'
            PROVE  \E r \in inbox' : /\ r.correlation_id = e.correlation_id
                                     /\ ReplyKey(r.dedupe_key) = e.dedupe_key
        <4>1. CASE e \in outbox
          <5>1. \E r \in inbox : /\ r.correlation_id = e.correlation_id
                                 /\ ReplyKey(r.dedupe_key) = e.dedupe_key
            BY <4>1 DEF RecordsAgree
          <5>2. inbox \subseteq inbox'
            BY <2>1
          <5> QED
            BY <5>1, <5>2
        <4>2. CASE e = row
          BY <2>1, <2>3, <4>2, Zenon
        <4> QED
          BY <2>1, <4>1, <4>2
      <3>6. ASSUME NEW c \in Correlations, status'[c] # None
            PROVE  \E r \in inbox' : r.correlation_id = c
        BY <2>1, <3>1, <3>6, Zenon DEF RecordsAgree
      <3> QED
        BY <3>4, <3>5, <3>6, Zenon DEF RecordsAgree
    <2>11. PublisherInvariant'
      BY <2>1, Zenon DEF PublisherInvariant, NextRows
    <2>12. AckedImpliesRecorded'
      BY <2>1, Zenon DEF AckedImpliesRecorded, Recorded
    <2>13. StreamMatchesOutbox'
      BY <2>1 DEF StreamMatchesOutbox
    <2> QED
      BY <2>1, <2>4, <2>5, <2>6, <2>7, <2>9, <2>10, <2>11, <2>12, <2>13, Zenon
  <1> QED
    BY <1>2, <1>3

(* The consumer that commits acknowledges a command that is on record. *)
LEMMA CommitInvariant ==
    ASSUME LaneInvariant, NEW s \in Servers, Commit(s)
    PROVE  LaneInvariant'
  <1> USE DEF LaneInvariant, streamVars, eventVars, pubVars, envVars, histVars
  <1>1. /\ pc[s] = "commit" /\ CommitRows(s)
        /\ pc' = [pc EXCEPT ![s] = "ack"]
        /\ tx' = [tx EXCEPT ![s] = NoTx]
        /\ UNCHANGED <<streamVars, eventVars, buffer, cur, pubVars, envVars, histVars,
                       marked>>
    BY Zenon DEF Commit, CommitRows
  <1>2. "ack" \notin InTransaction
    BY DEF InTransaction
  <1>3. /\ inbox' \subseteq InboxRows
        /\ outbox' \subseteq OutboxRows
        /\ status' \in [Correlations -> {None} \cup StatusRows]
        /\ inbox \subseteq inbox'
        /\ \E r \in inbox' : Conflicts(r, InboxRow(cur[s]))
        /\ KeysDistinct' /\ NumbersDistinct' /\ PublisherInvariant'
        /\ OneReplyPerCommand' /\ RecordsAgree'
        /\ AckedImpliesRecorded' /\ StreamMatchesOutbox'
    BY <1>1, <1>2, CommitKeepsRecords, Zenon
  <1>4. /\ tx' \in [Servers -> Transactions']
        /\ tx'[s] = NoTx /\ pc'[s] = "ack"
        /\ \A t \in Servers \ {s} : tx'[t] = tx[t] /\ pc'[t] = pc[t]
    BY <1>1, <1>2, TransactionEnds, Zenon
  <1>5. TypeOK'
    BY <1>1, <1>3, <1>4, Zenon DEF TypeOK, Running
  <1>6. StageInvariant'
    <2>1. cur[s] \in accepted
      BY <1>1, Zenon DEF StageInvariant, Stage, InTransaction
    <2>2. Recorded(cur[s])' /\ cur'[s] \in accepted' /\ accepted' = accepted
      BY <1>1, <1>3, <2>1 DEF Recorded
    <2>3. \A t \in Servers \ {s} : tx'[t] = tx[t] /\ pc'[t] = pc[t] /\ cur'[t] = cur[t]
      BY <1>1, <1>4, Zenon
    <2>4. pc'[s] \notin InTransaction /\ pc'[s] # "term"
      BY <1>2, <1>4
    <2> HIDE DEF LaneInvariant
    <2> QED
      BY <1>3, <1>4, <2>2, <2>3, <2>4, OutsideTransaction, Zenon
  <1> QED
    BY <1>3, <1>5, <1>6, Zenon

(* A consumer task that ends, by an error or with its process, drops its   *)
(* transaction; a commit whose answer is lost has recorded its command.    *)
LEMMA StopInvariant ==
    ASSUME LaneInvariant, NEW s \in Servers,
           ConsumerError(s) \/ CommitUnknown(s) \/ Crash(s)
    PROVE  LaneInvariant'
  <1> USE DEF LaneInvariant, streamVars, eventVars, dbVars, pubVars, envVars, histVars
  <1> DEFINE p == pc'[s]
  <1>1. /\ p \in {"stopped", "down"}
        /\ pc' = [pc EXCEPT ![s] = p]
        /\ tx' = [tx EXCEPT ![s] = NoTx]
        /\ cur' = [cur EXCEPT ![s] = None]
        /\ buffer' = [buffer EXCEPT ![s] = <<>>]
        /\ UNCHANGED <<streamVars, eventVars, marked, alerts, now, histVars>>
    BY DEF ConsumerError, CommitUnknown, Crash, StopConsumer, CommitRows, TypeOK
  <1>2. p \notin InTransaction
    BY <1>1 DEF InTransaction
  <1> HIDE DEF p
  <1>3. /\ errors' \in 0..MaxErrors /\ crashes' \in 0..MaxCrashes
        /\ pub' \in [Servers -> {"off", "sleep", "publish", "mark"}]
        /\ batch' \in [Servers -> SUBSET OutboxRows]
    <2>1. CASE ConsumerError(s) \/ CommitUnknown(s)
      BY <2>1, BoundsAssumption DEF ConsumerError, CommitUnknown, StopConsumer, TypeOK
    <2>2. CASE Crash(s)
      BY <2>2, BoundsAssumption DEF Crash, TypeOK
    <2> QED
      BY <2>1, <2>2, Zenon
  <1>4. /\ tx' \in [Servers -> Transactions']
        /\ tx'[s] = NoTx /\ tx'[s].inbox = None /\ pc'[s] = p
        /\ \A t \in Servers \ {s} : tx'[t] = tx[t] /\ pc'[t] = pc[t] /\ cur'[t] = cur[t]
    <2>1. \A t \in Servers \ {s} : cur'[t] = cur[t]
      BY <1>1 DEF TypeOK
    <2> QED
      BY <1>1, <1>2, <2>1, TransactionEnds, Zenon
  <1>5. /\ inbox' \subseteq InboxRows
        /\ outbox' \subseteq OutboxRows
        /\ status' \in [Correlations -> {None} \cup StatusRows]
        /\ inbox \subseteq inbox'
        /\ KeysDistinct' /\ NumbersDistinct' /\ PublisherInvariant'
        /\ OneReplyPerCommand' /\ RecordsAgree'
        /\ AckedImpliesRecorded' /\ StreamMatchesOutbox'
    <2>1. CASE CommitUnknown(s)
      BY <1>1, <1>2, <2>1, CommitKeepsRecords, Zenon DEF CommitUnknown
    <2>2. CASE ConsumerError(s) \/ Crash(s)
      <3>1. UNCHANGED dbVars
        BY <2>2, Zenon DEF ConsumerError, Crash
      <3>2. KeysDistinct'
        BY <1>4, <3>1 DEF KeysDistinct
      <3>3. NumbersDistinct'
        BY <1>1, <1>2, <1>4, <3>1, NumbersAfterEnd
      <3>4. PublisherInvariant'
        <4>1. CASE ConsumerError(s)
          BY <1>1, <3>1, <4>1, Frames, Zenon DEF ConsumerError
        <4>2. CASE Crash(s)
          <5>1. /\ pub'[s] = "off" /\ batch'[s] = {}
                /\ \A t \in Servers \ {s} : pub'[t] = pub[t] /\ batch'[t] = batch[t]
            BY <4>2, Zenon DEF Crash, TypeOK
          <5> QED
            BY <1>1, <3>1, <5>1, Zenon DEF PublisherInvariant
        <4> QED
          BY <2>2, <4>1, <4>2, Zenon
      <3> QED
        BY <1>1, <3>1, <3>2, <3>3, <3>4, Frames, Zenon DEF TypeOK
    <2> QED
      BY <2>1, <2>2
  <1>6. TypeOK'
    <2>1. buffer' \in [Servers -> Seq(Msgs)] /\ cur' \in [Servers -> {None} \cup Msgs]
      BY <1>1 DEF TypeOK
    <2>2. pc' \in [Servers -> Running \cup {"setup", "stopped", "down"}]
      BY <1>1, Zenon DEF TypeOK
    <2> QED
      BY <1>1, <1>3, <1>4, <1>5, <2>1, <2>2, Zenon DEF TypeOK
  <1>7. StageInvariant'
    <2>1. /\ pc'[s] \notin InTransaction /\ pc'[s] \notin {"ack", "term"}
          /\ accepted' = accepted
      BY <1>1, <1>2, <1>4
    <2> HIDE DEF LaneInvariant
    <2> QED
      BY <1>4, <1>5, <2>1, OutsideTransaction
  <1> QED
    BY <1>5, <1>6, <1>7, Zenon
=============================================================================
