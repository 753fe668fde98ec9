----------------------- MODULE CommandLaneRefinement -----------------------
(***************************************************************************)
(* CommandLane implements the safety part of RequestReply: a step of the   *)
(* lane is a step of the promise, or changes nothing that the promise is   *)
(* about.                                                                  *)
(***************************************************************************)
EXTENDS CommandLaneProofs

-----------------------------------------------------------------------------
(* What is handled was sent. *)

(* The messages prefetched or accepted are in the command stream. *)
HandledWereSent ==
    /\ accepted \subseteq sent
    /\ \A s \in Servers : Elements(buffer[s]) \subseteq sent

(* Taking the first message of a buffer leaves messages of that buffer. *)
LEMMA TailElements ==
    ASSUME NEW q \in Seq(Msgs), q # <<>>
    PROVE  Head(q) \in Elements(q) /\ Elements(Tail(q)) \subseteq Elements(q)
  <1>1. /\ Len(q) \in Nat /\ Len(q) > 0 /\ DOMAIN q = 1..Len(q)
        /\ Tail(q) \in Seq(Msgs) /\ Len(Tail(q)) = Len(q) - 1
    OBVIOUS
  <1>2. Head(q) = q[1] /\ 1 \in DOMAIN q
    BY <1>1
  <1>3. ASSUME NEW i \in DOMAIN Tail(q) PROVE Tail(q)[i] = q[i + 1] /\ i + 1 \in DOMAIN q
    BY <1>1
  <1> QED
    BY <1>2, <1>3 DEF Elements

(* No step handles a message that was not sent. *)
LEMMA HandledStep ==
    ASSUME LaneInvariant, HandledWereSent, [Next]_vars
    PROVE  HandledWereSent'
  <1> DEFINE Kept == UNCHANGED <<accepted, buffer>> /\ sent \subseteq sent'
  <1>1. buffer \in [Servers -> Seq(Msgs)]
    BY DEF LaneInvariant, TypeOK
  <1>2. ASSUME Kept PROVE HandledWereSent'
    BY <1>2 DEF HandledWereSent
  <1>3. CASE Environment
    <2>1. Kept
      BY <1>3 DEF Environment, Tick, SendCommand, LoseDelivery, CreateAlert,
                  LapseWindow, streamVars, consumerVars, histVars
    <2> QED
      BY <1>2, <2>1
  <1>4. ASSUME NEW s \in Servers, Setup(s) \/ InsertInbox(s) \/ ReadAlerts(s)
                    \/ EnqueueReply(s) \/ RecordStatus(s) \/ Commit(s) \/ Acknowledge(s)
                    \/ LoseAck(s) \/ Publisher(s) \/ Restart(s)
        PROVE  HandledWereSent'
    <2>1. Kept
      BY <1>4 DEF Setup, InsertInbox, ReadAlerts, EnqueueReply, RecordStatus, Commit,
                  Acknowledge, LoseAck, Publisher, SelectPending, PublishReply,
                  PublishUnacknowledged, PublishError, MarkPublished, Restart,
                  streamVars, consumerVars, histVars
    <2> QED
      BY <1>2, <2>1, Zenon
  <1>5. ASSUME NEW s \in Servers, Accept(s) \/ Reject(s) PROVE HandledWereSent'
    <2>1. /\ buffer[s] # <<>> /\ sent' = sent
          /\ buffer' = [buffer EXCEPT ![s] = Tail(buffer[s])]
          /\ accepted' \subseteq accepted \cup {Head(buffer[s])}
      BY <1>5 DEF Accept, Reject, streamVars, histVars
    <2>2. Head(buffer[s]) \in sent /\ Elements(Tail(buffer[s])) \subseteq sent
      BY <1>1, <2>1, TailElements DEF HandledWereSent
    <2>3. \A t \in Servers : buffer'[t] = IF t = s THEN Tail(buffer[s]) ELSE buffer[t]
      BY <1>1, <2>1
    <2> QED
      BY <2>1, <2>2, <2>3 DEF HandledWereSent
  <1>6. ASSUME NEW s \in Servers, ConsumerError(s) \/ CommitUnknown(s) \/ Crash(s)
        PROVE  HandledWereSent'
    <2>1. /\ sent' = sent /\ accepted' = accepted
          /\ buffer' = [buffer EXCEPT ![s] = <<>>]
      BY <1>6 DEF ConsumerError, CommitUnknown, StopConsumer, Crash, streamVars, histVars
    <2>2. Elements(<<>>) = {}
      BY DEF Elements
    <2>3. \A t \in Servers : buffer'[t] = IF t = s THEN <<>> ELSE buffer[t]
      BY <1>1, <2>1
    <2> QED
      BY <2>1, <2>2, <2>3 DEF HandledWereSent
  <1>7. ASSUME NEW s \in Servers, NEW m \in Msgs, Deliver(s, m) PROVE HandledWereSent'
    <2>1. /\ sent' = sent /\ accepted' = accepted /\ m \in sent
          /\ buffer' = [buffer EXCEPT ![s] = Append(buffer[s], m)]
      BY <1>7 DEF Deliver, Deliverable, histVars
    <2>2. Elements(Append(buffer[s], m)) = Elements(buffer[s]) \cup {m}
      BY <1>1, AppendElements
    <2>3. \A t \in Servers : buffer'[t] = IF t = s THEN Append(buffer[s], m) ELSE buffer[t]
      BY <1>1, <2>1
    <2> QED
      BY <2>1, <2>2, <2>3 DEF HandledWereSent
  <1>8. CASE UNCHANGED vars
    BY <1>2, <1>8 DEF vars, streamVars, consumerVars, histVars
  <1> QED
    BY <1>3, <1>4, <1>5, <1>6, <1>7, <1>8 DEF Next, Consumer, Faults

-----------------------------------------------------------------------------
(* The steps of the lane, seen from the promise. *)

(* The steps that the promise can see: a command is sent, rows are         *)
(* committed, an event is stored.                                          *)
LEMMA VisibleSteps ==
    ASSUME LaneInvariant, [Next]_vars
    PROVE  \/ UNCHANGED <<sent, outbox, events>>
           \/ \E m \in Msgs : sent' = sent \cup {m} /\ UNCHANGED <<outbox, events>>
           \/ \E s \in Servers : /\ pc[s] = "commit" /\ CommitRows(s)
                                 /\ UNCHANGED <<sent, events>>
           \/ \E e \in outbox : events' = Append(events, e) /\ UNCHANGED <<sent, outbox>>
  <1> USE DEF streamVars, eventVars, dbVars
  <1>1. CASE Environment
    BY <1>1, Zenon DEF Environment, Tick, SendCommand, LoseDelivery, CreateAlert, LapseWindow
  <1>2. ASSUME NEW s \in Servers, Consumer(s) \/ Faults(s)
        PROVE  \/ UNCHANGED <<sent, outbox, events>>
               \/ pc[s] = "commit" /\ CommitRows(s) /\ UNCHANGED <<sent, events>>
    BY <1>2, Zenon DEF Consumer, Setup, Accept, Reject, InsertInbox, ReadAlerts, EnqueueReply,
                RecordStatus, Commit, Acknowledge, Faults, LoseAck, ConsumerError,
                CommitUnknown, Crash
  <1>3. ASSUME NEW s \in Servers, Publisher(s)
        PROVE  \/ UNCHANGED <<sent, outbox, events>>
               \/ \E e \in outbox : events' = Append(events, e) /\ UNCHANGED <<sent, outbox>>
    <2>1. CASE PublishReply(s) \/ PublishUnacknowledged(s)
      <3>1. UNCHANGED <<sent, outbox>> /\ \E e \in NextRows(batch[s]) : StoreEvent(e)
        BY <2>1 DEF PublishReply, PublishUnacknowledged
      <3>2. \A e \in NextRows(batch[s]) : e \in outbox
        BY DEF NextRows, LaneInvariant, PublisherInvariant
      <3> QED
        BY <3>1, <3>2 DEF StoreEvent
    <2>2. CASE SelectPending(s) \/ PublishError(s) \/ MarkPublished(s)
      BY <2>2 DEF SelectPending, PublishError, MarkPublished
    <2> QED
      BY <1>3, <2>1, <2>2 DEF Publisher
  <1>4. ASSUME NEW s \in Servers, Restart(s) \/ \E m \in Msgs : Deliver(s, m)
        PROVE  UNCHANGED <<sent, outbox, events>>
    BY <1>4 DEF Restart, Deliver
  <1>5. CASE UNCHANGED vars
    BY <1>5 DEF vars
  <1> QED
    BY <1>1, <1>2, <1>3, <1>4, <1>5 DEF Next

(* The answer to a correlation id is the owner of its only reply. *)
LEMMA AnswerOfReply ==
    ASSUME LaneInvariant, NEW e \in outbox
    PROVE  /\ e.correlation_id \in Correlations
           /\ AnswerFor[e.correlation_id] = e.reply.owner
           /\ e.reply.owner \in Owners
  <1>1. e \in OutboxRows /\ e.correlation_id \in Correlations /\ e.reply.owner \in Owners
    BY DEF LaneInvariant, TypeOK, OutboxRows, Replies
  <1>2. \A f \in outbox : f.correlation_id = e.correlation_id => f = e
    BY DEF LaneInvariant, OneReplyPerCommand
  <1>3. (CHOOSE f \in outbox : f.correlation_id = e.correlation_id) = e
    BY <1>2
  <1> QED
    BY <1>1, <1>3 DEF AnswerFor

(* A commit with rows answers the command, for the owner that it names.    *)
LEMMA CommitAnswers ==
    ASSUME LaneInvariant, LaneInvariant', HandledWereSent, AcceptedAreSigned,
           NEW s \in Servers, pc[s] = "commit", CommitRows(s),
           UNCHANGED <<sent, events>>, tx[s].inbox # None
    PROVE  \E c \in Correlations, o \in Owners : Promise!Answer(c, o)
  <1> DEFINE m == cur[s]
             c == Command[m].correlation_id
             o == OwnerOf(Command[m])
             row == EventEnvelope(m, tx[s].created, tx[s].reply)
  <1>1. /\ m \in Msgs /\ m \in accepted
        /\ tx[s].reply.owner = o
        /\ \A r \in inbox : ~Conflicts(r, InboxRow(m))
        /\ outbox' = outbox \cup {row}
    BY CommittedRows
  <1>2. c \in Correlations /\ o \in Owners
    BY <1>1, RowTypes
  <1>3. <<c, o>> \in Asked
    BY <1>1 DEF Asked, HandledWereSent, AcceptedAreSigned
  <1>4. row.correlation_id = c /\ row.reply.owner = o
    BY <1>1 DEF EventEnvelope
  <1>5. \A e \in outbox : e.correlation_id # c
    <2>1. InboxRow(m).correlation_id = c
      BY DEF InboxRow
    <2>2. \A r \in inbox : r.correlation_id # c
      BY <1>1, <2>1, Zenon DEF Conflicts
    <2>3. \A e \in outbox : \E r \in inbox : r.correlation_id = e.correlation_id
      BY DEF LaneInvariant, RecordsAgree
    <2> HIDE DEF m, c
    <2> QED
      BY <2>2, <2>3
  <1> HIDE DEF row, c, o, m
  <1>6. AnswerFor[c] = None
    BY <1>2, <1>5 DEF AnswerFor
  <1>7. AnswerFor' = [AnswerFor EXCEPT ![c] = o]
    <2>1. \A d \in Correlations : AnswerFor'[d] = IF d = c THEN o ELSE AnswerFor[d]
      <3> SUFFICES ASSUME NEW d \in Correlations
                   PROVE  AnswerFor'[d] = IF d = c THEN o ELSE AnswerFor[d]
        OBVIOUS
      <3>1. CASE d = c
        <4>1. row \in outbox'
          BY <1>1
        <4>2. \A f \in outbox' : f.correlation_id = c => f = row
          BY <1>1, <1>5
        <4>3. (CHOOSE f \in outbox' : f.correlation_id = c) = row
          BY <1>4, <4>1, <4>2
        <4> QED
          BY <1>4, <3>1, <4>1, <4>3, Zenon DEF AnswerFor
      <3>2. CASE d # c
        <4>1. CASE \E e \in outbox : e.correlation_id = d
          <5>1. PICK e \in outbox : e.correlation_id = d
            BY <4>1
          <5>2. \A f \in outbox' : f.correlation_id = d => f = e
            BY <1>1, <1>4, <3>2, <5>1 DEF LaneInvariant, OneReplyPerCommand
          <5>3. e \in outbox' /\ (CHOOSE f \in outbox' : f.correlation_id = d) = e
            BY <1>1, <5>1, <5>2
          <5>4. AnswerFor'[d] = e.reply.owner
            BY <5>1, <5>3, Zenon DEF AnswerFor
          <5> QED
            BY <3>2, <5>1, <5>4, AnswerOfReply
        <4>2. CASE ~ \E e \in outbox : e.correlation_id = d
          BY <1>1, <1>4, <3>2, <4>2 DEF AnswerFor
        <4> QED
          BY <4>1, <4>2
      <3> QED
        BY <3>1, <3>2
    <2> QED
      BY <2>1, Zenon DEF AnswerFor
  <1>8. UNCHANGED <<Asked, OnStream>>
    BY DEF Asked, OnStream
  <1>9. Promise!Answer(c, o)
    BY <1>3, <1>6, <1>7, <1>8 DEF Promise!Answer
  <1> QED
    BY <1>2, <1>9

(* A step of the lane is a step of the promise or leaves it alone. *)
LEMMA PromiseStep ==
    ASSUME LaneInvariant, LaneInvariant', HandledWereSent, AcceptedAreSigned, [Next]_vars
    PROVE  [Promise!Next]_(Promise!vars)
  <1>1. CASE UNCHANGED <<sent, outbox, events>>
    BY <1>1 DEF Promise!vars, Asked, AnswerFor, OnStream
  <1>2. ASSUME NEW m \in Msgs, sent' = sent \cup {m}, UNCHANGED <<outbox, events>>
        PROVE  [Promise!Next]_(Promise!vars)
    <2> DEFINE c == Command[m].correlation_id
               o == OwnerOf(Command[m])
    <2>1. c \in Correlations /\ o \in Owners
      BY RowTypes
    <2>2. UNCHANGED <<AnswerFor, OnStream>>
      BY <1>2 DEF AnswerFor, OnStream
    <2>3. CASE verify_command_signature(Command[m])
      <3>1. Asked' = Asked \cup {<<c, o>>}
        BY <1>2, <2>3 DEF Asked, verify_command_signature
      <3> QED
        BY <2>1, <2>2, <3>1 DEF Promise!Next, Promise!Ask
    <2>4. CASE ~verify_command_signature(Command[m])
      <3>1. Asked' = Asked
        BY <1>2, <2>4 DEF Asked, verify_command_signature
      <3> QED
        BY <2>2, <3>1 DEF Promise!vars
    <2> QED
      BY <2>3, <2>4
  <1>3. ASSUME NEW s \in Servers, pc[s] = "commit", CommitRows(s), UNCHANGED <<sent, events>>
        PROVE  [Promise!Next]_(Promise!vars)
    <2>1. CASE tx[s].inbox = None
      BY <1>1, <1>3, <2>1, DuplicateCommitsNothing
    <2>2. CASE tx[s].inbox # None
      BY <1>3, <2>2, CommitAnswers DEF Promise!Next
    <2> QED
      BY <2>1, <2>2
  <1>4. ASSUME NEW e \in outbox, events' = Append(events, e), UNCHANGED <<sent, outbox>>
        PROVE  [Promise!Next]_(Promise!vars)
    <2>1. events \in Seq(OutboxRows) /\ e \in OutboxRows
      BY DEF LaneInvariant, TypeOK
    <2>2. Elements(events') = Elements(events) \cup {e}
      BY <1>4, <2>1, AppendElements
    <2>3. OnStream = {f.correlation_id : f \in Elements(events)}
      BY DEF OnStream, Elements
    <2>4. OnStream' = {f.correlation_id : f \in Elements(events')}
      BY DEF OnStream, Elements
    <2>5. OnStream' = OnStream \cup {e.correlation_id}
      BY <2>2, <2>3, <2>4
    <2>6. UNCHANGED <<Asked, AnswerFor>>
      BY <1>4 DEF Asked, AnswerFor
    <2>7. e.correlation_id \in Correlations /\ AnswerFor[e.correlation_id] # None
      BY AnswerOfReply, NoneAssumption
    <2> QED
      BY <2>5, <2>6, <2>7, Zenon DEF Promise!Next, Promise!Publish
  <1> QED
    BY <1>1, <1>2, <1>3, <1>4, VisibleSteps

(* The lane implements the safety part of the promise: whatever crashes,   *)
(* redeliveries and races happen, each correlation id is answered at most  *)
(* once, for an owner that asked for it with a signed command, and only    *)
(* answers reach the stream.                                               *)
THEOREM Refinement ==
    Spec => ImplementsRequestReply
  <1>1. Init => HandledWereSent /\ Promise!Init
    <2>1. ASSUME Init PROVE HandledWereSent
      BY <2>1 DEF Init, HandledWereSent, Elements
    <2>2. ASSUME Init PROVE Promise!Init
      BY <2>2 DEF Init, Promise!Init, Asked, AnswerFor, OnStream
    <2> QED
      BY <2>1, <2>2
  <1>2. LaneInvariant /\ HandledWereSent /\ [Next]_vars => HandledWereSent'
    BY HandledStep
  <1>3. LaneInvariant /\ LaneInvariant' /\ HandledWereSent /\ AcceptedAreSigned /\ [Next]_vars
            => [Promise!Next]_(Promise!vars)
    BY PromiseStep
  <1> QED
    BY <1>1, <1>2, <1>3, LaneInvariantHolds, AcceptedSigned, PTL
    DEF Spec, ImplementsRequestReply, Promise!Spec

-----------------------------------------------------------------------------
(* The consumer task, seen from its process. *)

(* How a step moves the consumer of one process. *)
LEMMA ConsumerMoves ==
    ASSUME LaneInvariant, [Next]_vars
    PROVE  \/ UNCHANGED pc
           \/ \E s \in Servers, p \in Running :
                 pc[s] \in Running \cup {"setup"} /\ pc' = [pc EXCEPT ![s] = p]
           \/ \E s \in Servers :
                 pc[s] \in Running \cup {"setup"} /\ pc' = [pc EXCEPT ![s] = "stopped"]
           \/ \E s \in Servers : pc' = [pc EXCEPT ![s] = "down"]
           \/ \E s \in Servers : pc[s] = "down" /\ pc' = [pc EXCEPT ![s] = "setup"]
  <1> USE DEF consumerVars, Running, InTransaction
  <1>1. CASE Environment
    BY <1>1, Zenon DEF Environment, Tick, SendCommand, LoseDelivery, CreateAlert, LapseWindow
  <1>2. ASSUME NEW s \in Servers, Consumer(s) \/ LoseAck(s)
        PROVE  \E p \in Running :
                  pc[s] \in Running \cup {"setup"} /\ pc' = [pc EXCEPT ![s] = p]
    BY <1>2 DEF Consumer, Setup, Accept, Reject, InsertInbox, ReadAlerts, EnqueueReply,
                RecordStatus, Commit, Acknowledge, LoseAck
  <1>3. ASSUME NEW s \in Servers, ConsumerError(s) \/ CommitUnknown(s)
        PROVE  pc[s] \in Running \cup {"setup"} /\ pc' = [pc EXCEPT ![s] = "stopped"]
    BY <1>3 DEF ConsumerError, CommitUnknown, StopConsumer
  <1>4. ASSUME NEW s \in Servers, Crash(s)
        PROVE  pc' = [pc EXCEPT ![s] = "down"]
    BY <1>4, Zenon DEF Crash
  <1>5. ASSUME NEW s \in Servers, Publisher(s) \/ \E m \in Msgs : Deliver(s, m)
        PROVE  UNCHANGED pc
    BY <1>5 DEF Publisher, SelectPending, PublishReply, PublishUnacknowledged,
                PublishError, MarkPublished, Deliver
  <1>6. ASSUME NEW s \in Servers, Restart(s)
        PROVE  pc[s] = "down" /\ pc' = [pc EXCEPT ![s] = "setup"]
    BY <1>6 DEF Restart
  <1>7. CASE UNCHANGED vars
    BY <1>7 DEF vars
  <1> QED
    BY <1>1, <1>2, <1>3, <1>4, <1>5, <1>6, <1>7, Zenon DEF Next, Faults

(* The durable lane is the kind of task that Lifecycle runs: it may return *)
(* at any await of run_jetstream and is not started again before the       *)
(* process is.                                                             *)
THEOREM ConsumerIsLaneTask ==
    Spec => ConsumerTaskAsAssumed
  <1> DEFINE State(p) == IF p = "down" THEN "off" ELSE IF p = "stopped" THEN "ended" ELSE "running"
  <1>1. Init => ConsumerTasks!Init
    BY DEF Init, ConsumerTasks!Init, ConsumerTask
  <1>2. ASSUME LaneInvariant, [Next]_vars
        PROVE  [ConsumerTasks!Next]_ConsumerTask
    <2>1. pc \in [Servers -> Running \cup {"setup", "stopped", "down"}]
      BY <1>2 DEF LaneInvariant, TypeOK
    <2>2. /\ ConsumerTask = [s \in Servers |-> State(pc[s])]
          /\ ConsumerTask' = [s \in Servers |-> State(pc'[s])]
      BY DEF ConsumerTask
    <2>3. \A p \in Running \cup {"setup"} : State(p) = "running"
      BY DEF Running, InTransaction
    <2>4. State("down") = "off" /\ State("stopped") = "ended"
      OBVIOUS
    <2> HIDE DEF State
    <2>5. CASE UNCHANGED pc
      BY <2>2, <2>5
    <2>6. ASSUME NEW s \in Servers, NEW p, pc' = [pc EXCEPT ![s] = p]
          PROVE  ConsumerTask' = [ConsumerTask EXCEPT ![s] = State(p)]
      BY <2>1, <2>2, <2>6
    <2>7. ASSUME NEW s \in Servers, NEW p \in Running,
                 pc[s] \in Running \cup {"setup"}, pc' = [pc EXCEPT ![s] = p]
          PROVE  UNCHANGED ConsumerTask
      BY <2>1, <2>2, <2>3, <2>7
    <2>8. ASSUME NEW s \in Servers, pc[s] \in Running \cup {"setup"},
                 pc' = [pc EXCEPT ![s] = "stopped"]
          PROVE  ConsumerTasks!Next
      <3>1. ConsumerTask[s] = "running"
        BY <2>2, <2>3, <2>8
      <3> QED
        BY <2>4, <2>6, <2>8, <3>1, ZenonT(40) DEF ConsumerTasks!Next, ConsumerTasks!End
    <2>9. ASSUME NEW s \in Servers, pc' = [pc EXCEPT ![s] = "down"]
          PROVE  ConsumerTasks!Next
      <3>1. ConsumerTask' = [t \in Servers |-> IF t \in {s} THEN "off" ELSE ConsumerTask[t]]
        BY <2>1, <2>2, <2>4, <2>9
      <3> QED
        BY <3>1, Zenon DEF ConsumerTasks!Next, ConsumerTasks!ProcessExit
    <2>10. ASSUME NEW s \in Servers, pc[s] = "down", pc' = [pc EXCEPT ![s] = "setup"]
           PROVE  ConsumerTasks!Next
      <3>1. ConsumerTask[s] = "off"
        BY <2>2, <2>4, <2>10
      <3> QED
        BY <2>3, <2>6, <2>10, <3>1, Zenon DEF ConsumerTasks!Next, ConsumerTasks!Spawn
    <2> QED
      BY <1>2, <2>5, <2>7, <2>8, <2>9, <2>10, ConsumerMoves, Zenon
  <1> QED
    BY <1>1, <1>2, LaneInvariantHolds, PTL DEF Spec, ConsumerTaskAsAssumed, ConsumerTasks!Spec
=============================================================================
