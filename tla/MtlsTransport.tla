--------------------------- MODULE MtlsTransport ---------------------------
(***************************************************************************)
(* The stateful mTLS/TCP lane of one eal-api-server process                *)
(* (src/src/transport.rs, run_mtls and execute_tcp_operation): a listener, *)
(* a semaphore of connection permits, and one task per connection that     *)
(* answers frames one after the other.  Each action is what a task does    *)
(* between two await points; every await on the peer has a time limit.     *)
(***************************************************************************)
EXTENDS AuthBoundary, Sequences, FiniteSets

CONSTANTS
    Conns,                 \* connections that clients open
    Frames,                \* frames that clients send
    Operation,             \* Operation[f]: the AuthenticatedOperation in f
    Claims,                \* Claims[t]: what introspection says about token t
    Limit,                 \* TCP_CONNECTION_LIMIT
    MaxOperationDeadline,  \* MAX_OPERATION_DEADLINE_MS, in ticks
    ListLimit,             \* LIMIT of DIRECT_ALERTS_SQL
    MaxFrameRows           \* alerts that fit in MAX_FRAME_BYTES

(* Bounds of the model: nothing in the code corresponds to them. *)
CONSTANTS
    Horizon,               \* the clock stops here
    MaxFrames,             \* frames a client sends on a connection
    MaxAcceptErrors        \* errors of accept()

ASSUME OperationAssumption ==
    \A f \in Frames :
        /\ Operation[f].decodes \in BOOLEAN
        /\ Operation[f].envelope_bounded \in BOOLEAN
        /\ Operation[f].bearer \in BOOLEAN
        /\ Operation[f].deadline \in Nat

ASSUME MtlsAssumption ==
    /\ Limit \in Nat /\ MaxOperationDeadline \in Nat /\ ListLimit \in Nat
    /\ MaxFrameRows \in Nat /\ Horizon \in Nat /\ MaxFrames \in Nat
    /\ MaxAcceptErrors \in Nat
    /\ IsFiniteSet(Conns)

VARIABLES
    listener,   \* the task of run_mtls: "up" or "stopped"
    permits,    \* permits left in the semaphore
    conn,       \* conn[c]: the connection and its task
    now         \* clock

vars == <<listener, permits, conn, now>>

(* frames: what the task has read; replies: what it has sent. *)
NewConn == [pc |-> "new", frames |-> <<>>, replies |-> <<>>, reply |-> None,
            verified |-> None]

Init ==
    /\ listener = "up"
    /\ permits = Limit
    /\ conn = [c \in Conns |-> NewConn]
    /\ now = 0

Tick ==
    /\ now < Horizon
    /\ now' = now + 1
    /\ UNCHANGED <<listener, permits, conn>>

-----------------------------------------------------------------------------
(* The listener. *)

(* Without a permit the socket is dropped. *)
Accept(c) ==
    /\ listener = "up"
    /\ conn[c].pc = "new"
    /\ \/ /\ permits > 0
          /\ permits' = permits - 1
          /\ conn' = [conn EXCEPT ![c].pc = "handshake"]
       \/ /\ permits = 0
          /\ conn' = [conn EXCEPT ![c].pc = "refused"]
          /\ UNCHANGED permits
    /\ UNCHANGED <<listener, now>>

(* An error of accept() ends run_mtls; the connections go on. *)
AcceptError ==
    /\ listener = "up"
    /\ MaxAcceptErrors > 0
    /\ listener' = "stopped"
    /\ UNCHANGED <<permits, conn, now>>

-----------------------------------------------------------------------------
(* A connection. *)

(* Mutant: the permit is released by the task and by its drop. *)
EndTwice(c) ==
    /\ conn' = [conn EXCEPT ![c].pc = "closed"]
    /\ permits' = permits + 2

(* Mutant: the permit is not bound to the task. *)
EndWithoutPermit(c) ==
    /\ conn' = [conn EXCEPT ![c].pc = "closed"]
    /\ UNCHANGED permits

(* The task returns and drops its permit. *)
End(c) ==
    /\ conn' = [conn EXCEPT ![c].pc = "closed"]
    /\ permits' = permits + 1

Handshake(c) ==
    /\ conn[c].pc = "handshake"
    /\ conn' = [conn EXCEPT ![c].pc = "reading"]
    /\ UNCHANGED <<listener, permits, now>>

(* Mutant: a client that sends nothing keeps its connection. *)
PatientStage == {"handshake", "sending"}

(* The stages that wait for the peer, under a time limit. *)
TimedStage == {"handshake", "reading", "sending"}

(* The handshake, the next frame or the send fails or takes too long; the  *)
(* peer closes; a frame exceeds the codec's limit.                         *)
PeerFails(c) ==
    /\ conn[c].pc \in TimedStage
    /\ End(c)
    /\ UNCHANGED <<listener, now>>

Completed(id, owner, n) ==
    [operation_id |-> id, status |-> "completed", error |-> "none",
     owner |-> owner, rows |-> n]

error_reply(id, error) ==
    [operation_id |-> id, status |-> "rejected", error |-> error,
     owner |-> None, rows |-> 0]

validate_operation_envelope_at(f, t) ==
    /\ Operation[f].envelope_bounded
    /\ Operation[f].deadline >= t
    /\ Operation[f].deadline - t <= MaxOperationDeadline

(* The checks of execute_tcp_operation before it awaits anything: the id   *)
(* and the error of the reply, or "none".                                  *)
EarlyError(f) ==
    IF ~Operation[f].decodes THEN error_reply("nil", "invalid_request")
    ELSE IF ~validate_operation_envelope_at(f, now)
         THEN error_reply(Operation[f].operation_id, "invalid_request")
    ELSE IF ~Operation[f].bearer \/ ~Claims[Operation[f].token].strict
         THEN error_reply(Operation[f].operation_id, "unauthorized")
    ELSE None

ReadFrame(c, f) ==
    /\ conn[c].pc = "reading"
    /\ Len(conn[c].frames) < MaxFrames
    /\ conn' = [conn EXCEPT
          ![c].frames = Append(@, f),
          ![c].reply = EarlyError(f),
          ![c].pc = IF EarlyError(f) = None THEN "verify" ELSE "sending"]
    /\ UNCHANGED <<listener, permits, now>>

Current(c) == conn[c].frames[Len(conn[c].frames)]

(* Mutant: the token need not be the one of the envelope's actor. *)
AnyActor(op, actor) == TRUE

SameActor(op, actor) ==
    /\ actor.subject = op.actor_subject
    /\ actor.product_tenant = op.product_tenant

(* The introspection answers or fails. *)
VerifyToken(c) ==
    LET op == Operation[Current(c)]
        actor == VerifiedActor(Claims[op.token])
    IN
    /\ conn[c].pc = "verify"
    /\ \/ /\ authorize_introspection(Claims[op.token], READ_SCOPE, now)
          /\ SameActor(op, actor)
          /\ conn' = [conn EXCEPT ![c].pc = "list", ![c].verified = actor]
       \/ conn' = [conn EXCEPT ![c].pc = "sending",
                               ![c].reply = error_reply(op.operation_id, "unauthorized")]
    /\ UNCHANGED <<listener, permits, now>>

(* store.list under QUERY_TIMEOUT. *)
ListAlerts(c) ==
    LET id == Operation[Current(c)].operation_id IN
    /\ conn[c].pc = "list"
    /\ \E reply \in {Completed(id, conn[c].verified, n) : n \in 0..ListLimit}
                      \cup {error_reply(id, e) : e \in {"unavailable", "timeout"}} :
          conn' = [conn EXCEPT ![c].pc = "sending", ![c].reply = reply,
                               ![c].verified = None]
    /\ UNCHANGED <<listener, permits, now>>

(* Mutant: an oversized reply is skipped and the loop goes on. *)
SkipOversized(c) ==
    /\ conn' = [conn EXCEPT ![c].pc = "reading", ![c].reply = None]
    /\ UNCHANGED permits

DropOversized(c) == End(c)

(* A reply that does not fit in a frame ends the connection. *)
SendReply(c) ==
    /\ conn[c].pc = "sending"
    /\ \/ /\ conn[c].reply.rows > MaxFrameRows
          /\ DropOversized(c)
       \/ /\ conn[c].reply.rows <= MaxFrameRows
          /\ conn' = [conn EXCEPT ![c].pc = "reading", ![c].reply = None,
                                  ![c].replies = Append(@, conn[c].reply)]
          /\ UNCHANGED permits
    /\ UNCHANGED <<listener, now>>

-----------------------------------------------------------------------------
Task(c) == Handshake(c) \/ VerifyToken(c) \/ ListAlerts(c) \/ SendReply(c)

Next ==
    \/ Tick
    \/ AcceptError
    \/ \E c \in Conns :
          \/ Accept(c) \/ Task(c) \/ PeerFails(c)
          \/ \E f \in Frames : ReadFrame(c, f)

Spec == Init /\ [][Next]_vars

(* Tokio runs every ready task, time limits expire, the introspection and  *)
(* the database answer, if only with an error.                             *)
FairSpec ==
    /\ Spec
    /\ \A c \in Conns :
          /\ WF_vars(Accept(c))
          /\ WF_vars(Task(c))
          /\ WF_vars(PeerFails(c))

-----------------------------------------------------------------------------
(* Properties. *)

Actors == {VerifiedActor(Claims[Operation[f].token]) : f \in Frames}

ReplySet ==
    [operation_id : {"nil"} \cup {Operation[f].operation_id : f \in Frames},
     status : {"completed", "rejected"},
     error : {"none", "invalid_request", "unauthorized", "unavailable", "timeout"},
     owner : {None} \cup Actors, rows : 0..ListLimit]

ASSUME NoneAssumption == None \notin ReplySet

ConnStates ==
    [pc : {"new", "refused", "handshake", "reading", "verify", "list", "sending", "closed"},
     frames : Seq(Frames), replies : Seq(ReplySet),
     reply : {None} \cup ReplySet, verified : {None} \cup Actors]

Live == {c \in Conns : conn[c].pc \in {"handshake", "reading", "verify", "list", "sending"}}

(* Every variable has its type. *)
TypeOK ==
    /\ listener \in {"up", "stopped"}
    /\ permits \in 0..Limit
    /\ conn \in [Conns -> ConnStates]
    /\ now \in 0..Horizon

(* A permit is held by exactly the tasks that run: whatever way a task     *)
(* ends, its permit returns, and no more than Limit connections are served.*)
PermitsConserved == permits + Cardinality(Live) = Limit

(* Replies leave in the order of the frames, one for one: the n-th reply   *)
(* on a connection carries the operation id of the n-th frame, or nil if   *)
(* that did not decode, so that a client can pair them by position or id.  *)
RepliesMatchFrames ==
    \A c \in Conns :
        LET pending == IF conn[c].pc \in {"verify", "list", "sending"} THEN 1 ELSE 0 IN
        /\ conn[c].pc \in {"reading", "verify", "list", "sending"} =>
              Len(conn[c].replies) + pending = Len(conn[c].frames)
        /\ \A i \in DOMAIN conn[c].replies :
              LET op == Operation[conn[c].frames[i]] IN
              conn[c].replies[i].operation_id =
                  IF op.decodes THEN op.operation_id ELSE "nil"

(* Alerts are sent only in answer to a frame whose own token is good for   *)
(* reading and belongs to the subject and the tenant the envelope names,   *)
(* and they are that actor's: nothing carries over between the frames of a *)
(* connection.                                                             *)
CompletedIsAuthorized ==
    \A c \in Conns : \A i \in DOMAIN conn[c].replies :
        LET op == Operation[conn[c].frames[i]] IN
        conn[c].replies[i].status = "completed" =>
            /\ READ_SCOPE \in Claims[op.token].scopes
            /\ MatchesPolicy(Claims[op.token])
            /\ conn[c].replies[i].owner =
                  [product_tenant |-> op.product_tenant, subject |-> op.actor_subject]

(* A connection on which the client falls silent gives its permit back.    *)
PermitsReturn ==
    \A c \in Conns : c \in Live ~> c \notin Live

(* The lane accepts: a client that connects is taken up or refused. *)
ConnectionsAccepted ==
    \A c \in Conns : <>(conn[c].pc # "new")
=============================================================================
