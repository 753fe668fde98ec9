------------------------ MODULE MtlsTransportProofs ------------------------
(***************************************************************************)
(* The safety properties of MtlsTransport, for any connections, frames and *)
(* limits.  Each of them needs to know what a connection task holds        *)
(* between its awaits: Held, the inductive invariant.                      *)
(***************************************************************************)
EXTENDS MtlsTransport, FiniteSetTheorems, TLAPS

(* The token of op is good for reading and belongs to the actor it names.  *)
Readable(op) ==
    /\ READ_SCOPE \in Claims[op.token].scopes
    /\ MatchesPolicy(Claims[op.token])

Named(op) == [product_tenant |-> op.product_tenant, subject |-> op.actor_subject]

IdOf(f) == IF Operation[f].decodes THEN Operation[f].operation_id ELSE "nil"

(* r answers frame f, and with alerts only if f may have them. *)
Answers(f, r) ==
    /\ r.operation_id = IdOf(f)
    /\ r.status = "completed" =>
          Readable(Operation[f]) /\ r.owner = Named(Operation[f])

(* What a connection k holds at each of its awaits. *)
Held(k) ==
    LET last == k.frames[Len(k.frames)] IN
    /\ k.pc \in {"new", "refused", "handshake"} => k.frames = <<>> /\ k.replies = <<>>
    /\ Len(k.replies) <= Len(k.frames)
    /\ k.pc = "reading" => Len(k.replies) = Len(k.frames)
    /\ k.pc \in {"verify", "list", "sending"} => Len(k.replies) + 1 = Len(k.frames)
    /\ k.pc \in {"verify", "list"} => Operation[last].decodes
    /\ k.pc = "list" =>
          /\ Readable(Operation[last])
          /\ k.verified = Named(Operation[last])
          /\ k.verified \in Actors
    /\ k.pc = "sending" => k.reply \in ReplySet /\ Answers(last, k.reply)
    /\ \A i \in DOMAIN k.replies : Answers(k.frames[i], k.replies[i])

ConnsHeld == conn \in [Conns -> ConnStates] /\ \A c \in Conns : Held(conn[c])

-----------------------------------------------------------------------------
(* A step of one connection's task leaves the others alone. *)
LEMMA OneConnection ==
    ASSUME ConnsHeld, NEW c \in Conns, NEW k \in ConnStates, Held(k),
           conn' = [conn EXCEPT ![c] = k]
    PROVE  ConnsHeld'
<1>1. conn' \in [Conns -> ConnStates]
  BY DEF ConnsHeld
<1>2. \A d \in Conns : conn'[d] = IF d = c THEN k ELSE conn[d]
  BY DEF ConnsHeld
<1>3. \A d \in Conns : Held(conn'[d])
  <2>. TAKE d \in Conns
  <2>1. CASE d = c
    BY <2>1, <1>2
  <2>2. CASE d # c
    BY <2>2, <1>2 DEF ConnsHeld
  <2>. QED
    BY <2>1, <2>2
<1>. QED
  BY <1>1, <1>3 DEF ConnsHeld

(* The answers of execute_tcp_operation that come before any await. *)
LEMMA EarlyErrorAnswers ==
    ASSUME NEW f \in Frames
    PROVE  \/ EarlyError(f) = None /\ Operation[f].decodes
           \/ EarlyError(f) \in ReplySet /\ EarlyError(f) # None /\ Answers(f, EarlyError(f))
<1>. DEFINE bad == error_reply("nil", "invalid_request")
            invalid == error_reply(Operation[f].operation_id, "invalid_request")
            refused == error_reply(Operation[f].operation_id, "unauthorized")
<1>1. bad \in ReplySet /\ invalid \in ReplySet /\ refused \in ReplySet
  BY MtlsAssumption DEF error_reply, ReplySet
<1>2. /\ bad.status # "completed" /\ bad.operation_id = "nil"
      /\ invalid.status # "completed" /\ invalid.operation_id = Operation[f].operation_id
      /\ refused.status # "completed" /\ refused.operation_id = Operation[f].operation_id
  BY DEF error_reply
<1>3. Operation[f].decodes \in BOOLEAN
  BY OperationAssumption
<1>. HIDE DEF bad, invalid, refused
<1>4. \/ EarlyError(f) = None /\ Operation[f].decodes
      \/ EarlyError(f) = bad /\ ~Operation[f].decodes
      \/ EarlyError(f) \in {invalid, refused} /\ Operation[f].decodes
  BY DEF EarlyError, bad, invalid, refused
<1>. QED
  BY <1>1, <1>2, <1>3, <1>4, NoneAssumption DEF Answers, IdOf
-----------------------------------------------------------------------------
(* The states a connection may take its next step from, with the frame     *)
(* that it is at.                                                          *)
LEMMA LastFrame ==
    ASSUME ConnsHeld, NEW c \in Conns, conn[c].pc \in {"verify", "list", "sending"}
    PROVE  /\ Current(c) \in Frames
           /\ Current(c) = conn[c].frames[Len(conn[c].frames)]
           /\ Len(conn[c].frames) = Len(conn[c].replies) + 1
<1>1. conn[c] \in ConnStates /\ Held(conn[c])
  BY DEF ConnsHeld
<1>2. conn[c].frames \in Seq(Frames) /\ conn[c].replies \in Seq(ReplySet)
  BY <1>1 DEF ConnStates
<1>3. Len(conn[c].replies) + 1 = Len(conn[c].frames)
  BY <1>1 DEF Held
<1>4. Len(conn[c].frames) \in 1..Len(conn[c].frames)
  BY <1>2, <1>3
<1>. QED
  BY <1>2, <1>3, <1>4 DEF Current

LEMMA AppendFacts ==
    ASSUME NEW S, NEW seq \in Seq(S), NEW e \in S
    PROVE  /\ Append(seq, e) \in Seq(S) /\ Len(Append(seq, e)) = Len(seq) + 1
           /\ Append(seq, e)[Len(seq) + 1] = e
           /\ \A i \in 1..Len(seq) : Append(seq, e)[i] = seq[i]
OBVIOUS

(* The replies of the list step. *)
LEMMA CompletedReply ==
    ASSUME NEW id \in {Operation[g].operation_id : g \in Frames}, NEW actor \in Actors,
           NEW n \in 0..ListLimit
    PROVE  /\ Completed(id, actor, n) \in ReplySet
           /\ Completed(id, actor, n).operation_id = id
           /\ Completed(id, actor, n).owner = actor
BY DEF Completed, ReplySet

LEMMA ErrorReply ==
    ASSUME NEW id \in {Operation[g].operation_id : g \in Frames},
           NEW e \in {"unavailable", "timeout"}
    PROVE  /\ error_reply(id, e) \in ReplySet
           /\ error_reply(id, e).operation_id = id
           /\ error_reply(id, e).status # "completed"
<1>1. 0 \in 0..ListLimit
  BY MtlsAssumption
<1>. QED
  BY <1>1 DEF error_reply, ReplySet

LEMMA ReadFrameHeld ==
    ASSUME ConnsHeld, NEW c \in Conns, NEW f \in Frames, ReadFrame(c, f)
    PROVE  ConnsHeld'
<1>. DEFINE k == conn[c]
            l == [k EXCEPT !.frames = Append(k.frames, f), !.reply = EarlyError(f),
                           !.pc = IF EarlyError(f) = None THEN "verify" ELSE "sending"]
<1>1. k \in ConnStates /\ Held(k) /\ k.pc = "reading"
  BY DEF ConnsHeld, ReadFrame
<1>2. conn' = [conn EXCEPT ![c] = l]
  BY Zenon DEF ReadFrame, ConnsHeld
<1>3. /\ k.frames \in Seq(Frames) /\ k.replies \in Seq(ReplySet)
      /\ Len(k.replies) = Len(k.frames)
  BY <1>1 DEF ConnStates, Held
<1>4. EarlyError(f) \in {None} \cup ReplySet
  BY EarlyErrorAnswers
<1>5. l \in ConnStates
  <2>1. Append(k.frames, f) \in Seq(Frames)
    BY <1>3
  <2>2. (IF EarlyError(f) = None THEN "verify" ELSE "sending") \in {"verify", "sending"}
    OBVIOUS
  <2>. QED
    BY <1>1, <1>4, <2>1, <2>2, Zenon DEF ConnStates
<1>6. /\ l.frames = Append(k.frames, f) /\ l.replies = k.replies
      /\ l.reply = EarlyError(f)
      /\ l.pc = IF EarlyError(f) = None THEN "verify" ELSE "sending"
  BY <1>1 DEF ConnStates
<1>. HIDE DEF k, l
<1>7. /\ Len(l.frames) = Len(k.frames) + 1 /\ l.frames[Len(l.frames)] = f
      /\ \A i \in DOMAIN k.replies : l.frames[i] = k.frames[i]
      /\ Len(l.replies) + 1 = Len(l.frames) /\ Len(l.replies) <= Len(l.frames)
  <2>1. Len(l.frames) = Len(k.frames) + 1 /\ l.frames[Len(k.frames) + 1] = f
    BY <1>3, <1>6, AppendFacts
  <2>2. \A i \in 1..Len(k.frames) : l.frames[i] = k.frames[i]
    BY <1>3, <1>6, AppendFacts
  <2>3. DOMAIN k.replies = 1..Len(k.frames) /\ Len(k.frames) \in Nat
    BY <1>3
  <2>4. Len(l.replies) = Len(k.frames)
    BY <1>3, <1>6
  <2>. QED
    BY <2>1, <2>2, <2>3, <2>4
<1>8. \A i \in DOMAIN l.replies : Answers(l.frames[i], l.replies[i])
  BY <1>1, <1>6, <1>7 DEF Held
<1>9. Held(l)
  BY <1>6, <1>7, <1>8, EarlyErrorAnswers DEF Held
<1>. QED
  BY <1>2, <1>5, <1>9, OneConnection, Zenon

LEMMA VerifyTokenHeld ==
    ASSUME ConnsHeld, NEW c \in Conns, VerifyToken(c)
    PROVE  ConnsHeld'
<1>. DEFINE k == conn[c]
            f == Current(c)
            op == Operation[f]
            actor == VerifiedActor(Claims[op.token])
            e == error_reply(op.operation_id, "unauthorized")
<1>1. k \in ConnStates /\ Held(k) /\ k.pc = "verify"
  BY DEF ConnsHeld, VerifyToken
<1>2. f \in Frames /\ f = k.frames[Len(k.frames)]
  BY <1>1, LastFrame
<1>3. op.decodes
  BY <1>1, <1>2 DEF Held
<1>4. CASE /\ authorize_introspection(Claims[op.token], READ_SCOPE, now)
           /\ SameActor(op, actor)
           /\ conn' = [conn EXCEPT ![c].pc = "list", ![c].verified = actor]
  <2>. DEFINE l == [k EXCEPT !.pc = "list", !.verified = actor]
  <2>1. conn' = [conn EXCEPT ![c] = l]
    BY <1>4, Zenon DEF ConnsHeld
  <2>2. actor \in Actors
    BY <1>2 DEF Actors
  <2>3. l \in ConnStates
    BY <1>1, <2>2, Zenon DEF ConnStates
  <2>4. /\ l.pc = "list" /\ l.verified = actor /\ l.frames = k.frames
        /\ l.replies = k.replies
    BY <1>1 DEF ConnStates
  <2>5. Readable(op)
    BY <1>4 DEF Readable, authorize_introspection
  <2>6. actor = Named(op)
    BY <1>4 DEF SameActor, VerifiedActor, Named
  <2>. HIDE DEF k, l, f, op, actor
  <2>7. Held(l)
    BY <1>1, <1>2, <1>3, <2>2, <2>4, <2>5, <2>6 DEF Held, op
  <2>. QED
    BY <2>1, <2>3, <2>7, OneConnection, Zenon
<1>5. CASE conn' = [conn EXCEPT ![c].pc = "sending", ![c].reply = e]
  <2>. DEFINE l == [k EXCEPT !.pc = "sending", !.reply = e]
  <2>1. conn' = [conn EXCEPT ![c] = l]
    BY <1>5, Zenon DEF ConnsHeld
  <2>2. e \in ReplySet /\ e.operation_id = op.operation_id /\ e.status # "completed"
    BY <1>2, MtlsAssumption DEF error_reply, ReplySet
  <2>3. l \in ConnStates
    BY <1>1, <2>2, Zenon DEF ConnStates
  <2>4. /\ l.pc = "sending" /\ l.reply = e /\ l.frames = k.frames
        /\ l.replies = k.replies
    BY <1>1 DEF ConnStates
  <2>5. Answers(f, e)
    BY <1>3, <2>2 DEF Answers, IdOf
  <2>. HIDE DEF k, l, f, op, e
  <2>6. Held(l)
    BY <1>1, <1>2, <2>2, <2>4, <2>5 DEF Held
  <2>. QED
    BY <2>1, <2>3, <2>6, OneConnection, Zenon
<1>. QED
  BY <1>4, <1>5 DEF VerifyToken

LEMMA ListAlertsHeld ==
    ASSUME ConnsHeld, NEW c \in Conns, ListAlerts(c)
    PROVE  ConnsHeld'
<1>. DEFINE k == conn[c]
            f == Current(c)
            id == Operation[f].operation_id
<1>1. k \in ConnStates /\ Held(k) /\ k.pc = "list"
  BY DEF ConnsHeld, ListAlerts
<1>2. f \in Frames /\ f = k.frames[Len(k.frames)]
  BY <1>1, LastFrame
<1>3. /\ Operation[f].decodes /\ Readable(Operation[f])
      /\ k.verified = Named(Operation[f]) /\ k.verified \in Actors
  BY <1>1, <1>2 DEF Held
<1>4. PICK r \in {Completed(id, k.verified, n) : n \in 0..ListLimit}
                  \cup {error_reply(id, e) : e \in {"unavailable", "timeout"}} :
         conn' = [conn EXCEPT ![c].pc = "sending", ![c].reply = r, ![c].verified = None]
  BY Zenon DEF ListAlerts
<1>. DEFINE l == [k EXCEPT !.pc = "sending", !.reply = r, !.verified = None]
<1>5. conn' = [conn EXCEPT ![c] = l]
  BY <1>4, Zenon DEF ConnsHeld
<1>6. /\ r \in ReplySet /\ r.operation_id = id
      /\ r.status = "completed" => r.owner = k.verified
  <2>0. id \in {Operation[g].operation_id : g \in Frames}
    BY <1>2
  <2>1. CASE \E n \in 0..ListLimit : r = Completed(id, k.verified, n)
    BY <1>3, <2>0, <2>1, CompletedReply
  <2>2. CASE \E e \in {"unavailable", "timeout"} : r = error_reply(id, e)
    BY <2>0, <2>2, ErrorReply
  <2>. QED
    BY <1>4, <2>1, <2>2
<1>7. l \in ConnStates
  BY <1>1, <1>6, Zenon DEF ConnStates
<1>8. /\ l.pc = "sending" /\ l.reply = r /\ l.frames = k.frames
      /\ l.replies = k.replies
  BY <1>1 DEF ConnStates
<1>9. Answers(f, r)
  BY <1>3, <1>6 DEF Answers, IdOf
<1>. HIDE DEF k, l, f
<1>10. Held(l)
  BY <1>1, <1>2, <1>6, <1>8, <1>9 DEF Held
<1>. QED
  BY <1>5, <1>7, <1>10, OneConnection, Zenon

(* A task may end anywhere: what it has sent stays as it was. *)
LEMMA EndHeld ==
    ASSUME ConnsHeld, NEW c \in Conns, NEW pc \in {"closed", "refused", "handshake", "reading"},
           conn' = [conn EXCEPT ![c].pc = pc],
           pc = "refused" => conn[c].pc = "new",
           pc = "handshake" => conn[c].pc = "new",
           pc = "reading" => conn[c].pc = "handshake"
    PROVE  ConnsHeld'
<1>. DEFINE k == conn[c]
            l == [k EXCEPT !.pc = pc]
<1>1. k \in ConnStates /\ Held(k)
  BY DEF ConnsHeld
<1>2. conn' = [conn EXCEPT ![c] = l]
  BY DEF ConnsHeld
<1>3. l \in ConnStates
  BY <1>1 DEF ConnStates
<1>4. l.pc = pc /\ l.frames = k.frames /\ l.replies = k.replies
  BY <1>1 DEF ConnStates
<1>. HIDE DEF l
<1>5. Held(l)
  BY <1>1, <1>4 DEF Held
<1>. QED
  BY <1>2, <1>3, <1>5, OneConnection, Zenon

LEMMA SendReplyHeld ==
    ASSUME ConnsHeld, NEW c \in Conns, SendReply(c)
    PROVE  ConnsHeld'
<1>. DEFINE k == conn[c]
            f == Current(c)
            l == [k EXCEPT !.pc = "reading", !.reply = None,
                           !.replies = Append(k.replies, k.reply)]
<1>1. k \in ConnStates /\ Held(k) /\ k.pc = "sending"
  BY DEF ConnsHeld, SendReply
<1>2. CASE DropOversized(c)
  BY <1>2, EndHeld, Zenon DEF DropOversized, End
<1>3. CASE conn' = [conn EXCEPT ![c].pc = "reading", ![c].reply = None,
                                ![c].replies = Append(@, conn[c].reply)]
  <2>1. conn' = [conn EXCEPT ![c] = l]
    BY <1>3, Zenon DEF ConnsHeld
  <2>2. /\ k.reply \in ReplySet /\ Answers(f, k.reply)
        /\ f = k.frames[Len(k.frames)] /\ Len(k.frames) = Len(k.replies) + 1
    BY <1>1, LastFrame DEF Held
  <2>3. k.frames \in Seq(Frames) /\ k.replies \in Seq(ReplySet)
    BY <1>1 DEF ConnStates
  <2>4. Append(k.replies, k.reply) \in Seq(ReplySet)
    BY <2>2, <2>3
  <2>5. l \in ConnStates
    BY <1>1, <2>4, Zenon DEF ConnStates
  <2>6. /\ l.pc = "reading" /\ l.frames = k.frames
        /\ l.replies = Append(k.replies, k.reply)
    BY <1>1 DEF ConnStates
  <2>. HIDE DEF k, l, f
  <2>7. Len(l.replies) = Len(l.frames) /\ Len(l.replies) \in Nat
    BY <2>2, <2>3, <2>6
  <2>8. \A i \in DOMAIN l.replies : Answers(l.frames[i], l.replies[i])
    <3>. TAKE i \in DOMAIN l.replies
    <3>1. CASE i \in DOMAIN k.replies
      BY <3>1, <1>1, <2>2, <2>3, <2>6 DEF Held
    <3>2. CASE i = Len(k.replies) + 1
      BY <3>2, <2>2, <2>3, <2>6
    <3>. QED
      BY <3>1, <3>2, <2>2, <2>3, <2>6
  <2>9. Held(l)
    BY <2>6, <2>7, <2>8 DEF Held
  <2>. QED
    BY <2>1, <2>5, <2>9, OneConnection, Zenon
<1>. QED
  BY <1>2, <1>3 DEF SendReply

(* No step of the lane makes a connection hold anything else. *)
LEMMA NextHeld ==
    ASSUME ConnsHeld, [Next]_vars
    PROVE  ConnsHeld'
<1>1. CASE UNCHANGED conn
  BY <1>1 DEF ConnsHeld
<1>2. ASSUME NEW c \in Conns, Accept(c)
      PROVE  ConnsHeld'
  BY <1>2, EndHeld DEF Accept
<1>3. ASSUME NEW c \in Conns, Task(c)
      PROVE  ConnsHeld'
  <2>1. CASE Handshake(c)
    BY <2>1, EndHeld, Zenon DEF Handshake
  <2>. QED
    BY <1>3, <2>1, VerifyTokenHeld, ListAlertsHeld, SendReplyHeld DEF Task
<1>4. ASSUME NEW c \in Conns, PeerFails(c)
      PROVE  ConnsHeld'
  BY <1>4, EndHeld, Zenon DEF PeerFails, End
<1>5. ASSUME NEW c \in Conns, NEW f \in Frames, ReadFrame(c, f)
      PROVE  ConnsHeld'
  BY <1>5, ReadFrameHeld
<1>. QED
  BY <1>1, <1>2, <1>3, <1>4, <1>5 DEF Next, Tick, AcceptError, vars

-----------------------------------------------------------------------------
(* Permits. *)

Counted ==
    /\ permits \in Nat
    /\ PermitsConserved

(* The semaphore follows the set of running tasks, one task at a time.     *)
LEMMA OnePermit ==
    ASSUME Counted, NEW c \in Conns,
           \/ Live' = Live /\ permits' = permits
           \/ /\ c \notin Live /\ Live' = Live \cup {c}
              /\ permits > 0 /\ permits' = permits - 1
           \/ c \in Live /\ Live' = Live \ {c} /\ permits' = permits + 1
    PROVE  Counted'
<1>1. IsFiniteSet(Live)
  BY MtlsAssumption, FS_Subset DEF Live
<1>2. Cardinality(Live) \in Nat /\ permits \in Nat
      /\ permits + Cardinality(Live) = Limit
  BY <1>1, FS_CardinalityType DEF Counted, PermitsConserved
<1>3. CASE Live' = Live /\ permits' = permits
  BY <1>2, <1>3 DEF Counted, PermitsConserved
<1>4. CASE /\ c \notin Live /\ Live' = Live \cup {c}
           /\ permits > 0 /\ permits' = permits - 1
  <2>1. Cardinality(Live') = Cardinality(Live) + 1
    BY <1>1, <1>4, FS_AddElement
  <2>. QED
    BY <1>2, <1>4, <2>1 DEF Counted, PermitsConserved
<1>5. CASE c \in Live /\ Live' = Live \ {c} /\ permits' = permits + 1
  <2>1. Cardinality(Live') = Cardinality(Live) - 1
    BY <1>1, <1>5, FS_RemoveElement
  <2>. QED
    BY <1>2, <1>5, <2>1 DEF Counted, PermitsConserved
<1>. QED
  BY <1>3, <1>4, <1>5

Stages == {"handshake", "reading", "verify", "list", "sending"}

(* A step changes the stage of one connection at most. *)
LEMMA OneStage ==
    ASSUME conn \in [Conns -> ConnStates], NEW c \in Conns,
           DOMAIN conn' = Conns,
           \A d \in Conns \ {c} : conn'[d] = conn[d]
    PROVE  /\ (c \in Live <=> conn[c].pc \in Stages)
           /\ (c \in Live' <=> conn'[c].pc \in Stages)
           /\ Live' \ {c} = Live \ {c}
BY DEF Live, Stages

LEMMA NextCounted ==
    ASSUME conn \in [Conns -> ConnStates], Counted, [Next]_vars
    PROVE  Counted'
<1>1. CASE UNCHANGED <<conn, permits>>
  BY <1>1 DEF Counted, PermitsConserved, Live
<1>2. ASSUME NEW c \in Conns, End(c), conn[c].pc \in Stages
      PROVE  Counted'
  <2>1. DOMAIN conn' = Conns /\ \A d \in Conns \ {c} : conn'[d] = conn[d]
    BY <1>2 DEF End
  <2>2. conn'[c].pc = "closed" /\ permits' = permits + 1
    BY <1>2 DEF End, ConnStates
  <2>3. c \in Live /\ Live' = Live \ {c}
    BY <1>2, <2>1, <2>2, OneStage DEF Stages
  <2>. QED
    BY <2>2, <2>3, OnePermit
<1>3. ASSUME NEW c \in Conns, UNCHANGED permits, DOMAIN conn' = Conns,
             \A d \in Conns \ {c} : conn'[d] = conn[d],
             conn'[c].pc \in Stages <=> conn[c].pc \in Stages
      PROVE  Counted'
  BY <1>3, OneStage, OnePermit
<1>4. ASSUME NEW c \in Conns, Accept(c)
      PROVE  Counted'
  <2>1. CASE permits > 0 /\ permits' = permits - 1
             /\ conn' = [conn EXCEPT ![c].pc = "handshake"]
    <3>1. DOMAIN conn' = Conns /\ \A d \in Conns \ {c} : conn'[d] = conn[d]
      BY <2>1
    <3>2. conn'[c].pc = "handshake" /\ conn[c].pc = "new"
      BY <1>4, <2>1 DEF Accept, ConnStates
    <3>3. c \notin Live /\ Live' = Live \cup {c}
      BY <3>1, <3>2, OneStage DEF Stages
    <3>. QED
      BY <2>1, <3>3, OnePermit
  <2>2. CASE conn' = [conn EXCEPT ![c].pc = "refused"] /\ UNCHANGED permits
    <3>1. conn'[c].pc = "refused" /\ conn[c].pc = "new"
      BY <1>4, <2>2 DEF Accept, ConnStates
    <3>. QED
      BY <2>2, <3>1, <1>3 DEF Stages
  <2>. QED
    BY <1>4, <2>1, <2>2 DEF Accept
<1>5. ASSUME NEW c \in Conns, PeerFails(c)
      PROVE  Counted'
  BY <1>5, <1>2 DEF PeerFails, TimedStage, Stages
<1>6. ASSUME NEW c \in Conns, Handshake(c) \/ VerifyToken(c) \/ ListAlerts(c)
      PROVE  Counted'
  <2>1. /\ UNCHANGED permits /\ DOMAIN conn' = Conns
        /\ \A d \in Conns \ {c} : conn'[d] = conn[d]
    BY <1>6, Zenon DEF Handshake, VerifyToken, ListAlerts
  <2>2. conn'[c].pc \in {"reading", "list", "sending"}
        /\ conn[c].pc \in {"handshake", "verify", "list"}
    BY <1>6, ZenonT(40) DEF Handshake, VerifyToken, ListAlerts, ConnStates
  <2>. QED
    BY <2>1, <2>2, <1>3, Zenon DEF Stages
<1>7. ASSUME NEW c \in Conns, SendReply(c)
      PROVE  Counted'
  <2>1. CASE DropOversized(c)
    BY <1>7, <2>1, <1>2 DEF SendReply, DropOversized, Stages
  <2>2. CASE /\ conn' = [conn EXCEPT ![c].pc = "reading", ![c].reply = None,
                                     ![c].replies = Append(@, conn[c].reply)]
             /\ UNCHANGED permits
    <3>1. DOMAIN conn' = Conns /\ \A d \in Conns \ {c} : conn'[d] = conn[d]
      BY <2>2
    <3>2. conn'[c].pc = "reading" /\ conn[c].pc = "sending"
      BY <1>7, <2>2 DEF SendReply, ConnStates
    <3>. QED
      BY <2>2, <3>1, <3>2, <1>3 DEF Stages
  <2>. QED
    BY <1>7, <2>1, <2>2 DEF SendReply
<1>8. ASSUME NEW c \in Conns, NEW f \in Frames, ReadFrame(c, f)
      PROVE  Counted'
  <2>1. /\ UNCHANGED permits /\ DOMAIN conn' = Conns
        /\ \A d \in Conns \ {c} : conn'[d] = conn[d]
    BY <1>8 DEF ReadFrame
  <2>2. conn[c].pc = "reading" /\ conn'[c].pc \in {"verify", "sending"}
    BY <1>8 DEF ReadFrame, ConnStates
  <2>. QED
    BY <2>1, <2>2, <1>3 DEF Stages
<1>. QED
  BY <1>1, <1>4, <1>5, <1>6, <1>7, <1>8 DEF Next, Task, Tick, AcceptError, vars

-----------------------------------------------------------------------------
(* The inductive invariant. *)
MtlsInvariant ==
    /\ ConnsHeld
    /\ Counted
    /\ listener \in {"up", "stopped"}
    /\ now \in 0..Horizon

LEMMA InitInvariant == Init => MtlsInvariant
<1>. SUFFICES ASSUME Init PROVE MtlsInvariant
  OBVIOUS
<1>1. NewConn \in ConnStates /\ Held(NewConn)
  <2>1. NewConn \in ConnStates
    BY DEF NewConn, ConnStates
  <2>2. /\ NewConn.pc = "new" /\ NewConn.frames = <<>> /\ NewConn.replies = <<>>
        /\ Len(<<>>) = 0 /\ DOMAIN <<>> = {}
    BY DEF NewConn
  <2>3. Held(NewConn)
    BY <2>2 DEF Held
  <2>. QED
    BY <2>1, <2>3
<1>2. ConnsHeld
  BY <1>1 DEF Init, ConnsHeld
<1>3. Live = {}
  BY DEF Init, Live, NewConn
<1>4. Counted
  BY <1>3, FS_EmptySet, MtlsAssumption DEF Init, Counted, PermitsConserved
<1>. QED
  BY <1>2, <1>4, MtlsAssumption DEF Init, MtlsInvariant

LEMMA NextInvariant == MtlsInvariant /\ [Next]_vars => MtlsInvariant'
<1>. SUFFICES ASSUME MtlsInvariant, [Next]_vars PROVE MtlsInvariant'
  OBVIOUS
<1>1. ConnsHeld'
  BY NextHeld DEF MtlsInvariant
<1>2. Counted'
  BY NextCounted, Zenon DEF MtlsInvariant, ConnsHeld
<1>3. (listener \in {"up", "stopped"})'
  BY Zenon DEF MtlsInvariant, Next, Tick, AcceptError, Accept, Task, Handshake, VerifyToken,
         ListAlerts, SendReply, PeerFails, ReadFrame, vars
<1>4. (now \in 0..Horizon)'
  <2>1. UNCHANGED now \/ Tick
    BY Zenon DEF Next, AcceptError, Accept, Task, Handshake, VerifyToken, ListAlerts,
           SendReply, PeerFails, ReadFrame, vars
  <2>2. CASE UNCHANGED now
    BY <2>2 DEF MtlsInvariant
  <2>3. CASE Tick
    BY <2>3, MtlsAssumption DEF MtlsInvariant, Tick
  <2>. QED
    BY <2>1, <2>2, <2>3
<1>. QED
  BY <1>1, <1>2, <1>3, <1>4 DEF MtlsInvariant

LEMMA SpecInvariant == Spec => []MtlsInvariant
BY InitInvariant, NextInvariant, PTL DEF Spec

(* The types hold for any number of connections and frames. *)
THEOREM MtlsTypes == Spec => []TypeOK
<1>1. MtlsInvariant => TypeOK
  <2>. SUFFICES ASSUME MtlsInvariant PROVE TypeOK
    OBVIOUS
  <2>1. Cardinality(Live) \in Nat
    BY MtlsAssumption, FS_Subset, FS_CardinalityType DEF Live
  <2>2. permits \in 0..Limit
    BY <2>1, MtlsAssumption DEF MtlsInvariant, Counted, PermitsConserved
  <2>. QED
    BY <2>2 DEF MtlsInvariant, ConnsHeld, TypeOK
<1>. QED
  BY <1>1, SpecInvariant, PTL

(* The semaphore and the running connection tasks always add up to         *)
(* TCP_CONNECTION_LIMIT, whatever the limit and however tasks end.         *)
THEOREM MtlsPermits == Spec => []PermitsConserved
<1>1. MtlsInvariant => PermitsConserved
  BY DEF MtlsInvariant, Counted
<1>. QED
  BY <1>1, SpecInvariant, PTL

(* Replies pair with frames by position and by operation id, on any number *)
(* of connections with any number of frames.                               *)
THEOREM MtlsReplies == Spec => []RepliesMatchFrames
<1>1. MtlsInvariant => RepliesMatchFrames
  <2>. SUFFICES ASSUME MtlsInvariant, NEW c \in Conns
                PROVE  LET pending == IF conn[c].pc \in {"verify", "list", "sending"}
                                      THEN 1 ELSE 0 IN
                       /\ conn[c].pc \in {"reading", "verify", "list", "sending"} =>
                             Len(conn[c].replies) + pending = Len(conn[c].frames)
                       /\ \A i \in DOMAIN conn[c].replies :
                             conn[c].replies[i].operation_id = IdOf(conn[c].frames[i])
    BY Zenon DEF RepliesMatchFrames, IdOf
  <2>1. Held(conn[c]) /\ conn[c] \in ConnStates
    BY DEF MtlsInvariant, ConnsHeld
  <2>2. Len(conn[c].replies) \in Nat
    BY <2>1 DEF ConnStates
  <2>3. /\ conn[c].pc = "reading" => Len(conn[c].replies) = Len(conn[c].frames)
        /\ conn[c].pc \in {"verify", "list", "sending"} =>
              Len(conn[c].replies) + 1 = Len(conn[c].frames)
        /\ \A i \in DOMAIN conn[c].replies : Answers(conn[c].frames[i], conn[c].replies[i])
    BY <2>1 DEF Held
  <2>. DEFINE pending == IF conn[c].pc \in {"verify", "list", "sending"} THEN 1 ELSE 0
  <2>4. conn[c].pc \in {"reading", "verify", "list", "sending"} =>
           Len(conn[c].replies) + pending = Len(conn[c].frames)
    <3>1. CASE conn[c].pc = "reading"
      <4>1. pending = 0
        BY <3>1
      <4>2. Len(conn[c].replies) + 0 = Len(conn[c].replies)
        BY <2>2
      <4>. QED
        BY <2>3, <3>1, <4>1, <4>2
    <3>2. CASE conn[c].pc \in {"verify", "list", "sending"}
      BY <2>3, <3>2
    <3>. QED
      BY <3>1, <3>2, Zenon
  <2>5. \A i \in DOMAIN conn[c].replies :
           conn[c].replies[i].operation_id = IdOf(conn[c].frames[i])
    BY <2>3, Zenon DEF Answers
  <2>. QED
    BY <2>4, <2>5, Zenon
<1>. QED
  BY <1>1, SpecInvariant, PTL

(* Alerts go only to frames whose own token may read them, whatever tokens *)
(* the other frames of the connection carry.                               *)
THEOREM MtlsAuthorized == Spec => []CompletedIsAuthorized
<1>1. MtlsInvariant => CompletedIsAuthorized
  <2>. SUFFICES ASSUME MtlsInvariant, NEW c \in Conns, NEW i \in DOMAIN conn[c].replies,
                       conn[c].replies[i].status = "completed"
                PROVE  /\ Readable(Operation[conn[c].frames[i]])
                       /\ conn[c].replies[i].owner = Named(Operation[conn[c].frames[i]])
    BY Zenon DEF CompletedIsAuthorized, Readable, Named
  <2>1. Held(conn[c])
    BY DEF MtlsInvariant, ConnsHeld
  <2>2. Answers(conn[c].frames[i], conn[c].replies[i])
    BY <2>1 DEF Held
  <2>. QED
    BY <2>2, ZenonT(40) DEF Answers
<1>. QED
  BY <1>1, SpecInvariant, PTL
=============================================================================
