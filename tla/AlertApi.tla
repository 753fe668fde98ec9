------------------------------ MODULE AlertApi ------------------------------
(***************************************************************************)
(* The HTTP and WebSocket lane of eal-api-server: the handlers and the     *)
(* broadcast channel of src/src/lib.rs over the AlertStore of              *)
(* src/src/store.rs.                                                       *)
(*                                                                         *)
(* Several API processes (Servers) may share one PostgreSQL database; a    *)
(* process without DATABASE_URL keeps its alerts in a map of its own.  A   *)
(* request (Requests) is a task with control state req[h].pc, a socket     *)
(* (Sockets) one with sock[w].pc; an action is what a task does between    *)
(* two await points.  hyper drops the task of a request whose client       *)
(* disconnects, at any await.                                              *)
(***************************************************************************)
EXTENDS AuthBoundary, Bounds, FiniteSets

CONSTANTS
    Servers,      \* API processes
    Database,     \* is DATABASE_URL set?
    Requests,     \* HTTP requests
    Request,      \* Request[h]: its route, token and body
    Sockets,      \* requests for /v1/ws
    SocketToken,  \* SocketToken[w]: the bearer token of w
    Tokens,       \* bearer tokens
    Claims,       \* Claims[t]: what introspection says about token t
    ListLimit,    \* LIMIT of DIRECT_ALERTS_SQL
    Capacity,     \* capacity of the broadcast channel
    TenantLength, \* length of EAL_PRODUCT_TENANT
    Horizon       \* bound of the model: the clock stops here

(* A token is strict if strict_credential accepts it.  input is the body   *)
(* of a create, target the id in the path of a get.                        *)
ASSUME RequestAssumption ==
    /\ \A h \in Requests :
          /\ Request[h].op \in {"list", "get", "create"}
          /\ Request[h].token \in Tokens
          /\ Request[h].op = "create" => Request[h].input \in Inputs
          /\ Request[h].target \in Requests
    /\ \A w \in Sockets : SocketToken[w] \in Tokens
    /\ \A t \in Tokens : Claims[t].strict \in BOOLEAN /\ Claims[t].active \in BOOLEAN

ASSUME LimitAssumption ==
    /\ Database \in BOOLEAN
    /\ ListLimit \in Nat \ {0}
    /\ Capacity \in Nat \ {0}
    /\ TenantLength \in 1..128    \* bounded_identifier
    /\ Horizon \in Nat

VARIABLES
    rows,      \* rows[d]: the alert rules kept in store d
    stamps,    \* calls of Utc::now() by create, which orders updated_at
    req,       \* the request tasks
    sock,      \* the socket tasks
    channel,   \* channel[s]: every event sent to the broadcast channel of s
    now        \* clock

vars == <<rows, stamps, req, sock, channel, now>>

Stores == IF Database THEN {"postgres"} ELSE Servers
StoreOf(s) == IF Database THEN "postgres" ELSE s

Owners == {VerifiedActor(Claims[t]) : t \in Tokens}

(* An AlertRule with the columns that lists filter and sort by.  The UUID  *)
(* of a rule stands for the request that created it.                       *)
Rules == [id : Requests, owner : Owners, updated_at : Nat]

(* None is no value of the program. *)
ASSUME NoneAssumption == None \notin Rules

NewRequest == [pc |-> "new", server |-> None, actor |-> None, rule |-> None,
               reply |-> "none", found |-> {}]
NewSocket == [pc |-> "new", server |-> None, actor |-> None, next |-> 0,
              start |-> 0, got |-> <<>>]

Init ==
    /\ rows = [d \in Stores |-> {}]
    /\ stamps = 0
    /\ req = [h \in Requests |-> NewRequest]
    /\ sock = [w \in Sockets |-> NewSocket]
    /\ channel = [s \in Servers |-> <<>>]
    /\ now = 0

-----------------------------------------------------------------------------
(* Authorization. *)

Tick ==
    /\ now < Horizon
    /\ now' = now + 1
    /\ UNCHANGED <<rows, stamps, req, sock, channel>>

(* verify_token, when the Shared Auth service answers.  The token may have *)
(* been revoked by then.                                                   *)
Authorized(t, scope, revoked) ==
    authorize_introspection([Claims[t] EXCEPT !.active = @ /\ ~revoked], scope, now)

-----------------------------------------------------------------------------
(* Requests. *)

Reply(h, reply) ==
    req' = [req EXCEPT ![h].pc = "done", ![h].reply = reply]

(* The extractors come first: a path or a body may not decode, and a body  *)
(* may not arrive.  bearer_from_headers then takes the token.              *)
Receive(h, s) ==
    /\ req[h].pc = "new"
    /\ \/ /\ Request[h].op # "list"
          /\ Reply(h, "rejected")
       \/ /\ ~Claims[Request[h].token].strict
          /\ Reply(h, "unauthorized")
       \/ /\ Claims[Request[h].token].strict
          /\ req' = [req EXCEPT ![h].pc = "verify", ![h].server = s]
    /\ UNCHANGED <<rows, stamps, sock, channel, now>>

(* Mutant: create_alert asks for the read scope. *)
ReadScopeOnly(h) == READ_SCOPE

ScopeOf(h) == IF Request[h].op = "create" THEN WRITE_SCOPE ELSE READ_SCOPE

(* Mutant: create_alert does not validate. *)
AcceptsAny(h) == TRUE

Accepts(h) == Request[h].op = "create" => validate(Request[h].input)

(* The answer of the introspection arrives.  create_alert validates the    *)
(* body; AlertStore::create takes the time and makes the rule.             *)
Verify(h) ==
    LET t == Request[h].token
        actor == VerifiedActor(Claims[t])
        create == Request[h].op = "create"
        rule == [id |-> h, owner |-> actor, updated_at |-> stamps + 1]
    IN
    /\ req[h].pc = "verify"
    /\ \/ /\ Reply(h, "degraded")    \* AuthError::Degraded
          /\ UNCHANGED stamps
       \/ /\ \E revoked \in BOOLEAN : ~Authorized(t, ScopeOf(h), revoked)
          /\ Reply(h, "unauthorized")
          /\ UNCHANGED stamps
       \/ /\ Authorized(t, ScopeOf(h), FALSE)
          /\ ~Accepts(h)
          /\ Reply(h, "invalid")
          /\ UNCHANGED stamps
       \/ /\ Authorized(t, ScopeOf(h), FALSE)
          /\ Accepts(h)
          /\ stamps' = IF create THEN stamps + 1 ELSE stamps
          /\ req' = [req EXCEPT ![h].pc = "store", ![h].actor = actor,
                                ![h].rule = IF create THEN rule ELSE None]
    /\ UNCHANGED <<rows, sock, channel, now>>

Announced(h) ==
    channel' = [channel EXCEPT ![req[h].server] = Append(@, req[h].rule)]

StoreRule(h) ==
    rows' = [rows EXCEPT ![StoreOf(req[h].server)] = @ \cup {req[h].rule}]

(* The row of the rule satisfies the CHECKs of the table. *)
Insertable(h) == RuleRowAccepted(TenantLength, into_rule(Request[h].input))

(* AlertStore::create.  The INSERT is awaited; the map is filled, and the  *)
(* event sent, without an await in between.                                *)
Create(h) ==
    /\ req[h].pc = "store"
    /\ Request[h].op = "create"
    /\ Database => Insertable(h)
    /\ StoreRule(h)
    /\ \/ /\ Database
          /\ req' = [req EXCEPT ![h].pc = "stored"]
          /\ UNCHANGED channel
       \/ /\ ~Database
          /\ Announced(h)
          /\ Reply(h, "created")
    /\ UNCHANGED <<stamps, sock, now>>

(* The INSERT has returned: create_alert sends the event and answers. *)
Announce(h) ==
    /\ req[h].pc = "stored"
    /\ Announced(h)
    /\ Reply(h, "created")
    /\ UNCHANGED <<rows, stamps, sock, now>>

(* Mutant: an error of the INSERT is dropped. *)
StoreErrorIgnored(h) ==
    /\ Database
    /\ req[h].pc \in {"store", "stored"}
    /\ req' = [req EXCEPT ![h].pc = "stored"]
    /\ UNCHANGED <<rows, stamps, sock, channel, now>>

(* Mutant: an error of the store is answered like one of the authority. *)
StoreErrorAsDegraded(h) ==
    /\ Database
    /\ req[h].pc \in {"store", "stored"}
    /\ Reply(h, "degraded")
    /\ UNCHANGED <<rows, stamps, sock, channel, now>>

(* Mutant: what a failed INSERT may have left is deleted. *)
StoreErrorUndone(h) ==
    /\ Database
    /\ req[h].pc \in {"store", "stored"}
    /\ Reply(h, "unavailable")
    /\ rows' = [d \in Stores |-> {r \in rows[d] : r.id # h}]
    /\ UNCHANGED <<stamps, sock, channel, now>>

(* StoreError, before or after the INSERT took effect. *)
StoreError(h) ==
    /\ Database
    /\ req[h].pc \in {"store", "stored"}
    /\ Reply(h, "unavailable")
    /\ UNCHANGED <<rows, stamps, sock, channel, now>>

(* An INSERT that was sent may take effect when nobody waits for it any    *)
(* more: the client has gone, or the connection to the database has.       *)
InsertLate(h) ==
    /\ Database
    /\ req[h].pc = "dropped" \/ req[h].reply = "unavailable"
    /\ req[h].rule # None
    /\ req[h].rule \notin rows[StoreOf(req[h].server)]
    /\ Insertable(h)
    /\ StoreRule(h)
    /\ UNCHANGED <<stamps, req, sock, channel, now>>

(* Mutant: the list is not filtered by its owner. *)
Everyones(d, actor) == rows[d]

Owned(d, actor) == {r \in rows[d] : r.owner = actor}

(* Mutant: ORDER BY updated_at, ascending. *)
OldestRows(d, actor) ==
    {r \in Owned(d, actor) :
        Cardinality({q \in Owned(d, actor) : q.updated_at < r.updated_at}) < ListLimit}

(* DIRECT_ALERTS_SQL: the owner's rules, newest first, at most ListLimit.  *)
read_alerts(d, actor) ==
    {r \in Owned(d, actor) :
        Cardinality({q \in Owned(d, actor) : q.updated_at > r.updated_at}) < ListLimit}

(* Mutant: rules that are as new as the clock are left out. *)
ListedBefore(s, actor) == {r \in Owned(StoreOf(s), actor) : r.updated_at < stamps}

(* AlertStore::list.  The map has no limit. *)
Listed(s, actor) ==
    IF Database THEN read_alerts(StoreOf(s), actor) ELSE Owned(s, actor)

ListAlerts(h) ==
    /\ req[h].pc = "store"
    /\ Request[h].op = "list"
    /\ req' = [req EXCEPT ![h].pc = "done", ![h].reply = "ok",
                          ![h].found = Listed(req[h].server, req[h].actor)]
    /\ UNCHANGED <<rows, stamps, sock, channel, now>>

(* AlertStore::get searches the list; the key of the map finds the same.   *)
Found(h) ==
    {r \in Listed(req[h].server, req[h].actor) : r.id = Request[h].target}

(* Mutant: a rule that is not found is answered as null. *)
NotFoundAsNull(h) ==
    /\ req[h].pc = "store"
    /\ Request[h].op = "get"
    /\ req' = [req EXCEPT ![h].pc = "done", ![h].reply = "ok",
                          ![h].found = IF Found(h) = {} THEN {None} ELSE Found(h)]
    /\ UNCHANGED <<rows, stamps, sock, channel, now>>

GetAlert(h) ==
    /\ req[h].pc = "store"
    /\ Request[h].op = "get"
    /\ req' = [req EXCEPT ![h].pc = "done", ![h].found = Found(h),
                          ![h].reply = IF Found(h) = {} THEN "not found" ELSE "ok"]
    /\ UNCHANGED <<rows, stamps, sock, channel, now>>

(* The client goes away; what the task has stored stays. *)
Disconnect(h) ==
    /\ req[h].pc \in {"verify", "store", "stored"}
    /\ req' = [req EXCEPT ![h].pc = "dropped"]
    /\ UNCHANGED <<rows, stamps, sock, channel, now>>

-----------------------------------------------------------------------------
(* Sockets. *)

Close(w) == sock' = [sock EXCEPT ![w].pc = "closed"]

Connect(w, s) ==
    /\ sock[w].pc = "new"
    /\ \/ /\ Claims[SocketToken[w]].strict
          /\ sock' = [sock EXCEPT ![w].pc = "verify", ![w].server = s]
       \/ /\ ~Claims[SocketToken[w]].strict
          /\ Close(w)
    /\ UNCHANGED <<rows, stamps, req, channel, now>>

(* ws_upgrade. *)
VerifySocket(w) ==
    /\ sock[w].pc = "verify"
    /\ \/ Close(w)    \* degraded, or the client went away
       \/ /\ Authorized(SocketToken[w], READ_SCOPE, FALSE)
          /\ sock' = [sock EXCEPT ![w].pc = "upgraded",
                                  ![w].actor = VerifiedActor(Claims[SocketToken[w]])]
    /\ UNCHANGED <<rows, stamps, req, channel, now>>

(* websocket subscribes: it gets what is sent from now on. *)
Subscribe(w) ==
    /\ sock[w].pc = "upgraded"
    /\ sock' = [sock EXCEPT ![w].pc = "open",
                            ![w].start = Len(channel[sock[w].server]),
                            ![w].next = Len(channel[sock[w].server])]
    /\ UNCHANGED <<rows, stamps, req, channel, now>>

Behind(w) == Len(channel[sock[w].server]) - sock[w].next

(* Mutant: the loop waits at an event that is not the actor's. *)
ReceiveOwn(w) ==
    LET event == channel[sock[w].server][sock[w].next + 1] IN
    /\ sock[w].pc = "open"
    /\ Behind(w) \in 1..Capacity
    /\ event.owner = sock[w].actor
    /\ sock' = [sock EXCEPT ![w].next = @ + 1, ![w].got = Append(@, event)]
    /\ UNCHANGED <<rows, stamps, req, channel, now>>

(* events.recv() returns the next event; it is sent if it is the actor's.  *)
ReceiveEvent(w) ==
    LET event == channel[sock[w].server][sock[w].next + 1] IN
    /\ sock[w].pc = "open"
    /\ Behind(w) \in 1..Capacity
    /\ sock' = [sock EXCEPT ![w].next = @ + 1,
                            ![w].got = IF event.owner = sock[w].actor
                                       THEN Append(@, event) ELSE @]
    /\ UNCHANGED <<rows, stamps, req, channel, now>>

(* Mutant: a receiver that lagged goes on with the oldest event kept. *)
LagSkips(w) ==
    /\ sock[w].pc = "open"
    /\ Behind(w) > Capacity
    /\ sock' = [sock EXCEPT ![w].next = Len(channel[sock[w].server]) - Capacity]
    /\ UNCHANGED <<rows, stamps, req, channel, now>>

(* RecvError::Lagged: the channel has overwritten the next event. *)
Lagged(w) ==
    /\ sock[w].pc = "open"
    /\ Behind(w) > Capacity
    /\ Close(w)
    /\ UNCHANGED <<rows, stamps, req, channel, now>>

(* The client closes the socket, or receiving or sending fails. *)
Hangup(w) ==
    /\ sock[w].pc \in {"upgraded", "open"}
    /\ Close(w)
    /\ UNCHANGED <<rows, stamps, req, channel, now>>

-----------------------------------------------------------------------------
Handle(h) ==
    \/ Verify(h) \/ Create(h) \/ Announce(h) \/ ListAlerts(h) \/ GetAlert(h)
    \/ StoreError(h)

Next ==
    \/ Tick
    \/ \E h \in Requests :
          Handle(h) \/ InsertLate(h) \/ Disconnect(h) \/ \E s \in Servers : Receive(h, s)
    \/ \E w \in Sockets :
          \/ VerifySocket(w) \/ Subscribe(w) \/ ReceiveEvent(w) \/ Lagged(w) \/ Hangup(w)
          \/ \E s \in Servers : Connect(w, s)

Spec == Init /\ [][Next]_vars

(* Tokio runs every ready task; the Shared Auth service, the database and  *)
(* the socket's peer answer, if only with an error.                        *)
FairSpec ==
    /\ Spec
    /\ \A h \in Requests : WF_vars(Handle(h))
    /\ \A w \in Sockets : WF_vars(ReceiveEvent(w)) /\ WF_vars(Lagged(w))

-----------------------------------------------------------------------------
(* Properties. *)

Refusals == {"rejected", "unauthorized", "degraded", "invalid"}

RequestStates ==
    [pc : {"new", "verify", "store", "stored", "done", "dropped"},
     server : {None} \cup Servers, actor : {None} \cup Owners,
     rule : {None} \cup Rules,
     reply : {"none", "rejected", "unauthorized", "degraded", "invalid", "created",
              "unavailable", "not found", "ok"},
     found : SUBSET Rules]

SocketStates ==
    [pc : {"new", "verify", "upgraded", "open", "closed"},
     server : {None} \cup Servers, actor : {None} \cup Owners,
     next : Nat, start : Nat, got : Seq(Rules)]

(* Every variable has its type. *)
TypeOK ==
    /\ rows \in [Stores -> SUBSET Rules]
    /\ stamps \in Nat
    /\ req \in [Requests -> RequestStates]
    /\ sock \in [Sockets -> SocketStates]
    /\ channel \in [Servers -> Seq(Rules)]
    /\ now \in 0..Horizon

(* A rule is in the store only if a valid request with a token for writing *)
(* put it there for the token's own subject, and a "created" answer means  *)
(* that the rule is stored and was announced once, on the server that took *)
(* the request.  (An error answer or a dropped request may leave a rule.)  *)
StoreMatchesAnswers ==
    /\ \A d \in Stores : \A r \in rows[d] :
          LET q == Request[r.id] IN
          /\ q.op = "create" /\ validate(q.input)
          /\ WRITE_SCOPE \in Claims[q.token].scopes
          /\ MatchesPolicy(Claims[q.token])
          /\ r.owner = VerifiedActor(Claims[q.token])
    /\ \A h \in Requests : req[h].reply = "created" =>
          /\ req[h].rule \in rows[StoreOf(req[h].server)]
          /\ \A s \in Servers :
                Cardinality({i \in DOMAIN channel[s] : channel[s][i].id = h})
                    = IF s = req[h].server THEN 1 ELSE 0

(* A rule that reaches the store satisfies the CHECKs of its table: Rust   *)
(* bounds bytes before trimming, PostgreSQL characters after it.  (A tenant*)
(* of more than 64 characters is accepted at startup and by no CHECK.)     *)
ValidRulesInsert ==
    TenantLength <= 64 =>
        \A h \in Requests : req[h].rule # None => Insertable(h)

(* A refusal is final: only "service unavailable" and a dropped connection *)
(* leave open whether the rule was stored.  There is no idempotency key,   *)
(* so a client that retries after any other answer, and only then, never   *)
(* creates a rule twice.                                                   *)
RefusedLeavesNoRule ==
    \A h \in Requests :
        req[h].reply \in Refusals =>
            /\ \A d \in Stores : \A r \in rows[d] : r.id # h
            /\ \A s \in Servers : \A i \in DOMAIN channel[s] : channel[s][i].id # h

(* A socket is told only of rules that are stored: the event follows the   *)
(* INSERT, also when the INSERT fails or the client goes away.             *)
AnnouncedIsStored ==
    \A s \in Servers : \A i \in DOMAIN channel[s] :
        channel[s][i] \in rows[StoreOf(s)]

(* Where the events are that a socket task has passed and its actor owns.  *)
Passed(k) == {p \in (k.start + 1)..k.next : channel[k.server][p].owner = k.actor}

(* The i-th event that the socket got is the one at place at[i]; the places*)
(* increase, and are all that it passed.                                   *)
GotAt(k, at) ==
    /\ \A i \in DOMAIN k.got : k.got[i] = channel[k.server][at[i]]
    /\ \A i, j \in DOMAIN k.got : i < j => at[i] < at[j]
    /\ \A p \in Passed(k) : \E i \in DOMAIN k.got : at[i] = p

(* A socket that stays open misses nothing: it has got exactly its actor's *)
(* events since it subscribed, in order and once each.  One that fell      *)
(* behind by more than the channel holds is closed instead.                *)
OpenSocketMissesNothing ==
    \A w \in Sockets :
        sock[w].pc = "open" =>
            \E at \in [DOMAIN sock[w].got -> Passed(sock[w])] : GotAt(sock[w], at)

(* The holder of token t may read r. *)
Readable(t, r) ==
    /\ READ_SCOPE \in Claims[t].scopes
    /\ MatchesPolicy(Claims[t])
    /\ r.owner = VerifiedActor(Claims[t])

(* What a client is shown, in a list, by id or on a socket, whether still  *)
(* open or closed, are rules of the subject of its own token, and the token*)
(* was good for reading.  Nobody sees an alert of somebody else, although  *)
(* all tasks of a process share one store and one channel.                 *)
ReadersSeeTheirOwn ==
    /\ \A h \in Requests : \A r \in req[h].found : Readable(Request[h].token, r)
    /\ \A w \in Sockets : \A i \in DOMAIN sock[w].got :
          Readable(SocketToken[w], sock[w].got[i])

(* The rules of the same owner that list before r. *)
Newer(d, r) == {q \in Owned(d, r.owner) : q.updated_at > r.updated_at}

(* A read shows every rule that it asks for, or the rule is not stored     *)
(* where the server looks, belongs to somebody else, or is older than      *)
(* ListLimit others.  An owner never loses sight of a recent rule, nor of  *)
(* one whose creation was just answered, by this server or by another one  *)
(* over the same database, also when stamps and INSERTs of concurrent      *)
(* requests are ordered differently.                                       *)
RecentRulesAreFound ==
    [][\A h \in Requests :
          (req[h].reply = "none" /\ req'[h].reply \in {"ok", "not found"}) =>
              LET d == StoreOf(req[h].server) IN
              \A r \in rows[d] :
                  \/ r.owner # req[h].actor
                  \/ Request[h].op = "get" /\ r.id # Request[h].target
                  \/ r \in req'[h].found
                  \/ Database /\ Cardinality(Newer(d, r)) >= ListLimit]_vars

(* Every event that is sent reaches the end of each socket subscribed to   *)
(* it, or the socket is closed.                                            *)
EventsReachSockets ==
    \A w \in Sockets :
        [](sock[w].pc = "open" /\ Behind(w) > 0 =>
              <>(sock[w].pc # "open" \/ Behind(w) = 0))

(* The lane as a RuleBook. *)
Kept == UNION {{r.id : r \in rows[d]} : d \in Stores}

Told == UNION {{channel[s][i].id : i \in DOMAIN channel[s]} : s \in Servers}

Outcome(q) ==
    CASE q.reply = "created" -> "created"
      [] q.reply \in Refusals -> "refused"
      [] q.pc = "dropped" \/ q.reply \in {"unavailable", "not found", "ok"} -> "unknown"
      [] OTHER -> "open"

Book == INSTANCE RuleBook WITH
    kept <- Kept, told <- Told, outcome <- [h \in Requests |-> Outcome(req[h])]

(* The HTTP lane keeps what RuleBook promises: whatever the servers, the   *)
(* database and the clients that leave do, each step of theirs is one that *)
(* the book allows, or changes nothing in it.                              *)
ImplementsRuleBook == Book!Spec
=============================================================================
