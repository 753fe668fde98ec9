--------------------------- MODULE AlertApiProofs ---------------------------
(***************************************************************************)
(* The safety properties of AlertApi, for any number of servers, requests  *)
(* and sockets, with or without a database.                                *)
(***************************************************************************)
EXTENDS AlertApi, BoundsProofs, FiniteSetTheorems

-----------------------------------------------------------------------------
(* Types. *)

LEMMA StoreKnown ==
    ASSUME NEW s \in Servers
    PROVE  StoreOf(s) \in Stores
BY DEF StoreOf, Stores

LEMMA OwnerKnown ==
    ASSUME NEW t \in Tokens
    PROVE  VerifiedActor(Claims[t]) \in Owners
BY DEF Owners

LEMMA ListedRules ==
    ASSUME TypeOK, NEW s \in Servers, NEW actor
    PROVE  Listed(s, actor) \in SUBSET Rules
<1>1. StoreOf(s) \in Stores /\ (~Database => s \in Stores)
  BY StoreKnown, Zenon DEF Stores
<1>. QED
  BY <1>1 DEF Listed, read_alerts, Owned, TypeOK

(* The next state of a request, for each of the fields that an action      *)
(* changes together.                                                       *)
PCs == {"new", "verify", "store", "stored", "done", "dropped"}
Replies == Refusals \cup {"none", "created", "unavailable", "not found", "ok"}

LEMMA RequestFields ==
    ASSUME NEW q \in RequestStates, NEW pc \in PCs
    PROVE  /\ [q EXCEPT !.pc = pc] \in RequestStates
           /\ \A reply \in Replies :
                 [q EXCEPT !.pc = pc, !.reply = reply] \in RequestStates
           /\ \A s \in Servers : [q EXCEPT !.pc = pc, !.server = s] \in RequestStates
           /\ \A actor \in Owners, rule \in {None} \cup Rules :
                 [q EXCEPT !.pc = pc, !.actor = actor, !.rule = rule] \in RequestStates
           /\ \A reply \in Replies, found \in SUBSET Rules :
                 [q EXCEPT !.pc = pc, !.reply = reply, !.found = found] \in RequestStates
<1>. DEFINE replies == {"none", "rejected", "unauthorized", "degraded", "invalid", "created",
                        "unavailable", "not found", "ok"}
            servers == {None} \cup Servers
            actors == {None} \cup Owners
            rules == {None} \cup Rules
            finds == SUBSET Rules
<1>1. RequestStates = [pc : PCs, server : servers, actor : actors, rule : rules,
                       reply : replies, found : finds]
  BY Zenon DEF RequestStates, PCs
<1>2. Replies = replies /\ Servers \subseteq servers /\ Owners \subseteq actors
  BY DEF Replies, Refusals
<1>. HIDE DEF replies, servers, actors, rules, finds, PCs
<1>3. [q EXCEPT !.pc = pc] \in RequestStates
  BY <1>1
<1>4. \A reply \in Replies : [q EXCEPT !.pc = pc, !.reply = reply] \in RequestStates
  BY <1>1, <1>2, Zenon
<1>5. \A s \in Servers : [q EXCEPT !.pc = pc, !.server = s] \in RequestStates
  BY <1>1, <1>2, Zenon
<1>6. \A actor \in Owners, rule \in rules :
         [q EXCEPT !.pc = pc, !.actor = actor, !.rule = rule] \in RequestStates
  BY <1>1, <1>2, Zenon
<1>7. \A reply \in Replies, found \in finds :
         [q EXCEPT !.pc = pc, !.reply = reply, !.found = found] \in RequestStates
  BY <1>1, <1>2, Zenon
<1>. QED
  BY <1>3, <1>4, <1>5, <1>6, <1>7, Zenon DEF rules, finds

-----------------------------------------------------------------------------
(* The invariant. *)

(* r is the rule that create_alert makes for request h. *)
MadeBy(h, r) ==
    LET q == Request[h] IN
    /\ q.op = "create" /\ validate(q.input)
    /\ WRITE_SCOPE \in Claims[q.token].scopes
    /\ MatchesPolicy(Claims[q.token])
    /\ r.id = h /\ r.owner = VerifiedActor(Claims[q.token])

Stored(q) == q.rule # None /\ q.rule \in rows[StoreOf(q.server)]

RequestOK(h, q) ==
    /\ q.rule # None =>
          MadeBy(h, q.rule) /\ q.server \in Servers /\ q.pc \notin {"new", "verify"}
    /\ q.pc \in {"verify", "store", "stored"} => q.server \in Servers
    /\ q.pc # "done" => q.reply = "none"
    /\ q.pc = "store" /\ Request[h].op = "create" => q.rule # None
    /\ q.pc = "stored" => Stored(q)
    /\ q.reply = "created" =>
          /\ Stored(q)
          /\ \E i \in DOMAIN channel[q.server] : channel[q.server][i] = q.rule
    /\ q.reply \in Refusals => q.rule = None

(* A rule in a store, and an event of a channel, are those of a request. *)
RowOK(d, r) ==
    /\ r.id \in Requests
    /\ req[r.id].rule = r
    /\ StoreOf(req[r.id].server) = d

EventOK(s, r) ==
    /\ r.id \in Requests
    /\ req[r.id].rule = r
    /\ req[r.id].server = s
    /\ req[r.id].reply = "created"

RowsOK ==
    \A d \in Stores : IsFiniteSet(rows[d]) /\ \A r \in rows[d] : RowOK(d, r)

EventsOK ==
    \A s \in Servers :
        /\ \A i \in DOMAIN channel[s] : EventOK(s, channel[s][i])
        /\ \A i, j \in DOMAIN channel[s] : channel[s][i].id = channel[s][j].id => i = j

SocketsOK ==
    \A w \in Sockets :
        sock[w].pc \in {"verify", "upgraded", "open"} => sock[w].server \in Servers

AlertInvariant ==
    /\ TypeOK
    /\ \A h \in Requests : RequestOK(h, req[h])
    /\ RowsOK
    /\ EventsOK
    /\ SocketsOK

LEMMA InitAlert ==
    Init => AlertInvariant
<1>. SUFFICES ASSUME Init PROVE AlertInvariant
  OBVIOUS
<1>1. NewRequest \in RequestStates
  BY DEF NewRequest, RequestStates
<1>2. NewSocket \in SocketStates
  BY DEF NewSocket, SocketStates
<1>3. TypeOK
  BY <1>1, <1>2, LimitAssumption DEF Init, TypeOK
<1>4. ASSUME NEW h \in Requests
      PROVE  RequestOK(h, req[h])
  <2>1. req[h].pc = "new" /\ req[h].rule = None /\ req[h].reply = "none"
    BY DEF Init, NewRequest
  <2>. QED
    BY <2>1 DEF RequestOK, Refusals
<1>5. RowsOK
  BY FS_EmptySet DEF Init, RowsOK
<1>6. EventsOK
  BY DEF Init, EventsOK
<1>7. SocketsOK
  BY DEF Init, SocketsOK, NewSocket
<1>. QED
  BY <1>3, <1>4, <1>5, <1>6, <1>7 DEF AlertInvariant

-----------------------------------------------------------------------------
(* Steps of a request that leave the stores and the channels alone. *)

LEMMA QuietStep ==
    ASSUME AlertInvariant, NEW h \in Requests, NEW q \in RequestStates,
           req' = [req EXCEPT ![h] = q], stamps' \in Nat,
           UNCHANGED <<rows, sock, channel, now>>,
           RequestOK(h, q), req[h].reply # "created",
           \/ q.rule = req[h].rule /\ q.server = req[h].server
           \/ req[h].rule = None
    PROVE  AlertInvariant'
<1>1. /\ req \in [Requests -> RequestStates] /\ req' \in [Requests -> RequestStates]
      /\ req'[h] = q /\ \A k \in Requests : k # h => req'[k] = req[k]
  BY DEF AlertInvariant, TypeOK
<1>2. TypeOK'
  BY <1>1 DEF AlertInvariant, TypeOK
<1>3. \A k \in Requests : RequestOK(k, req[k])'
  <2>. SUFFICES ASSUME NEW k \in Requests
                PROVE  RequestOK(k, req[k])'
    OBVIOUS
  <2>1. RequestOK(k, req'[k])
    BY <1>1 DEF AlertInvariant
  <2>. QED
    BY <2>1 DEF RequestOK, Stored
<1>4. RowsOK'
  <2>1. ASSUME NEW d \in Stores, NEW r \in rows[d]
        PROVE  RowOK(d, r)'
    <3>1. RowOK(d, r) /\ r \in Rules
      BY DEF AlertInvariant, RowsOK, TypeOK
    <3>2. r.id = h => req[h].rule # None
      BY <3>1, NoneAssumption DEF RowOK
    <3>. QED
      BY <1>1, <3>1, <3>2 DEF RowOK
  <2>. QED
    BY <2>1 DEF AlertInvariant, RowsOK
<1>5. EventsOK'
  <2>1. ASSUME NEW s \in Servers, NEW i \in DOMAIN channel[s]
        PROVE  EventOK(s, channel[s][i])'
    <3>1. EventOK(s, channel[s][i])
      BY DEF AlertInvariant, EventsOK
    <3>. QED
      BY <1>1, <3>1 DEF EventOK
  <2>. QED
    BY <2>1 DEF AlertInvariant, EventsOK
<1>6. SocketsOK'
  BY DEF AlertInvariant, SocketsOK
<1>. QED
  BY <1>2, <1>3, <1>4, <1>5, <1>6 DEF AlertInvariant

LEMMA RequestKnown ==
    ASSUME AlertInvariant, NEW h \in Requests
    PROVE  /\ req[h] \in RequestStates /\ RequestOK(h, req[h])
           /\ stamps \in Nat
           /\ req[h].pc # "done" => req[h].reply = "none"
           /\ req[h].pc \in {"new", "verify"} => req[h].rule = None
BY DEF AlertInvariant, TypeOK, RequestOK

(* An answer that creates nothing, from a task that is not done. *)
LEMMA ReplyStep ==
    ASSUME AlertInvariant, NEW h \in Requests, NEW reply \in Replies \ {"created"},
           req[h].pc # "done", reply \in Refusals => req[h].pc \in {"new", "verify"},
           Reply(h, reply), UNCHANGED <<rows, stamps, sock, channel, now>>
    PROVE  AlertInvariant'
<1>. DEFINE p == req[h]
            q == [p EXCEPT !.pc = "done", !.reply = reply]
<1>1. /\ p \in RequestStates /\ RequestOK(h, p) /\ stamps \in Nat /\ p.reply = "none"
      /\ reply \in Refusals => p.rule = None
  BY RequestKnown
<1>2. q \in RequestStates /\ req' = [req EXCEPT ![h] = q]
  BY <1>1, RequestFields, Zenon DEF Reply, PCs
<1>3. /\ q.pc = "done" /\ q.reply = reply /\ q.rule = p.rule /\ q.server = p.server
  BY <1>1, Zenon DEF RequestStates
<1>. HIDE DEF p, q
<1>4. RequestOK(h, q)
  BY <1>1, <1>3 DEF RequestOK, Stored
<1>5. req[h] = p
  BY DEF p
<1>. QED
  BY <1>1, <1>2, <1>3, <1>4, <1>5, QuietStep, Zenon

LEMMA ReceiveStep ==
    ASSUME AlertInvariant, NEW h \in Requests, NEW s \in Servers, Receive(h, s)
    PROVE  AlertInvariant'
<1>1. CASE \E reply \in {"rejected", "unauthorized"} : Reply(h, reply)
  BY <1>1, ReplyStep, Zenon DEF Receive, Replies, Refusals
<1>2. CASE req' = [req EXCEPT ![h].pc = "verify", ![h].server = s]
  <2>. DEFINE p == req[h]
              q == [p EXCEPT !.pc = "verify", !.server = s]
  <2>1. p \in RequestStates /\ stamps \in Nat /\ p.reply = "none" /\ p.rule = None
    BY RequestKnown DEF Receive
  <2>2. q \in RequestStates /\ req' = [req EXCEPT ![h] = q]
    BY <1>2, <2>1, RequestFields, Zenon DEF PCs
  <2>3. q.pc = "verify" /\ q.server = s /\ q.rule = None /\ q.reply = "none"
    BY <2>1, Zenon DEF RequestStates
  <2>4. req[h].reply = "none" /\ req[h].rule = None
    BY <2>1
  <2>. HIDE DEF p, q
  <2>5. RequestOK(h, q)
    BY <2>3 DEF RequestOK, Refusals
  <2>. QED
    BY <2>1, <2>2, <2>4, <2>5, QuietStep, Zenon DEF Receive
<1>. QED
  BY <1>1, <1>2 DEF Receive

(* What the claims of an authorized token satisfy, revoked or not. *)
LEMMA AuthorizedClaims ==
    ASSUME NEW t \in Tokens, NEW scope, Authorized(t, scope, FALSE),
           Claims[t].active \in BOOLEAN
    PROVE  scope \in Claims[t].scopes /\ MatchesPolicy(Claims[t])
<1>1. [Claims[t] EXCEPT !.active = @ /\ ~FALSE] = [Claims[t] EXCEPT !.active = @]
  OBVIOUS
<1>. QED
  BY <1>1 DEF Authorized, authorize_introspection, MatchesPolicy

LEMMA VerifyStep ==
    ASSUME AlertInvariant, NEW h \in Requests, Verify(h)
    PROVE  AlertInvariant'
<1>. DEFINE t == Request[h].token
            create == Request[h].op = "create"
            actor == VerifiedActor(Claims[t])
            rule == [id |-> h, owner |-> actor, updated_at |-> stamps + 1]
            p == req[h]
<1>1. /\ t \in Tokens /\ Claims[t].active \in BOOLEAN
  BY RequestAssumption
<1>2. p \in RequestStates /\ RequestOK(h, p) /\ stamps \in Nat /\ p.reply = "none"
      /\ p.rule = None /\ p.pc = "verify"
  BY RequestKnown DEF Verify
<1>3. CASE \E reply \in Refusals : Reply(h, reply) /\ UNCHANGED stamps
  BY <1>2, <1>3, ReplyStep, Zenon DEF Verify, Replies, Refusals
<1>4. CASE /\ Authorized(t, ScopeOf(h), FALSE) /\ Accepts(h)
           /\ stamps' = IF create THEN stamps + 1 ELSE stamps
           /\ req' = [req EXCEPT ![h].pc = "store", ![h].actor = actor,
                                 ![h].rule = IF create THEN rule ELSE None]
  <2>. DEFINE made == IF create THEN rule ELSE None
              q == [p EXCEPT !.pc = "store", !.actor = actor, !.rule = made]
  <2>1. actor \in Owners /\ rule \in Rules
    BY <1>1, <1>2, OwnerKnown DEF Rules
  <2>2. create => MadeBy(h, rule)
    <3>1. ScopeOf(h) \in Claims[t].scopes /\ MatchesPolicy(Claims[t])
      BY <1>1, <1>4, AuthorizedClaims, Zenon
    <3>. QED
      BY <1>4, <3>1 DEF MadeBy, Accepts, ScopeOf
  <2>3. made \in {None} \cup Rules
    BY <2>1
  <2>4. q \in RequestStates
    BY <1>2, <2>1, <2>3, RequestFields, ZenonT(40) DEF PCs
  <2>5. req' = [req EXCEPT ![h] = q]
    BY <1>4, Zenon
  <2>6. /\ q.pc = "store" /\ q.rule = made /\ q.reply = "none" /\ q.server = p.server
    BY <1>2, Zenon DEF RequestStates
  <2>7. stamps' \in Nat
    BY <1>2, <1>4
  <2>8. /\ create => made # None
        /\ made # None => create /\ MadeBy(h, made)
    BY <2>1, <2>2, NoneAssumption
  <2>9. p.server \in Servers /\ UNCHANGED <<rows, sock, channel, now>>
    BY <1>2 DEF RequestOK, Verify
  <2>10. req[h].rule = None /\ req[h].reply = "none"
    BY <1>2
  <2>. HIDE DEF made, q, p, rule, actor, t
  <2>11. RequestOK(h, q)
    BY <2>6, <2>8, <2>9 DEF RequestOK, Refusals
  <2>. QED
    BY <2>4, <2>5, <2>7, <2>9, <2>10, <2>11, QuietStep, Zenon
<1>. QED
  BY <1>3, <1>4, Zenon DEF Verify, Refusals

LEMMA ReadStep ==
    ASSUME AlertInvariant, NEW h \in Requests, ListAlerts(h) \/ GetAlert(h)
    PROVE  AlertInvariant'
<1>. DEFINE p == req[h]
            all == Listed(p.server, p.actor)
            found == {r \in all : r.id = Request[h].target}
<1>1. p \in RequestStates /\ RequestOK(h, p) /\ stamps \in Nat /\ p.reply = "none"
      /\ p.pc = "store"
  BY RequestKnown, Zenon DEF ListAlerts, GetAlert, Found
<1>2. all \in SUBSET Rules
  BY <1>1, ListedRules DEF RequestOK, AlertInvariant
<1>3. ASSUME NEW reply \in {"ok", "not found"}, NEW set \in SUBSET Rules,
             req' = [req EXCEPT ![h].pc = "done", ![h].reply = reply, ![h].found = set],
             UNCHANGED <<rows, stamps, sock, channel, now>>
      PROVE  AlertInvariant'
  <2>. DEFINE q == [p EXCEPT !.pc = "done", !.reply = reply, !.found = set]
  <2>1. q \in RequestStates /\ req' = [req EXCEPT ![h] = q]
    BY <1>1, <1>3, RequestFields, Zenon DEF PCs, Replies
  <2>2. q.pc = "done" /\ q.reply = reply /\ q.rule = p.rule /\ q.server = p.server
    BY <1>1, Zenon DEF RequestStates
  <2>3. req[h] = p
    BY Zenon
  <2>. HIDE DEF p, q
  <2>4. RequestOK(h, q)
    BY <1>1, <1>3, <2>2, Zenon DEF RequestOK, Refusals
  <2>. QED
    BY <1>1, <1>3, <2>1, <2>2, <2>3, <2>4, QuietStep, Zenon
<1>4. CASE ListAlerts(h)
  BY <1>2, <1>3, <1>4, Zenon DEF ListAlerts
<1>5. CASE GetAlert(h)
  <2>1. found \in SUBSET Rules
    BY <1>2
  <2>2. (IF found = {} THEN "not found" ELSE "ok") \in {"ok", "not found"}
    BY Zenon
  <2>3. req' = [req EXCEPT ![h].pc = "done",
                           ![h].reply = IF found = {} THEN "not found" ELSE "ok",
                           ![h].found = found]
    BY <1>5, Zenon DEF GetAlert, Found
  <2>. QED
    BY <1>3, <1>5, <2>1, <2>2, <2>3, Zenon DEF GetAlert, Found
<1>. QED
  BY <1>4, <1>5, Zenon

LEMMA DisconnectStep ==
    ASSUME AlertInvariant, NEW h \in Requests, Disconnect(h)
    PROVE  AlertInvariant'
<1>. DEFINE p == req[h]
            q == [p EXCEPT !.pc = "dropped"]
<1>1. p \in RequestStates /\ RequestOK(h, p) /\ stamps \in Nat /\ p.reply = "none"
      /\ p.pc \in {"verify", "store", "stored"}
  BY RequestKnown DEF Disconnect
<1>2. q \in RequestStates /\ req' = [req EXCEPT ![h] = q]
  BY <1>1, RequestFields, Zenon DEF Disconnect, PCs
<1>3. q.pc = "dropped" /\ q.reply = "none" /\ q.rule = p.rule /\ q.server = p.server
  BY <1>1, Zenon DEF RequestStates
<1>4. req[h] = p
  OBVIOUS
<1>. HIDE DEF p, q
<1>5. RequestOK(h, q)
  BY <1>1, <1>3 DEF RequestOK, Refusals
<1>. QED
  BY <1>1, <1>2, <1>3, <1>4, <1>5, QuietStep, Zenon DEF Disconnect

-----------------------------------------------------------------------------
(* Steps that store or announce the rule of a request. *)

LEMMA AppendDomain ==
    ASSUME NEW S, NEW seq \in Seq(S), NEW e \in S
    PROVE  /\ DOMAIN Append(seq, e) = DOMAIN seq \cup {Len(seq) + 1}
           /\ Append(seq, e)[Len(seq) + 1] = e
OBVIOUS

LEMMA StoreStep ==
    ASSUME AlertInvariant, NEW h \in Requests, req[h].pc \in {"store", "stored"},
           req[h].rule # None, StoreRule(h), UNCHANGED <<stamps, sock, now>>,
           \/ UNCHANGED channel /\ req' = [req EXCEPT ![h].pc = "stored"]
           \/ Announced(h) /\ Reply(h, "created")
    PROVE  AlertInvariant'
<1>. DEFINE p == req[h]
            q == req'[h]
            rule == p.rule
            s == p.server
            d == StoreOf(s)
<1>1. /\ p \in RequestStates /\ RequestOK(h, p) /\ p.reply = "none" /\ p.pc # "done"
      /\ rule # None
  BY RequestKnown
<1>2. /\ rule \in Rules /\ MadeBy(h, rule) /\ rule.id = h /\ s \in Servers
      /\ d \in Stores
  BY <1>1, StoreKnown, Zenon DEF RequestOK, MadeBy, RequestStates
<1>3. /\ req' \in [Requests -> RequestStates]
      /\ \A k \in Requests : k # h => req'[k] = req[k]
  <2>1. req \in [Requests -> RequestStates]
    BY DEF AlertInvariant, TypeOK
  <2>2. CASE req' = [req EXCEPT ![h].pc = "stored"]
    <3>1. [p EXCEPT !.pc = "stored"] \in RequestStates
      BY <1>1, RequestFields, Zenon DEF PCs
    <3>. QED
      BY <2>1, <2>2, <3>1, Zenon
  <2>3. CASE Reply(h, "created")
    <3>1. [p EXCEPT !.pc = "done", !.reply = "created"] \in RequestStates
      BY <1>1, RequestFields, Zenon DEF PCs, Replies
    <3>. QED
      BY <2>1, <2>3, <3>1, Zenon DEF Reply
  <2>. QED
    BY <2>2, <2>3
<1>4. /\ q.rule = rule /\ q.server = s
      /\ \/ UNCHANGED channel /\ q.pc = "stored" /\ q.reply = "none"
         \/ Announced(h) /\ q.pc = "done" /\ q.reply = "created"
  <2>1. req \in [Requests -> RequestStates]
    BY DEF AlertInvariant, TypeOK
  <2>2. CASE UNCHANGED channel /\ req' = [req EXCEPT ![h].pc = "stored"]
    <3>1. q = [p EXCEPT !.pc = "stored"]
      BY <2>1, <2>2
    <3>. QED
      BY <1>1, <2>2, <3>1, ZenonT(40) DEF RequestStates
  <2>3. CASE Announced(h) /\ Reply(h, "created")
    <3>1. q = [p EXCEPT !.pc = "done", !.reply = "created"]
      BY <2>1, <2>3 DEF Reply
    <3>. QED
      BY <1>1, <2>3, <3>1, Zenon DEF RequestStates
  <2>. QED
    BY <2>2, <2>3
<1>5. /\ rows \in [Stores -> SUBSET Rules] /\ rows' \in [Stores -> SUBSET Rules]
      /\ rule \in rows'[d]
      /\ \A e \in Stores : rows[e] \subseteq rows'[e]
      /\ \A e \in Stores : e # d => rows'[e] = rows[e]
      /\ rows'[d] = rows[d] \cup {rule}
  BY <1>2 DEF AlertInvariant, TypeOK, StoreRule
<1>6. /\ channel \in [Servers -> Seq(Rules)] /\ channel' \in [Servers -> Seq(Rules)]
      /\ UNCHANGED channel \/ channel' = [channel EXCEPT ![s] = Append(@, rule)]
  <2>1. channel \in [Servers -> Seq(Rules)]
    BY DEF AlertInvariant, TypeOK
  <2>2. channel[s] \in Seq(Rules) /\ Append(channel[s], rule) \in Seq(Rules)
    BY <1>2, <2>1
  <2>. QED
    BY <1>2, <1>4, <2>1, <2>2, Zenon DEF Announced
<1>7. \A u \in Servers : \A i \in DOMAIN channel[u] :
         i \in DOMAIN channel'[u] /\ channel'[u][i] = channel[u][i]
  <2>1. channel[s] \in Seq(Rules)
    BY <1>2, <1>6
  <2>2. \A i \in DOMAIN channel[s] :
           /\ i \in DOMAIN Append(channel[s], rule)
           /\ Append(channel[s], rule)[i] = channel[s][i]
    BY <1>2, <2>1
  <2>. QED
    BY <1>2, <1>6, <2>2, Zenon
<1>8. TypeOK'
  BY <1>3, <1>5, <1>6 DEF AlertInvariant, TypeOK
<1>9. \A k \in Requests : RequestOK(k, req[k])'
  <2>1. ASSUME NEW k \in Requests, k # h
        PROVE  RequestOK(k, req[k])'
    <3>. DEFINE l == req[k]
    <3>1. RequestOK(k, l) /\ req'[k] = l
      BY <1>3, <2>1 DEF AlertInvariant
    <3>. HIDE DEF l
    <3>2. Stored(l) /\ l.server \in Servers => l.rule # None /\ l.rule \in rows'[StoreOf(l.server)]
      BY <1>5, StoreKnown DEF Stored
    <3>. QED
      BY <1>7, <3>1, <3>2 DEF RequestOK, Stored
  <2>2. RequestOK(h, req[h])'
    <3>1. Announced(h) => \E i \in DOMAIN channel'[s] : channel'[s][i] = rule
      <4>. SUFFICES ASSUME Announced(h)
                    PROVE  \E i \in DOMAIN channel'[s] : channel'[s][i] = rule
        OBVIOUS
      <4>1. channel[s] \in Seq(Rules) /\ channel'[s] = Append(channel[s], rule)
        BY <1>2, <1>6 DEF Announced
      <4>2. Len(channel[s]) + 1 \in DOMAIN channel'[s]
            /\ channel'[s][Len(channel[s]) + 1] = rule
        BY <1>2, <4>1
      <4>. QED
        BY <4>2
    <3>2. req'[h] = q
      OBVIOUS
    <3>. HIDE DEF p, q, rule, s, d
    <3>. QED
      BY <1>1, <1>2, <1>4, <1>5, <3>1, <3>2 DEF RequestOK, Stored, Refusals, d
  <2>. QED
    BY <2>1, <2>2
<1>10. RowsOK'
  <2>1. ASSUME NEW e \in Stores, NEW r \in rows'[e]
        PROVE  RowOK(e, r)'
    <3>1. r.id # h => r \in rows[e]
      BY <1>2, <1>5
    <3>2. CASE r \in rows[e]
      <4>1. RowOK(e, r)
        BY <3>2 DEF AlertInvariant, RowsOK
      <4>. QED
        BY <1>3, <1>4, <4>1 DEF RowOK
    <3>3. CASE r \notin rows[e]
      <4>1. r = rule /\ e = d
        BY <1>5, <3>3
      <4>. QED
        BY <1>2, <1>4, <4>1 DEF RowOK
    <3>. QED
      BY <3>2, <3>3
  <2>2. ASSUME NEW e \in Stores
        PROVE  IsFiniteSet(rows'[e])
    <3>1. IsFiniteSet(rows[e])
      BY DEF AlertInvariant, RowsOK
    <3>2. IsFiniteSet(rows[e] \cup {rule})
      BY <3>1, FS_AddElement, Zenon
    <3>. QED
      BY <1>5, <3>1, <3>2, Zenon
  <2>. QED
    BY <2>1, <2>2 DEF RowsOK
<1>11. \A u \in Servers : \A i \in DOMAIN channel[u] : channel[u][i].id # h
  BY <1>1 DEF AlertInvariant, EventsOK, EventOK
<1>12. EventsOK'
  <2>1. ASSUME NEW u \in Servers, NEW i \in DOMAIN channel[u]
        PROVE  EventOK(u, channel[u][i])'
    <3>1. EventOK(u, channel[u][i]) /\ channel'[u][i] = channel[u][i]
      BY <1>7 DEF AlertInvariant, EventsOK
    <3>. QED
      BY <1>3, <1>11, <3>1 DEF EventOK
  <2>2. CASE UNCHANGED channel
    BY <2>1, <2>2 DEF AlertInvariant, EventsOK
  <2>3. CASE ~UNCHANGED channel
    <3>1. Announced(h) /\ q.reply = "created"
      BY <1>4, <2>3
    <3>2. /\ rule.id \in Requests /\ req'[rule.id].rule = rule
          /\ req'[rule.id].server = s /\ req'[rule.id].reply = "created"
      BY <1>2, <1>4, <3>1, Zenon
    <3>3. /\ channel[s] \in Seq(Rules) /\ channel'[s] = Append(channel[s], rule)
          /\ \A u \in Servers : u # s => channel'[u] = channel[u]
      BY <1>2, <1>6, <2>3
    <3>4. /\ DOMAIN channel'[s] = DOMAIN channel[s] \cup {Len(channel[s]) + 1}
          /\ channel'[s][Len(channel[s]) + 1] = rule
      <4>1. /\ DOMAIN Append(channel[s], rule) = DOMAIN channel[s] \cup {Len(channel[s]) + 1}
            /\ Append(channel[s], rule)[Len(channel[s]) + 1] = rule
        BY <1>2, <3>3, AppendDomain, SMTT(30)
      <4>. QED
        BY <3>3, <4>1, Zenon
    <3>5. ASSUME NEW u \in Servers, NEW i \in DOMAIN channel'[u]
          PROVE  EventOK(u, channel[u][i])'
      <4>1. CASE i \in DOMAIN channel[u]
        BY <2>1, <4>1
      <4>2. CASE i \notin DOMAIN channel[u]
        <5>1. u = s
          BY <3>3, <4>2
        <5>2. i = Len(channel[s]) + 1
          BY <3>4, <4>2, <5>1
        <5>3. channel'[u][i] = rule
          BY <3>4, <5>1, <5>2
        <5>. QED
          BY <3>2, <5>1, <5>3 DEF EventOK
      <4>. QED
        BY <4>1, <4>2
    <3>6. ASSUME NEW u \in Servers, NEW i \in DOMAIN channel'[u], NEW j \in DOMAIN channel'[u],
                 channel'[u][i].id = channel'[u][j].id
          PROVE  i = j
      <4>1. \A k, l \in DOMAIN channel[u] : channel[u][k].id = channel[u][l].id => k = l
        BY DEF AlertInvariant, EventsOK
      <4>2. CASE u # s
        <5>1. channel'[u] = channel[u]
          BY <3>3, <4>2, Zenon
        <5>. QED
          BY <3>6, <4>1, <5>1
      <4>3. CASE u = s
        <5>1. \A k \in DOMAIN channel[s] : channel'[s][k].id # h
          BY <1>2, <1>7, <1>11
        <5>2. channel'[s][Len(channel[s]) + 1].id = h
          BY <1>2, <3>4
        <5>. QED
          BY <1>7, <3>4, <3>6, <4>1, <4>3, <5>1, <5>2
      <4>. QED
        BY <4>2, <4>3
    <3>. QED
      BY <3>5, <3>6 DEF EventsOK
  <2>. QED
    BY <2>2, <2>3
<1>13. SocketsOK'
  BY DEF AlertInvariant, SocketsOK
<1>. QED
  BY <1>8, <1>9, <1>10, <1>12, <1>13 DEF AlertInvariant

LEMMA CreateStep ==
    ASSUME AlertInvariant, NEW h \in Requests, Create(h) \/ Announce(h)
    PROVE  AlertInvariant'
<1>1. RequestOK(h, req[h])
  BY RequestKnown
<1>2. CASE Create(h)
  BY <1>1, <1>2, StoreStep DEF Create, RequestOK
<1>3. CASE Announce(h)
  <2>1. Stored(req[h]) /\ req[h].rule # None /\ StoreOf(req[h].server) \in Stores
    BY <1>1, <1>3, StoreKnown DEF Announce, RequestOK, Stored
  <2>2. StoreRule(h)
    BY <1>3, <2>1 DEF Announce, StoreRule, Stored, AlertInvariant, TypeOK
  <2>. QED
    BY <1>3, <2>1, <2>2, StoreStep DEF Announce
<1>. QED
  BY <1>2, <1>3

(* A row that appears late is the one that its request would have stored.  *)
LEMMA LateStep ==
    ASSUME AlertInvariant, NEW h \in Requests, InsertLate(h)
    PROVE  AlertInvariant'
<1>. DEFINE rule == req[h].rule
            d == StoreOf(req[h].server)
<1>1. req[h] \in RequestStates /\ RequestOK(h, req[h]) /\ rule # None
  BY RequestKnown DEF InsertLate
<1>2. rule \in Rules /\ rule.id = h /\ d \in Stores
  BY <1>1, StoreKnown, Zenon DEF RequestOK, MadeBy, RequestStates
<1>3. UNCHANGED <<stamps, req, sock, channel, now>>
  BY DEF InsertLate
<1>4. /\ rows' \in [Stores -> SUBSET Rules]
      /\ \A e \in Stores : rows[e] \subseteq rows'[e]
      /\ \A e \in Stores : rows'[e] \in {rows[e], rows[e] \cup {rule}}
      /\ \A e \in Stores : e # d => rows'[e] = rows[e]
  BY <1>2 DEF AlertInvariant, TypeOK, InsertLate, StoreRule
<1>5. TypeOK'
  BY <1>3, <1>4 DEF AlertInvariant, TypeOK
<1>6. ASSUME NEW k \in Requests
      PROVE  RequestOK(k, req[k])'
  <2>. DEFINE l == req[k]
  <2>1. RequestOK(k, l) /\ req'[k] = l
    BY <1>3 DEF AlertInvariant
  <2>. HIDE DEF l
  <2>2. Stored(l) /\ l.server \in Servers => l.rule # None /\ l.rule \in rows'[StoreOf(l.server)]
    BY <1>4, StoreKnown DEF Stored
  <2>. QED
    BY <1>3, <2>1, <2>2 DEF RequestOK, Stored
<1>7. ASSUME NEW e \in Stores
      PROVE  IsFiniteSet(rows'[e]) /\ \A r \in rows'[e] : RowOK(e, r)'
  <2>1. IsFiniteSet(rows[e]) /\ \A r \in rows[e] : RowOK(e, r)
    BY DEF AlertInvariant, RowsOK
  <2>2. IsFiniteSet(rows[e] \cup {rule})
    BY <2>1, FS_AddElement, Zenon
  <2>3. RowOK(d, rule)
    BY <1>2 DEF RowOK
  <2>. HIDE DEF rule, d
  <2>. QED
    BY <1>3, <1>4, <2>1, <2>2, <2>3 DEF RowOK
<1>8. EventsOK' /\ SocketsOK'
  BY <1>3 DEF AlertInvariant, EventsOK, EventOK, SocketsOK
<1>. QED
  BY <1>5, <1>6, <1>7, <1>8 DEF AlertInvariant, RowsOK

-----------------------------------------------------------------------------
(* Steps of sockets and of the clock. *)

LEMMA SocketStep ==
    ASSUME AlertInvariant, UNCHANGED <<rows, stamps, req, channel>>,
           sock' \in [Sockets -> SocketStates], now' \in 0..Horizon, SocketsOK'
    PROVE  AlertInvariant'
<1>1. TypeOK'
  BY DEF AlertInvariant, TypeOK
<1>2. \A h \in Requests : RequestOK(h, req[h])'
  BY DEF AlertInvariant, RequestOK, Stored
<1>3. RowsOK'
  BY DEF AlertInvariant, RowsOK, RowOK
<1>4. EventsOK'
  BY DEF AlertInvariant, EventsOK, EventOK
<1>. QED
  BY <1>1, <1>2, <1>3, <1>4 DEF AlertInvariant

LEMMA SocketFields ==
    ASSUME NEW k \in SocketStates
    PROVE  /\ \A pc \in {"upgraded", "open", "closed"} :
                 [k EXCEPT !.pc = pc] \in SocketStates
           /\ \A s \in Servers : [k EXCEPT !.pc = "verify", !.server = s] \in SocketStates
           /\ \A actor \in Owners :
                 [k EXCEPT !.pc = "upgraded", !.actor = actor] \in SocketStates
           /\ \A n, m \in Nat :
                 [k EXCEPT !.pc = "open", !.start = n, !.next = m] \in SocketStates
           /\ \A n \in Nat, got \in Seq(Rules) :
                 [k EXCEPT !.next = n, !.got = got] \in SocketStates
<1>. DEFINE pcs == {"new", "verify", "upgraded", "open", "closed"}
            servers == {None} \cup Servers
            actors == {None} \cup Owners
            seqs == Seq(Rules)
<1>1. SocketStates = [pc : pcs, server : servers, actor : actors, next : Nat, start : Nat,
                      got : seqs]
  BY DEF SocketStates
<1>2. /\ Servers \subseteq servers /\ Owners \subseteq actors
      /\ "verify" \in pcs /\ "upgraded" \in pcs /\ "open" \in pcs /\ "closed" \in pcs
  OBVIOUS
<1>. HIDE DEF pcs, servers, actors, seqs
<1>3. \A pc \in {"upgraded", "open", "closed"} : [k EXCEPT !.pc = pc] \in SocketStates
  BY <1>1, <1>2
<1>4. \A s \in Servers : [k EXCEPT !.pc = "verify", !.server = s] \in SocketStates
  BY <1>1, <1>2, Zenon
<1>5. \A actor \in Owners : [k EXCEPT !.pc = "upgraded", !.actor = actor] \in SocketStates
  BY <1>1, <1>2, Zenon
<1>6. \A n, m \in Nat :
         [k EXCEPT !.pc = "open", !.start = n, !.next = m] \in SocketStates
  BY <1>1, <1>2, Zenon
<1>7. \A n \in Nat, got \in seqs : [k EXCEPT !.next = n, !.got = got] \in SocketStates
  BY <1>1, <1>2, Zenon
<1>. QED
  BY <1>3, <1>4, <1>5, <1>6, <1>7, Zenon DEF seqs

LEMMA OneSocketStep ==
    ASSUME AlertInvariant, NEW w \in Sockets, NEW l \in SocketStates,
           sock' = [sock EXCEPT ![w] = l], UNCHANGED <<rows, stamps, req, channel, now>>,
           l.pc \in {"verify", "upgraded", "open"} => l.server \in Servers
    PROVE  AlertInvariant'
<1>1. sock \in [Sockets -> SocketStates] /\ now \in 0..Horizon
  BY DEF AlertInvariant, TypeOK
<1>2. sock' \in [Sockets -> SocketStates]
  BY <1>1
<1>3. SocketsOK'
  BY <1>1 DEF AlertInvariant, SocketsOK
<1>. QED
  BY <1>1, <1>2, <1>3, SocketStep

LEMMA SocketActions ==
    ASSUME AlertInvariant, NEW w \in Sockets,
           \/ VerifySocket(w) \/ Subscribe(w) \/ ReceiveEvent(w) \/ Lagged(w) \/ Hangup(w)
           \/ \E s \in Servers : Connect(w, s)
    PROVE  AlertInvariant'
<1>. DEFINE k == sock[w]
<1>1. /\ k \in SocketStates /\ channel \in [Servers -> Seq(Rules)]
      /\ k.pc \in {"verify", "upgraded", "open"} => k.server \in Servers
  BY DEF AlertInvariant, TypeOK, SocketsOK
<1>2. UNCHANGED <<rows, stamps, req, channel, now>>
  BY Zenon DEF VerifySocket, Subscribe, ReceiveEvent, Lagged, Hangup, Connect
<1>3. CASE Close(w)
  <2>. DEFINE l == [k EXCEPT !.pc = "closed"]
  <2>1. l \in SocketStates
    BY <1>1, SocketFields, Zenon
  <2>2. l.pc = "closed"
    BY <1>1 DEF SocketStates
  <2>3. sock' = [sock EXCEPT ![w] = l]
    BY <1>3 DEF Close
  <2>. HIDE DEF l
  <2>. QED
    BY <1>2, <2>1, <2>2, <2>3, OneSocketStep, Zenon
<1>4. ASSUME NEW s \in Servers, sock' = [sock EXCEPT ![w].pc = "verify", ![w].server = s]
      PROVE  AlertInvariant'
  <2>. DEFINE l == [k EXCEPT !.pc = "verify", !.server = s]
  <2>1. l \in SocketStates
    BY <1>1, SocketFields, Zenon
  <2>2. l.server = s
    BY <1>1 DEF SocketStates
  <2>3. sock' = [sock EXCEPT ![w] = l]
    BY <1>4, Zenon
  <2>. HIDE DEF l
  <2>. QED
    BY <1>2, <2>1, <2>2, <2>3, OneSocketStep, Zenon
<1>5. CASE VerifySocket(w) /\ ~Close(w)
  <2>. DEFINE actor == VerifiedActor(Claims[SocketToken[w]])
              l == [k EXCEPT !.pc = "upgraded", !.actor = actor]
  <2>1. actor \in Owners
    BY OwnerKnown, RequestAssumption, Zenon
  <2>. HIDE DEF actor
  <2>2. l \in SocketStates
    BY <1>1, <2>1, SocketFields, Zenon
  <2>3. l.server = k.server
    BY <1>1 DEF SocketStates
  <2>4. sock' = [sock EXCEPT ![w] = l] /\ k.pc = "verify"
    BY <1>5, Zenon DEF VerifySocket, actor
  <2>. HIDE DEF l
  <2>. QED
    BY <1>1, <1>2, <2>2, <2>3, <2>4, OneSocketStep, Zenon
<1>6. CASE Subscribe(w)
  <2>. DEFINE n == Len(channel[k.server])
              l == [k EXCEPT !.pc = "open", !.start = n, !.next = n]
  <2>1. k.server \in Servers /\ n \in Nat
    BY <1>1, <1>6 DEF Subscribe
  <2>2. sock' = [sock EXCEPT ![w] = l]
    BY <1>6, Zenon DEF Subscribe
  <2>. HIDE DEF n
  <2>3. l \in SocketStates
    BY <1>1, <2>1, SocketFields, Zenon
  <2>4. l.server = k.server
    BY <1>1 DEF SocketStates
  <2>. HIDE DEF l
  <2>. QED
    BY <1>2, <2>1, <2>2, <2>3, <2>4, OneSocketStep, Zenon
<1>7. CASE ReceiveEvent(w)
  <2>. DEFINE c == channel[k.server]
              event == c[k.next + 1]
              got == IF event.owner = k.actor THEN Append(k.got, event) ELSE k.got
              l == [k EXCEPT !.next = k.next + 1, !.got = got]
  <2>1. k.server \in Servers /\ k.next \in Nat /\ k.got \in Seq(Rules)
    BY <1>1, <1>7 DEF ReceiveEvent, SocketStates
  <2>2. c \in Seq(Rules) /\ Len(c) \in Nat
    BY <1>1, <2>1
  <2>3. Len(c) - k.next >= 1
    BY <1>7, <2>1, <2>2, LimitAssumption DEF ReceiveEvent, Behind
  <2>4. k.next + 1 \in 1..Len(c)
    BY <2>1, <2>2, <2>3
  <2>5. event \in Rules
    BY <2>2, <2>4
  <2>6. sock' = [sock EXCEPT ![w] = l]
    BY <1>7, Zenon DEF ReceiveEvent
  <2>. HIDE DEF event, c
  <2>7. got \in Seq(Rules) /\ k.next + 1 \in Nat
    BY <2>1, <2>5
  <2>. HIDE DEF got
  <2>8. l \in SocketStates
    BY <1>1, <2>7, SocketFields, Zenon
  <2>9. l.server = k.server
    BY <1>1 DEF SocketStates
  <2>. HIDE DEF l
  <2>. QED
    BY <1>2, <2>1, <2>6, <2>8, <2>9, OneSocketStep, Zenon
<1>. QED
  BY <1>3, <1>4, <1>5, <1>6, <1>7, Zenon
     DEF VerifySocket, Subscribe, Lagged, Hangup, Connect

LEMMA NextAlert ==
    ASSUME AlertInvariant, [Next]_vars
    PROVE  AlertInvariant'
<1>1. CASE Tick \/ UNCHANGED vars
  <2>1. sock \in [Sockets -> SocketStates] /\ now \in 0..Horizon /\ SocketsOK
    BY DEF AlertInvariant, TypeOK
  <2>2. now' \in 0..Horizon
    BY <1>1, <2>1, LimitAssumption DEF Tick, vars
  <2>3. UNCHANGED <<rows, stamps, req, channel, sock>>
    BY <1>1 DEF Tick, vars
  <2>4. SocketsOK'
    BY <2>1, <2>3 DEF SocketsOK
  <2>. QED
    BY <2>1, <2>2, <2>3, <2>4, SocketStep
<1>2. ASSUME NEW h \in Requests,
             Handle(h) \/ InsertLate(h) \/ Disconnect(h) \/ \E s \in Servers : Receive(h, s)
      PROVE  AlertInvariant'
  <2>1. StoreError(h) => AlertInvariant'
    BY ReplyStep, Zenon DEF StoreError, Replies, Refusals
  <2>. QED
    BY <1>2, <2>1, ReceiveStep, VerifyStep, CreateStep, ReadStep, DisconnectStep, LateStep
       DEF Handle
<1>3. ASSUME NEW w \in Sockets,
             \/ VerifySocket(w) \/ Subscribe(w) \/ ReceiveEvent(w) \/ Lagged(w) \/ Hangup(w)
             \/ \E s \in Servers : Connect(w, s)
      PROVE  AlertInvariant'
  BY <1>3, SocketActions
<1>. QED
  BY <1>1, <1>2, <1>3 DEF Next

LEMMA AlertInvariance ==
    Spec => []AlertInvariant
<1>1. AlertInvariant /\ [Next]_vars => AlertInvariant'
  BY NextAlert
<1>. QED
  BY <1>1, InitAlert, PTL DEF Spec

-----------------------------------------------------------------------------
(* Every variable has its type. *)
THEOREM AlertTypes ==
    Spec => []TypeOK
<1>1. AlertInvariant => TypeOK
  BY DEF AlertInvariant
<1>. QED
  BY <1>1, AlertInvariance, PTL

(* The stores hold what authorized and valid requests created, and a       *)
(* "created" answer stands for one stored rule and one event, for any      *)
(* number of servers and requests.                                         *)
THEOREM AnswersMatchStore ==
    Spec => []StoreMatchesAnswers
<1>1. AlertInvariant => StoreMatchesAnswers
  <2>. SUFFICES ASSUME AlertInvariant PROVE StoreMatchesAnswers
    OBVIOUS
  <2>1. ASSUME NEW d \in Stores, NEW r \in rows[d]
        PROVE  r.id \in Requests /\ MadeBy(r.id, r)
    <3>1. RowOK(d, r) /\ r \in Rules
      BY DEF AlertInvariant, RowsOK, TypeOK
    <3>2. r # None /\ req[r.id].rule = r /\ r.id \in Requests
      BY <3>1, NoneAssumption DEF RowOK
    <3>3. RequestOK(r.id, req[r.id])
      BY <3>2 DEF AlertInvariant
    <3>. QED
      BY <3>2, <3>3 DEF RequestOK
  <2>2. ASSUME NEW h \in Requests, req[h].reply = "created"
        PROVE  /\ req[h].rule \in rows[StoreOf(req[h].server)]
               /\ \A s \in Servers :
                     Cardinality({i \in DOMAIN channel[s] : channel[s][i].id = h})
                         = IF s = req[h].server THEN 1 ELSE 0
    <3>. DEFINE ids(s) == {i \in DOMAIN channel[s] : channel[s][i].id = h}
    <3>1. /\ RequestOK(h, req[h]) /\ Stored(req[h]) /\ MadeBy(h, req[h].rule)
          /\ req[h].server \in Servers
      BY <2>2 DEF AlertInvariant, RequestOK, Stored
    <3>2. ASSUME NEW s \in Servers, s # req[h].server
          PROVE  Cardinality(ids(s)) = 0
      <4>1. ids(s) = {}
        BY <3>2 DEF AlertInvariant, EventsOK, EventOK
      <4>. QED
        BY <4>1, FS_EmptySet
    <3>3. Cardinality(ids(req[h].server)) = 1
      <4>. DEFINE s == req[h].server
      <4>1. PICK i \in DOMAIN channel[s] : channel[s][i] = req[h].rule
        BY <2>2, <3>1 DEF RequestOK
      <4>2. channel[s][i].id = h
        BY <3>1, <4>1 DEF MadeBy
      <4>3. \A j \in DOMAIN channel[s] : channel[s][j].id = channel[s][i].id => j = i
        BY <3>1 DEF AlertInvariant, EventsOK
      <4>4. ids(s) = {i}
        BY <4>2, <4>3
      <4>. QED
        BY <4>4, FS_Singleton, Zenon
    <3>. QED
      BY <3>1, <3>2, <3>3, Zenon DEF Stored
  <2>. QED
    BY <2>1, <2>2 DEF StoreMatchesAnswers, MadeBy
<1>. QED
  BY <1>1, AlertInvariance, PTL

(* What validate accepts, the CHECKs of eal_alert_rules accept, so that a  *)
(* valid rule is not answered with "service unavailable" by the INSERT.    *)
THEOREM ValidInserted ==
    Spec => []ValidRulesInsert
<1>1. AlertInvariant => ValidRulesInsert
  <2>. SUFFICES ASSUME AlertInvariant, TenantLength <= 64,
                       NEW h \in Requests, req[h].rule # None
                PROVE  Insertable(h)
    BY DEF ValidRulesInsert
  <2>1. Request[h].op = "create" /\ validate(Request[h].input)
    BY DEF AlertInvariant, RequestOK, MadeBy
  <2>2. Request[h].input \in Inputs
    BY <2>1, RequestAssumption
  <2>3. TenantLength \in 1..64
    BY LimitAssumption
  <2>. QED
    BY <2>1, <2>2, <2>3, ValidRuleAccepted DEF Insertable
<1>. QED
  BY <1>1, AlertInvariance, PTL

(* A request that was refused has left neither a rule nor an event. *)
THEOREM RefusalIsFinal ==
    Spec => []RefusedLeavesNoRule
<1>1. AlertInvariant => RefusedLeavesNoRule
  <2>. SUFFICES ASSUME AlertInvariant, NEW h \in Requests, req[h].reply \in Refusals
                PROVE  /\ \A d \in Stores : \A r \in rows[d] : r.id # h
                       /\ \A s \in Servers : \A i \in DOMAIN channel[s] : channel[s][i].id # h
    BY DEF RefusedLeavesNoRule
  <2>1. req[h].rule = None /\ req[h].reply # "created"
    BY DEF AlertInvariant, RequestOK, Refusals
  <2>2. ASSUME NEW d \in Stores, NEW r \in rows[d]
        PROVE  r.id # h
    <3>1. RowOK(d, r) /\ r \in Rules
      BY DEF AlertInvariant, RowsOK, TypeOK
    <3>. QED
      BY <2>1, <3>1, NoneAssumption DEF RowOK
  <2>3. ASSUME NEW s \in Servers, NEW i \in DOMAIN channel[s]
        PROVE  channel[s][i].id # h
    <3>1. EventOK(s, channel[s][i])
      BY Zenon DEF AlertInvariant, EventsOK
    <3>. QED
      BY <2>1, <3>1, Zenon DEF EventOK
  <2>. QED
    BY <2>2, <2>3
<1>. QED
  BY <1>1, AlertInvariance, PTL

(* An event stands for a rule that is in the store of its server. *)
THEOREM EventsAreStored ==
    Spec => []AnnouncedIsStored
<1>1. AlertInvariant => AnnouncedIsStored
  <2>. SUFFICES ASSUME AlertInvariant, NEW s \in Servers, NEW i \in DOMAIN channel[s]
                PROVE  channel[s][i] \in rows[StoreOf(s)]
    BY DEF AnnouncedIsStored
  <2>1. EventOK(s, channel[s][i])
    BY DEF AlertInvariant, EventsOK
  <2>2. RequestOK(channel[s][i].id, req[channel[s][i].id])
    BY <2>1 DEF AlertInvariant, EventOK
  <2>. QED
    BY <2>1, <2>2 DEF EventOK, RequestOK, Stored
<1>. QED
  BY <1>1, AlertInvariance, PTL

LEMMA NotLess ==
    ASSUME NEW n \in Nat, NEW m \in Nat \ {0}, ~(n < m)
    PROVE  n >= m
OBVIOUS

(* A request on its way keeps its answer. *)
LEMMA AnswerKept ==
    ASSUME TypeOK, NEW h \in Requests, NEW k \in Requests
    PROVE  /\ \A s : req' = [req EXCEPT ![k].pc = "verify", ![k].server = s]
                      => req'[h].reply = req[h].reply
           /\ \A pc : req' = [req EXCEPT ![k].pc = pc] => req'[h].reply = req[h].reply
           /\ \A reply : Reply(k, reply) => req'[h].reply \in {req[h].reply, reply}
<1>1. req \in [Requests -> RequestStates]
  BY DEF TypeOK
<1>2. ASSUME NEW s, req' = [req EXCEPT ![k].pc = "verify", ![k].server = s]
      PROVE  req'[h].reply = req[h].reply
  BY <1>1, <1>2, Zenon DEF RequestStates
<1>3. ASSUME NEW pc, req' = [req EXCEPT ![k].pc = pc]
      PROVE  req'[h].reply = req[h].reply
  BY <1>1, <1>3, Zenon DEF RequestStates
<1>4. ASSUME NEW reply, Reply(k, reply)
      PROVE  req'[h].reply \in {req[h].reply, reply}
  BY <1>1, <1>4, Zenon DEF RequestStates, Reply
<1>. QED
  BY <1>2, <1>3, <1>4

LEMMA VerifyKept ==
    ASSUME TypeOK, NEW h \in Requests, NEW k \in Requests, Verify(k)
    PROVE  req'[h].reply \in Refusals \cup {req[h].reply}
<1>. DEFINE actor == VerifiedActor(Claims[Request[k].token])
            create == Request[k].op = "create"
            rule == [id |-> k, owner |-> actor, updated_at |-> stamps + 1]
            made == IF create THEN rule ELSE None
<1>1. \/ \E reply \in Refusals : Reply(k, reply)
      \/ req' = [req EXCEPT ![k].pc = "store", ![k].actor = actor, ![k].rule = made]
  BY Zenon DEF Verify, Refusals
<1>. HIDE DEF actor, made
<1>2. CASE req' = [req EXCEPT ![k].pc = "store", ![k].actor = actor, ![k].rule = made]
  BY <1>2, ZenonT(40) DEF TypeOK, RequestStates
<1>3. ASSUME NEW reply \in Refusals, Reply(k, reply)
      PROVE  req'[h].reply \in {req[h].reply, reply}
  BY <1>3, AnswerKept, Zenon
<1>. QED
  BY <1>1, <1>2, <1>3

LEMMA OnlyReadsFind ==
    ASSUME AlertInvariant, [Next]_vars, NEW h \in Requests,
           req[h].reply = "none", req'[h].reply \in {"ok", "not found"}
    PROVE  ListAlerts(h) \/ GetAlert(h)
<1>1. TypeOK /\ req \in [Requests -> RequestStates]
  BY Zenon DEF AlertInvariant, TypeOK
<1>2. ASSUME NEW k \in Requests, NEW reply, reply \notin {"ok", "not found"}
      PROVE  ~Reply(k, reply)
  <2>1. Reply(k, reply) => req'[h].reply \in {req[h].reply, reply}
    BY <1>1, AnswerKept, Zenon
  <2>. QED
    BY <1>2, <2>1, Zenon
<1>3. ASSUME NEW k \in Requests
      PROVE  /\ \A s \in Servers : ~Receive(k, s)
             /\ ~Verify(k) /\ ~Create(k) /\ ~Announce(k) /\ ~StoreError(k) /\ ~Disconnect(k)
  <2>1. /\ ~Reply(k, "rejected") /\ ~Reply(k, "unauthorized") /\ ~Reply(k, "degraded")
        /\ ~Reply(k, "invalid") /\ ~Reply(k, "created") /\ ~Reply(k, "unavailable")
    BY <1>2, Zenon
  <2>2. \A s : req' # [req EXCEPT ![k].pc = "verify", ![k].server = s]
    BY <1>1, AnswerKept, Zenon
  <2>3. \A pc : req' # [req EXCEPT ![k].pc = pc]
    BY <1>1, AnswerKept, ZenonT(40)
  <2>4. \A s \in Servers : ~Receive(k, s)
    BY <2>1, <2>2, Zenon DEF Receive
  <2>5. ~Verify(k)
    BY <1>1, VerifyKept, Zenon DEF Refusals
  <2>6. ~Create(k) /\ ~Announce(k)
    BY <2>1, <2>3, Zenon DEF Create, Announce
  <2>7. ~StoreError(k) /\ ~Disconnect(k)
    BY <2>1, <2>3, Zenon DEF StoreError, Disconnect
  <2>. QED
    BY <2>4, <2>5, <2>6, <2>7, Zenon
<1>4. ASSUME NEW k \in Requests, ListAlerts(k) \/ GetAlert(k)
      PROVE  k = h
  BY <1>1, <1>4, Zenon DEF ListAlerts, GetAlert, Found
<1>5. req' # req
  BY Zenon
<1>. QED
  BY <1>3, <1>4, <1>5, Zenon
     DEF Next, Handle, vars, Tick, InsertLate, VerifySocket, Subscribe, ReceiveEvent, Lagged,
         Hangup, Connect

(* A read shows all that is listed, or what of it has the id in the path.  *)
LEMMA FoundIsListed ==
    ASSUME AlertInvariant, NEW h \in Requests, ListAlerts(h) \/ GetAlert(h),
           NEW r \in Listed(req[h].server, req[h].actor)
    PROVE  r \in req'[h].found \/ (Request[h].op = "get" /\ r.id # Request[h].target)
<1>1. req \in [Requests -> RequestStates] /\ req[h] \in RequestStates
  BY Zenon DEF AlertInvariant, TypeOK
<1>2. CASE ListAlerts(h)
  <2>1. req'[h].found = Listed(req[h].server, req[h].actor)
    BY <1>1, <1>2, Zenon DEF ListAlerts, RequestStates
  <2>. QED
    BY <2>1, Zenon
<1>3. CASE GetAlert(h)
  <2>1. req'[h].found = Found(h) /\ Request[h].op = "get"
    BY <1>1, <1>3, Zenon DEF GetAlert, RequestStates
  <2>. QED
    BY <2>1, Zenon DEF Found
<1>. QED
  BY <1>2, <1>3, Zenon

(* Whatever is stored for its owner, a read shows it if it asks for it and *)
(* it is one of the ListLimit newest: with or without a database, for any  *)
(* order of concurrent creates.                                            *)
THEOREM RecentFound ==
    Spec => RecentRulesAreFound
<1>. DEFINE NothingMissed == \A h \in Requests :
                (req[h].reply = "none" /\ req'[h].reply \in {"ok", "not found"}) =>
                    LET d == StoreOf(req[h].server) IN
                    \A r \in rows[d] :
                        \/ r.owner # req[h].actor
                        \/ Request[h].op = "get" /\ r.id # Request[h].target
                        \/ r \in req'[h].found
                        \/ Database /\ Cardinality(Newer(d, r)) >= ListLimit
<1>1. ASSUME AlertInvariant, [Next]_vars
      PROVE  NothingMissed
  <2>. SUFFICES ASSUME NEW h \in Requests, req[h].reply = "none",
                       req'[h].reply \in {"ok", "not found"},
                       NEW r \in rows[StoreOf(req[h].server)],
                       r.owner = req[h].actor,
                       ~(Request[h].op = "get" /\ r.id # Request[h].target),
                       r \notin req'[h].found
                PROVE  Database /\ Cardinality(Newer(StoreOf(req[h].server), r)) >= ListLimit
    BY Zenon
  <2>. DEFINE p == req[h]
              d == StoreOf(p.server)
  <2>1. ListAlerts(h) \/ GetAlert(h)
    BY <1>1, OnlyReadsFind, Zenon
  <2>2. p.server \in Servers /\ d \in Stores
    BY <1>1, <2>1, RequestKnown, StoreKnown, Zenon DEF ListAlerts, GetAlert, RequestOK
  <2>3. r \notin Listed(p.server, p.actor)
    BY <1>1, <2>1, FoundIsListed, Zenon
  <2>4. r \in Owned(d, p.actor) /\ (~Database => d = p.server)
    BY Zenon DEF Owned, StoreOf
  <2>5. Database
    BY <2>3, <2>4, Zenon DEF Listed
  <2>6. ~(Cardinality(Newer(d, r)) < ListLimit)
    BY <2>3, <2>4, <2>5, Zenon DEF Listed, read_alerts, Newer
  <2>7. Cardinality(Newer(d, r)) \in Nat
    <3>1. IsFiniteSet(rows[d])
      BY <1>1, <2>2, Zenon DEF AlertInvariant, RowsOK
    <3>2. Newer(d, r) \subseteq rows[d]
      BY Zenon DEF Newer, Owned
    <3>. QED
      BY <3>1, <3>2, FS_Subset, FS_CardinalityType, Zenon
  <2>. QED
    BY <2>5, <2>6, <2>7, NotLess, LimitAssumption, Zenon
<1>2. AlertInvariant /\ [Next]_vars => [NothingMissed]_vars
  BY <1>1, Zenon
<1>. QED
  BY <1>2, AlertInvariance, PTL DEF Spec, RecentRulesAreFound

-----------------------------------------------------------------------------
(* What a socket has got, as a relation between the channel c, the places  *)
(* a and n where it began and where it is, and the events got.             *)

Places(c, a, n, actor) == {p \in (a + 1)..n : c[p].owner = actor}

GotFrom(c, got, at, places) ==
    /\ \A i \in DOMAIN got : got[i] = c[at[i]]
    /\ \A i, j \in DOMAIN got : i < j => at[i] < at[j]
    /\ \A p \in places : \E i \in DOMAIN got : at[i] = p

Delivered(c, a, n, actor, got) ==
    /\ a <= n /\ n <= Len(c)
    /\ \E at \in [DOMAIN got -> Places(c, a, n, actor)] :
          GotFrom(c, got, at, Places(c, a, n, actor))

LEMMA NothingYet ==
    ASSUME NEW c \in Seq(Rules), NEW actor
    PROVE  Delivered(c, Len(c), Len(c), actor, <<>>)
<1>1. Len(c) \in Nat
  OBVIOUS
<1>2. Places(c, Len(c), Len(c), actor) = {}
  BY <1>1 DEF Places
<1>3. DOMAIN <<>> = {} /\ <<>> \in [{} -> {}]
  OBVIOUS
<1>4. GotFrom(c, <<>>, <<>>, {})
  BY <1>3 DEF GotFrom
<1>5. \E at \in [DOMAIN <<>> -> {}] : GotFrom(c, <<>>, at, {})
  BY <1>3, <1>4, Zenon
<1>6. Len(c) <= Len(c)
  BY <1>1
<1>. QED
  BY <1>2, <1>5, <1>6, Zenon DEF Delivered

(* What a socket has got is not changed by an event that is sent later. *)
LEMMA DeliveredStays ==
    ASSUME NEW c \in Seq(Rules), NEW e \in Rules, NEW a \in Nat, NEW n \in Nat, NEW actor,
           NEW got \in Seq(Rules), Delivered(c, a, n, actor, got)
    PROVE  Delivered(Append(c, e), a, n, actor, got)
<1>. DEFINE d == Append(c, e)
<1>1. /\ Len(c) \in Nat /\ Len(d) = Len(c) + 1 /\ a <= n /\ n <= Len(c)
      /\ \A p \in 1..Len(c) : d[p] = c[p]
  BY DEF Delivered
<1>. HIDE DEF d
<1>2. \A p \in (a + 1)..n : p \in 1..Len(c)
  BY <1>1
<1>3. Places(d, a, n, actor) = Places(c, a, n, actor)
  BY <1>1, <1>2 DEF Places
<1>4. PICK at \in [DOMAIN got -> Places(c, a, n, actor)] :
         GotFrom(c, got, at, Places(c, a, n, actor))
  BY DEF Delivered
<1>5. \A i \in DOMAIN got : d[at[i]] = c[at[i]]
  BY <1>1, <1>2, <1>4 DEF Places
<1>6. GotFrom(d, got, at, Places(c, a, n, actor))
  BY <1>4, <1>5 DEF GotFrom
<1>7. n <= Len(d)
  BY <1>1
<1>. QED
  BY <1>1, <1>3, <1>4, <1>6, <1>7, Zenon DEF Delivered, d

(* The next event is passed; it is got if it is the actor's. *)
LEMMA DeliveredNext ==
    ASSUME NEW c \in Seq(Rules), NEW a \in Nat, NEW n \in Nat, NEW actor,
           NEW got \in Seq(Rules), Delivered(c, a, n, actor, got), n < Len(c)
    PROVE  Delivered(c, a, n + 1, actor,
                     IF c[n + 1].owner = actor THEN Append(got, c[n + 1]) ELSE got)
<1>. DEFINE old == Places(c, a, n, actor)
            new == Places(c, a, n + 1, actor)
            e == c[n + 1]
<1>1. PICK at \in [DOMAIN got -> old] : GotFrom(c, got, at, old)
  BY DEF Delivered
<1>2. a <= n + 1 /\ n + 1 <= Len(c) /\ e \in Rules /\ Len(got) \in Nat
      /\ (a + 1)..(n + 1) = ((a + 1)..n) \cup {n + 1}
  BY DEF Delivered
<1>3. CASE e.owner = actor
  <2>. DEFINE more == Append(got, e)
              m == Len(got) + 1
              then == [i \in 1..m |-> IF i = m THEN n + 1 ELSE at[i]]
  <2>1. /\ DOMAIN got = 1..Len(got) /\ DOMAIN more = 1..m
        /\ more[m] = e /\ \A i \in DOMAIN got : more[i] = got[i]
    BY <1>2
  <2>2. new = old \cup {n + 1}
    BY <1>2, <1>3 DEF Places
  <2>3. \A i \in 1..m : i = m \/ i \in DOMAIN got
    BY <1>2, <2>1
  <2>4. \A i \in DOMAIN got : i \in 1..m /\ i # m /\ i < m
    BY <1>2, <2>1
  <2>5. then \in [DOMAIN more -> new]
    BY <1>1, <2>1, <2>2, <2>3
  <2>6. then[m] = n + 1 /\ \A i \in DOMAIN got : then[i] = at[i]
    BY <1>2, <2>4
  <2>7. \A i \in DOMAIN more : more[i] = c[then[i]]
    BY <1>1, <2>1, <2>3, <2>6 DEF GotFrom
  <2>8. \A i, j \in DOMAIN more : i < j => then[i] < then[j]
    <3>. SUFFICES ASSUME NEW i \in 1..m, NEW j \in 1..m, i < j PROVE then[i] < then[j]
      BY <2>1
    <3>1. i \in DOMAIN got
      BY <1>2, <2>1
    <3>2. at[i] < n + 1
      BY <1>1, <3>1 DEF Places
    <3>3. CASE j = m
      BY <2>6, <3>1, <3>2, <3>3
    <3>4. CASE j \in DOMAIN got
      BY <1>1, <2>6, <3>1, <3>4 DEF GotFrom
    <3>. QED
      BY <2>3, <3>3, <3>4
  <2>9. \A p \in new : \E i \in DOMAIN more : then[i] = p
    <3>. SUFFICES ASSUME NEW p \in new PROVE \E i \in 1..m : then[i] = p
      BY <2>1
    <3>1. CASE p = n + 1
      BY <1>2, <2>6, <3>1
    <3>2. CASE p \in old
      BY <1>1, <2>4, <2>6, <3>2 DEF GotFrom
    <3>. QED
      BY <2>2, <3>1, <3>2
  <2>. HIDE DEF then, more, m, new, old
  <2>10. GotFrom(c, more, then, new)
    BY <2>7, <2>8, <2>9 DEF GotFrom
  <2>. QED
    BY <1>2, <1>3, <2>5, <2>10, Zenon DEF Delivered, more, new
<1>4. CASE e.owner # actor
  <2>1. new = old
    BY <1>2, <1>4, Zenon DEF Places
  <2>. QED
    BY <1>1, <1>2, <1>4, <2>1 DEF Delivered
<1>. QED
  BY <1>3, <1>4

-----------------------------------------------------------------------------
(* What readers see. *)

(* The holder of token t is actor, and may read. *)
Reads(t, actor) ==
    /\ READ_SCOPE \in Claims[t].scopes
    /\ MatchesPolicy(Claims[t])
    /\ actor = VerifiedActor(Claims[t])

ReaderOK(h, q) ==
    /\ q.pc = "store" /\ Request[h].op # "create" => Reads(Request[h].token, q.actor)
    /\ \A r \in q.found : Readable(Request[h].token, r)

WatcherOK(w, k) ==
    /\ k.pc \in {"new", "verify", "upgraded"} => k.got = <<>>
    /\ k.pc \in {"upgraded", "open"} => Reads(SocketToken[w], k.actor)
    /\ \A i \in DOMAIN k.got : Readable(SocketToken[w], k.got[i])
    /\ k.pc = "open" => Delivered(channel[k.server], k.start, k.next, k.actor, k.got)

ReadersInvariant ==
    /\ \A h \in Requests : ReaderOK(h, req[h])
    /\ \A w \in Sockets : WatcherOK(w, sock[w])

LEMMA InitReaders ==
    Init => ReadersInvariant
BY DEF Init, NewRequest, NewSocket, ReadersInvariant, ReaderOK, WatcherOK

LEMMA MayRead ==
    ASSUME NEW t \in Tokens, Authorized(t, READ_SCOPE, FALSE)
    PROVE  Reads(t, VerifiedActor(Claims[t]))
<1>1. Claims[t].active \in BOOLEAN
  BY RequestAssumption
<1>. QED
  BY <1>1, AuthorizedClaims, Zenon DEF Reads

(* A task leaves the other requests alone. *)
LEMMA OtherRequests ==
    ASSUME req \in [Requests -> RequestStates], NEW h \in Requests, NEW k \in Requests, k # h,
           Handle(k) \/ Disconnect(k) \/ \E s \in Servers : Receive(k, s)
    PROVE  req'[h] = req[h]
<1>1. \A q : req' = [req EXCEPT ![k] = q] => req'[h] = req[h]
  BY Zenon
<1>2. \A reply : Reply(k, reply) => \E q : req' = [req EXCEPT ![k] = q]
  BY Zenon DEF Reply
<1>3. (\E s \in Servers : Receive(k, s)) \/ Disconnect(k) => \E q : req' = [req EXCEPT ![k] = q]
  BY <1>2, Zenon DEF Receive, Disconnect
<1>4. Verify(k) => \E q : req' = [req EXCEPT ![k] = q]
  BY <1>2, ZenonT(40) DEF Verify
<1>5. Create(k) \/ Announce(k) \/ StoreError(k) => \E q : req' = [req EXCEPT ![k] = q]
  BY <1>2, Zenon DEF Create, Announce, StoreError
<1>6. ListAlerts(k) \/ GetAlert(k) => \E q : req' = [req EXCEPT ![k] = q]
  BY Zenon DEF ListAlerts, GetAlert
<1>. QED
  BY <1>1, <1>3, <1>4, <1>5, <1>6, Zenon DEF Handle

(* A request task goes to the store only from the authorization. *)
LEMMA VerifyMoves ==
    ASSUME AlertInvariant, NEW h \in Requests, Verify(h)
    PROVE  /\ req'[h].found = req[h].found
           /\ req'[h].pc = "store" =>
                 /\ Authorized(Request[h].token, ScopeOf(h), FALSE)
                 /\ req'[h].actor = VerifiedActor(Claims[Request[h].token])
<1>. DEFINE t == Request[h].token
            actor == VerifiedActor(Claims[t])
            rule == [id |-> h, owner |-> actor, updated_at |-> stamps + 1]
            made == IF Request[h].op = "create" THEN rule ELSE None
            p == req[h]
<1>1. req \in [Requests -> RequestStates] /\ p \in RequestStates
  BY Zenon DEF AlertInvariant, TypeOK
<1>2. \/ \E reply : Reply(h, reply)
      \/ /\ Authorized(t, ScopeOf(h), FALSE)
         /\ req' = [req EXCEPT ![h].pc = "store", ![h].actor = actor, ![h].rule = made]
  BY Zenon DEF Verify
<1>. HIDE DEF actor, made
<1>3. ASSUME NEW reply, Reply(h, reply)
      PROVE  req'[h].found = p.found /\ req'[h].pc = "done"
  <2>1. req'[h] = [p EXCEPT !.pc = "done", !.reply = reply]
    BY <1>1, <1>3, Zenon DEF Reply
  <2>. QED
    BY <1>1, <2>1, Zenon DEF RequestStates
<1>4. CASE req' = [req EXCEPT ![h].pc = "store", ![h].actor = actor, ![h].rule = made]
  <2>1. req'[h] = [p EXCEPT !.pc = "store", !.actor = actor, !.rule = made]
    BY <1>1, <1>4, Zenon
  <2>2. req'[h].found = p.found /\ req'[h].actor = actor
    BY <1>1, <2>1, Zenon DEF RequestStates
  <2>. QED
    BY <1>2, <1>3, <2>2, Zenon DEF actor
<1>. QED
  BY <1>2, <1>3, <1>4, Zenon

(* What a step may do to what a request has found. *)
LEMMA RequestMoves ==
    ASSUME AlertInvariant, [Next]_vars, NEW h \in Requests
    PROVE  \/ Verify(h) \/ ListAlerts(h) \/ GetAlert(h)
           \/ req'[h] = req[h]
           \/ req'[h].found = req[h].found /\ req'[h].pc # "store"
<1>. DEFINE p == req[h]
            q == req'[h]
<1>1. req \in [Requests -> RequestStates] /\ p \in RequestStates
  BY Zenon DEF AlertInvariant, TypeOK
<1>2. \A reply : Reply(h, reply) => q.found = p.found /\ q.pc # "store"
  <2>. SUFFICES ASSUME NEW reply, Reply(h, reply)
                PROVE  q.found = p.found /\ q.pc = "done"
    BY Zenon
  <2>1. q = [p EXCEPT !.pc = "done", !.reply = reply]
    BY <1>1, Zenon DEF Reply
  <2>. QED
    BY <1>1, <2>1, Zenon DEF RequestStates
<1>3. \A pc : req' = [req EXCEPT ![h].pc = pc] => q.found = p.found /\ q.pc = pc
  <2>. SUFFICES ASSUME NEW pc, req' = [req EXCEPT ![h].pc = pc]
                PROVE  q.found = p.found /\ q.pc = pc
    BY Zenon
  <2>1. q = [p EXCEPT !.pc = pc]
    BY <1>1, Zenon
  <2>. QED
    BY <1>1, <2>1, Zenon DEF RequestStates
<1>4. \A s : req' = [req EXCEPT ![h].pc = "verify", ![h].server = s]
                => q.found = p.found /\ q.pc = "verify"
  <2>. SUFFICES ASSUME NEW s, req' = [req EXCEPT ![h].pc = "verify", ![h].server = s]
                PROVE  q.found = p.found /\ q.pc = "verify"
    BY Zenon
  <2>1. q = [p EXCEPT !.pc = "verify", !.server = s]
    BY <1>1, Zenon
  <2>. QED
    BY <1>1, <2>1, Zenon DEF RequestStates
<1>5. CASE Create(h) \/ Announce(h) \/ StoreError(h) \/ Disconnect(h)
  BY <1>2, <1>3, <1>5, Zenon DEF Create, Announce, StoreError, Disconnect
<1>6. CASE \E s \in Servers : Receive(h, s)
  BY <1>2, <1>4, <1>6, Zenon DEF Receive
<1>7. ASSUME NEW k \in Requests, k # h,
             Handle(k) \/ Disconnect(k) \/ \E s \in Servers : Receive(k, s)
      PROVE  q = p
  BY <1>1, <1>7, OtherRequests
<1>. HIDE DEF p, q
<1>. QED
  BY <1>5, <1>6, <1>7, Zenon
     DEF Next, Handle, vars, Tick, InsertLate, VerifySocket, Subscribe, ReceiveEvent, Lagged,
         Hangup, Connect, p, q

LEMMA ReaderStep ==
    ASSUME AlertInvariant, [Next]_vars, NEW h \in Requests, ReaderOK(h, req[h])
    PROVE  ReaderOK(h, req'[h])
<1>. DEFINE p == req[h]
            q == req'[h]
            t == Request[h].token
            all == Listed(p.server, p.actor)
<1>1. t \in Tokens /\ p \in RequestStates /\ req \in [Requests -> RequestStates]
  BY RequestAssumption DEF AlertInvariant, TypeOK
<1>2. CASE Verify(h)
  <2>1. ASSUME q.pc = "store", Request[h].op # "create"
        PROVE  Reads(t, q.actor)
    <3>1. Authorized(t, READ_SCOPE, FALSE) /\ q.actor = VerifiedActor(Claims[t])
      BY <1>2, <2>1, VerifyMoves, Zenon DEF ScopeOf
    <3>. QED
      BY <1>1, <3>1, MayRead, Zenon
  <2>2. q.found = p.found
    BY <1>2, VerifyMoves, Zenon
  <2>. QED
    BY <2>1, <2>2, Zenon DEF ReaderOK
<1>3. CASE ListAlerts(h) \/ GetAlert(h)
  <2>1. /\ p.pc = "store" /\ Request[h].op # "create"
        /\ q.pc = "done" /\ q.found \in SUBSET all
    <3>1. all \in SUBSET all /\ Found(h) \in SUBSET all
      BY DEF Found
    <3>2. CASE ListAlerts(h)
      <4>1. q = [p EXCEPT !.pc = "done", !.reply = "ok", !.found = all]
        BY <1>1, <3>2, Zenon DEF ListAlerts
      <4>2. q.pc = "done" /\ q.found = all
        BY <1>1, <4>1, Zenon DEF RequestStates
      <4>. QED
        BY <3>1, <3>2, <4>2, Zenon DEF ListAlerts
    <3>3. CASE GetAlert(h)
      <4>1. q = [p EXCEPT !.pc = "done", !.found = Found(h),
                          !.reply = IF Found(h) = {} THEN "not found" ELSE "ok"]
        BY <1>1, <3>3, Zenon DEF GetAlert
      <4>2. q.pc = "done" /\ q.found = Found(h)
        BY <1>1, <4>1, Zenon DEF RequestStates
      <4>. QED
        BY <3>1, <3>3, <4>2, Zenon DEF GetAlert
    <3>. QED
      BY <1>3, <3>2, <3>3, Zenon
  <2>2. Reads(t, p.actor)
    BY <2>1, Zenon DEF ReaderOK
  <2>3. \A r \in all : r.owner = p.actor
    BY DEF Listed, read_alerts, Owned
  <2>. HIDE DEF all, p, q, t
  <2>4. \A r \in q.found : Readable(t, r)
    BY <2>1, <2>2, <2>3 DEF Reads, Readable
  <2>. QED
    BY <2>1, <2>4, Zenon DEF ReaderOK, q, t
<1>4. CASE q = p \/ (q.found = p.found /\ q.pc # "store")
  BY <1>4, Zenon DEF ReaderOK
<1>. QED
  BY <1>2, <1>3, <1>4, RequestMoves, Zenon

(* A channel only grows, by one rule at a time. *)
LEMMA ChannelGrows ==
    ASSUME AlertInvariant, [Next]_vars, NEW s \in Servers
    PROVE  \/ channel'[s] = channel[s]
           \/ \E e \in Rules : channel'[s] = Append(channel[s], e)
<1>1. channel \in [Servers -> Seq(Rules)]
  BY DEF AlertInvariant, TypeOK
<1>2. ASSUME NEW h \in Requests, Announced(h), Create(h) \/ Announce(h)
      PROVE  \/ channel'[s] = channel[s]
             \/ \E e \in Rules : channel'[s] = Append(channel[s], e)
  <2>1. req[h] \in RequestStates /\ req[h].rule # None
    BY <1>2, RequestKnown DEF Create, Announce, RequestOK, Stored
  <2>2. req[h].rule \in Rules
    BY <2>1, Zenon DEF RequestStates
  <2>. QED
    BY <1>1, <1>2, <2>2, Zenon DEF Announced
<1>3. UNCHANGED channel \/ \E h \in Requests : Announced(h) /\ (Create(h) \/ Announce(h))
  <2>1. \A h \in Requests : Verify(h) \/ StoreError(h) \/ InsertLate(h) \/ Disconnect(h)
                               => UNCHANGED channel
    BY Zenon DEF Verify, StoreError, InsertLate, Disconnect
  <2>2. \A h \in Requests : ListAlerts(h) \/ GetAlert(h) \/ (\E u \in Servers : Receive(h, u))
                               => UNCHANGED channel
    BY Zenon DEF ListAlerts, GetAlert, Receive
  <2>3. \A h \in Requests : Create(h) \/ Announce(h) => UNCHANGED channel \/ Announced(h)
    BY Zenon DEF Create, Announce
  <2>4. (\E w \in Sockets : \/ VerifySocket(w) \/ Subscribe(w) \/ ReceiveEvent(w) \/ Lagged(w)
                            \/ Hangup(w) \/ \E u \in Servers : Connect(w, u))
           => UNCHANGED channel
    BY Zenon DEF VerifySocket, Subscribe, ReceiveEvent, Lagged, Hangup, Connect
  <2>5. Tick \/ UNCHANGED vars => UNCHANGED channel
    BY Zenon DEF Tick, vars
  <2>. QED
    BY <2>1, <2>2, <2>3, <2>4, <2>5, Zenon DEF Next, Handle
<1>. QED
  BY <1>2, <1>3, Zenon

(* A socket that does not move is not disturbed by what is sent. *)
LEMMA WatcherWaits ==
    ASSUME AlertInvariant, [Next]_vars, NEW w \in Sockets, WatcherOK(w, sock[w]),
           sock'[w] = sock[w]
    PROVE  WatcherOK(w, sock[w])'
<1>. DEFINE k == sock[w]
            c == channel[k.server]
<1>1. /\ k \in SocketStates /\ channel \in [Servers -> Seq(Rules)]
      /\ k.pc = "open" => k.server \in Servers
  BY DEF AlertInvariant, TypeOK, SocketsOK
<1>2. ASSUME k.pc = "open"
      PROVE  Delivered(channel'[k.server], k.start, k.next, k.actor, k.got)
  <2>1. k.server \in Servers /\ c \in Seq(Rules) /\ Delivered(c, k.start, k.next, k.actor, k.got)
    BY <1>1, <1>2 DEF WatcherOK
  <2>2. k.start \in Nat /\ k.next \in Nat /\ k.got \in Seq(Rules)
    BY <1>1 DEF SocketStates
  <2>3. \/ channel'[k.server] = c
        \/ \E e \in Rules : channel'[k.server] = Append(c, e)
    BY <2>1, ChannelGrows, Zenon
  <2>. QED
    BY <2>1, <2>2, <2>3, DeliveredStays, ZenonT(40)
<1>3. sock'[w] = k
  OBVIOUS
<1>. HIDE DEF k
<1>. QED
  BY <1>2, <1>3, Zenon DEF WatcherOK, k

(* The empty sequence has no positions. *)
LEMMA NothingBefore ==
    DOMAIN <<>> = {}
OBVIOUS

LEMMA WatcherMoves ==
    ASSUME AlertInvariant, NEW w \in Sockets, WatcherOK(w, sock[w]),
           \/ VerifySocket(w) \/ Subscribe(w) \/ ReceiveEvent(w) \/ Lagged(w) \/ Hangup(w)
           \/ \E s \in Servers : Connect(w, s)
    PROVE  WatcherOK(w, sock[w])'
<1>. DEFINE k == sock[w]
            l == sock'[w]
            t == SocketToken[w]
            c == channel[k.server]
<1>1. /\ k \in SocketStates /\ sock \in [Sockets -> SocketStates] /\ t \in Tokens
      /\ channel \in [Servers -> Seq(Rules)]
      /\ k.pc \in {"verify", "upgraded", "open"} => k.server \in Servers
  BY RequestAssumption DEF AlertInvariant, TypeOK, SocketsOK
<1>2. UNCHANGED channel
  BY Zenon DEF VerifySocket, Subscribe, ReceiveEvent, Lagged, Hangup, Connect
<1>. SUFFICES WatcherOK(w, l)
  BY <1>2, ZenonT(40) DEF WatcherOK
<1>3. CASE Close(w)
  <2>1. l = [k EXCEPT !.pc = "closed"]
    BY <1>1, <1>3, Zenon DEF Close
  <2>2. l.pc = "closed" /\ l.got = k.got
    BY <1>1, <2>1, Zenon DEF SocketStates
  <2>. HIDE DEF k, l
  <2>. QED
    BY <2>2, Zenon DEF WatcherOK, k
<1>4. ASSUME NEW s \in Servers, Connect(w, s), ~Close(w)
      PROVE  WatcherOK(w, l)
  <2>1. k.pc = "new" /\ l = [k EXCEPT !.pc = "verify", !.server = s]
    BY <1>1, <1>4, Zenon DEF Connect
  <2>2. l.pc = "verify" /\ l.got = k.got /\ k.got = <<>>
    BY <1>1, <2>1, ZenonT(40) DEF SocketStates, WatcherOK
  <2>. HIDE DEF k, l
  <2>3. DOMAIN l.got = {}
    BY <2>2, NothingBefore, Zenon
  <2>. QED
    BY <2>2, <2>3, Zenon DEF WatcherOK
<1>5. CASE VerifySocket(w) /\ ~Close(w)
  <2>. DEFINE actor == VerifiedActor(Claims[t])
  <2>1. /\ k.pc = "verify" /\ Authorized(t, READ_SCOPE, FALSE)
        /\ l = [k EXCEPT !.pc = "upgraded", !.actor = actor]
    BY <1>1, <1>5, Zenon DEF VerifySocket
  <2>2. l.pc = "upgraded" /\ l.actor = actor /\ l.got = k.got /\ k.got = <<>>
    BY <1>1, <2>1, Zenon DEF SocketStates, WatcherOK
  <2>3. Reads(t, l.actor)
    BY <1>1, <2>1, <2>2, MayRead, ZenonT(40)
  <2>. HIDE DEF k, l
  <2>4. DOMAIN l.got = {}
    BY <2>2, NothingBefore, Zenon
  <2>. QED
    BY <2>2, <2>3, <2>4, Zenon DEF WatcherOK
<1>6. CASE Subscribe(w)
  <2>. DEFINE n == Len(c)
  <2>1. /\ k.pc = "upgraded" /\ k.server \in Servers /\ c \in Seq(Rules)
        /\ l = [k EXCEPT !.pc = "open", !.start = n, !.next = n]
    BY <1>1, <1>6, Zenon DEF Subscribe
  <2>2. /\ l.pc = "open" /\ l.start = n /\ l.next = n /\ l.got = k.got /\ l.actor = k.actor
        /\ l.server = k.server
    BY <1>1, <2>1, Zenon DEF SocketStates
  <2>3. k.got = <<>> /\ Reads(t, k.actor)
    BY <2>1, Zenon DEF WatcherOK
  <2>4. Delivered(c, n, n, k.actor, <<>>)
    BY <2>1, NothingYet, Zenon
  <2>. HIDE DEF l, n
  <2>5. Delivered(channel[l.server], l.start, l.next, l.actor, l.got)
    BY <2>2, <2>3, <2>4, Zenon
  <2>. QED
    BY <2>2, <2>3, <2>5 DEF WatcherOK
<1>7. CASE ReceiveEvent(w)
  <2>. DEFINE event == c[k.next + 1]
              got == IF event.owner = k.actor THEN Append(k.got, event) ELSE k.got
  <2>1. /\ k.pc = "open" /\ k.server \in Servers /\ c \in Seq(Rules)
        /\ Len(c) - k.next \in 1..Capacity
        /\ l = [k EXCEPT !.next = k.next + 1, !.got = got]
    BY <1>1, <1>7, Zenon DEF ReceiveEvent, Behind
  <2>2. /\ k.start \in Nat /\ k.next \in Nat /\ k.got \in Seq(Rules)
    BY <1>1 DEF SocketStates
  <2>3. k.next < Len(c) /\ k.next + 1 \in 1..Len(c)
    <3>1. Len(c) \in Nat /\ Capacity \in Nat
      BY <2>1, LimitAssumption
    <3>. HIDE DEF c, k
    <3>. QED
      BY <2>1, <2>2, <3>1
  <2>4. Reads(t, k.actor) /\ Delivered(c, k.start, k.next, k.actor, k.got)
    BY <2>1, Zenon DEF WatcherOK
  <2>5. Delivered(c, k.start, k.next + 1, k.actor, got)
    BY <2>1, <2>2, <2>3, <2>4, DeliveredNext, Zenon
  <2>6. event \in Rules
    BY <2>1, <2>3
  <2>7. \A i \in DOMAIN got : Readable(t, got[i])
    <3>1. \A i \in DOMAIN k.got : Readable(t, k.got[i])
      BY Zenon DEF WatcherOK
    <3>2. CASE event.owner = k.actor
      <4>1. Readable(t, event)
        BY <2>4, <3>2, Zenon DEF Reads, Readable
      <4>2. got = Append(k.got, event)
        BY <3>2
      <4>. HIDE DEF event, got
      <4>3. \A i \in DOMAIN got : got[i] = event \/ (i \in DOMAIN k.got /\ got[i] = k.got[i])
        BY <2>2, <2>6, <4>2
      <4>. QED
        BY <3>1, <4>1, <4>3, Zenon
    <3>3. CASE event.owner # k.actor
      BY <3>1, <3>3, Zenon
    <3>. QED
      BY <3>2, <3>3, Zenon
  <2>. HIDE DEF got
  <2>8. /\ l.pc = k.pc /\ l.start = k.start /\ l.next = k.next + 1 /\ l.got = got
        /\ l.actor = k.actor /\ l.server = k.server
    BY <1>1, <2>1, Zenon DEF SocketStates
  <2>. HIDE DEF l, k
  <2>9. Delivered(channel[l.server], l.start, l.next, l.actor, l.got)
    BY <2>5, <2>8, Zenon
  <2>. QED
    BY <2>1, <2>4, <2>7, <2>8, <2>9 DEF WatcherOK
<1>. QED
  BY <1>3, <1>4, <1>5, <1>6, <1>7, ZenonT(40) DEF Subscribe, Lagged, Hangup

LEMMA NextReaders ==
    ASSUME AlertInvariant, ReadersInvariant, [Next]_vars
    PROVE  ReadersInvariant'
<1>1. ASSUME NEW h \in Requests
      PROVE  ReaderOK(h, req'[h])
  BY ReaderStep DEF ReadersInvariant
<1>2. ASSUME NEW w \in Sockets
      PROVE  WatcherOK(w, sock[w])'
  <2>. DEFINE Moves(v) == \/ VerifySocket(v) \/ Subscribe(v) \/ ReceiveEvent(v) \/ Lagged(v)
                          \/ Hangup(v) \/ \E s \in Servers : Connect(v, s)
  <2>1. WatcherOK(w, sock[w]) /\ sock \in [Sockets -> SocketStates]
    BY Zenon DEF ReadersInvariant, AlertInvariant, TypeOK
  <2>2. CASE Moves(w)
    BY <2>1, <2>2, WatcherMoves, Zenon
  <2>3. ASSUME NEW v \in Sockets, v # w, Moves(v)
        PROVE  sock'[w] = sock[w]
    BY <2>1, <2>3, Zenon
       DEF Close, VerifySocket, Subscribe, ReceiveEvent, Lagged, Hangup, Connect
  <2>4. ASSUME \A v \in Sockets : ~Moves(v)
        PROVE  sock' = sock
    <3>1. \A h \in Requests : Verify(h) \/ StoreError(h) \/ InsertLate(h) \/ Disconnect(h)
                                 => UNCHANGED sock
      BY Zenon DEF Verify, StoreError, InsertLate, Disconnect
    <3>2. \A h \in Requests : ListAlerts(h) \/ GetAlert(h) \/ Create(h) \/ Announce(h)
                                 => UNCHANGED sock
      BY Zenon DEF ListAlerts, GetAlert, Create, Announce
    <3>4. \A h \in Requests : (\E u \in Servers : Receive(h, u)) => UNCHANGED sock
      BY Zenon DEF Receive
    <3>3. Tick \/ UNCHANGED vars => UNCHANGED sock
      BY Zenon DEF Tick, vars
    <3>. QED
      BY <2>4, <3>1, <3>2, <3>3, <3>4, Zenon DEF Next, Handle
  <2>. HIDE DEF Moves
  <2>5. CASE sock'[w] = sock[w]
    BY <2>1, <2>5, WatcherWaits, Zenon
  <2>. QED
    BY <2>2, <2>3, <2>4, <2>5, Zenon
<1>3. \A h \in Requests : ReaderOK(h, req[h])'
  BY <1>1, Zenon DEF ReaderOK
<1>. QED
  BY <1>2, <1>3, Zenon DEF ReadersInvariant

LEMMA ReadersInvariance ==
    Spec => [](AlertInvariant /\ ReadersInvariant)
<1>1. AlertInvariant /\ ReadersInvariant /\ [Next]_vars => ReadersInvariant'
  BY NextReaders
<1>. QED
  BY <1>1, InitReaders, AlertInvariance, PTL DEF Spec

(* A socket that is open has been sent every event of its actor since it   *)
(* subscribed, in order and once each, for any capacity of the channel and *)
(* any number of other tasks that announce, read and lag meanwhile.        *)
THEOREM OpenSocketsComplete ==
    Spec => []OpenSocketMissesNothing
<1>1. AlertInvariant /\ ReadersInvariant => OpenSocketMissesNothing
  <2>. SUFFICES ASSUME ReadersInvariant, NEW w \in Sockets, sock[w].pc = "open"
                PROVE  \E at \in [DOMAIN sock[w].got -> Passed(sock[w])] : GotAt(sock[w], at)
    BY DEF OpenSocketMissesNothing
  <2>. DEFINE k == sock[w]
  <2>1. Delivered(channel[k.server], k.start, k.next, k.actor, k.got)
    BY Zenon DEF ReadersInvariant, WatcherOK
  <2>2. Passed(k) = Places(channel[k.server], k.start, k.next, k.actor)
    BY Zenon DEF Passed, Places
  <2>3. PICK at \in [DOMAIN k.got -> Passed(k)] :
           GotFrom(channel[k.server], k.got, at, Passed(k))
    BY <2>1, <2>2, Zenon DEF Delivered
  <2>4. GotAt(k, at)
    BY <2>3, Zenon DEF GotFrom, GotAt
  <2>. QED
    BY <2>3, <2>4, Zenon
<1>. QED
  BY <1>1, ReadersInvariance, PTL

(* Nobody is shown the alert of somebody else, and nobody is shown any     *)
(* without a token that may read.                                          *)
THEOREM OwnAlertsOnly ==
    Spec => []ReadersSeeTheirOwn
<1>1. AlertInvariant /\ ReadersInvariant => ReadersSeeTheirOwn
  BY Zenon DEF ReadersInvariant, ReaderOK, WatcherOK, ReadersSeeTheirOwn
<1>. QED
  BY <1>1, ReadersInvariance, PTL

-----------------------------------------------------------------------------
(* The lane implements RuleBook. *)

Outcomes == [h \in Requests |-> Outcome(req[h])]

LEMMA OutcomeOf ==
    ASSUME AlertInvariant, NEW h \in Requests
    PROVE  /\ req[h].pc \in {"new", "verify", "store", "stored"} => Outcome(req[h]) = "open"
           /\ req[h].pc = "dropped" => Outcome(req[h]) = "unknown"
           /\ req[h].reply \in {"unavailable", "not found", "ok"} => Outcome(req[h]) = "unknown"
           /\ req[h].reply \in Refusals => Outcome(req[h]) = "refused"
           /\ req[h].reply = "created" => Outcome(req[h]) = "created"
           /\ Outcomes[h] = Outcome(req[h])
<1>1. req[h].pc # "done" => req[h].reply = "none"
  BY RequestKnown
<1>. QED
  BY <1>1, Zenon DEF Outcome, Outcomes, Refusals

(* The fields of a request after its step. *)
LEMMA AfterStep ==
    ASSUME AlertInvariant, NEW h \in Requests
    PROVE  /\ \A reply : Reply(h, reply) => req'[h].pc = "done" /\ req'[h].reply = reply
           /\ \A pc : req' = [req EXCEPT ![h].pc = pc] => req'[h].pc = pc
           /\ \A s : req' = [req EXCEPT ![h].pc = "verify", ![h].server = s]
                        => req'[h].pc = "verify"
<1>1. req \in [Requests -> RequestStates] /\ req[h] \in RequestStates
  BY Zenon DEF AlertInvariant, TypeOK
<1>2. ASSUME NEW reply, Reply(h, reply)
      PROVE  req'[h].pc = "done" /\ req'[h].reply = reply
  <2>1. req'[h] = [req[h] EXCEPT !.pc = "done", !.reply = reply]
    BY <1>1, <1>2, Zenon DEF Reply
  <2>. QED
    BY <1>1, <2>1, Zenon DEF RequestStates
<1>3. ASSUME NEW pc, req' = [req EXCEPT ![h].pc = pc]
      PROVE  req'[h].pc = pc
  BY <1>1, <1>3, Zenon DEF RequestStates
<1>4. ASSUME NEW s, req' = [req EXCEPT ![h].pc = "verify", ![h].server = s]
      PROVE  req'[h].pc = "verify"
  BY <1>1, <1>4, Zenon DEF RequestStates
<1>. QED
  BY <1>2, <1>3, <1>4, Zenon

(* A step of h changes at most its own outcome. *)
LEMMA OutcomeStep ==
    ASSUME AlertInvariant, NEW h \in Requests,
           Handle(h) \/ Disconnect(h) \/ \E s \in Servers : Receive(h, s)
    PROVE  Outcomes' = [Outcomes EXCEPT ![h] = Outcome(req'[h])]
<1>1. req \in [Requests -> RequestStates]
  BY Zenon DEF AlertInvariant, TypeOK
<1>2. \A k \in Requests : k # h => req'[k] = req[k]
  BY <1>1, OtherRequests, Zenon
<1>. QED
  BY <1>2, Zenon DEF Outcomes

LEMMA KeptStep ==
    ASSUME AlertInvariant, NEW h \in Requests, req[h].rule # None, StoreRule(h)
    PROVE  Kept' = Kept \cup {h}
<1>. DEFINE rule == req[h].rule
            d == StoreOf(req[h].server)
            ids(e) == {r.id : r \in rows[e]}
<1>1. rule \in Rules /\ rule.id = h /\ d \in Stores
  BY RequestKnown, StoreKnown, Zenon DEF RequestOK, MadeBy, RequestStates
<1>2. /\ \A e \in Stores : e # d => rows'[e] = rows[e]
      /\ rows'[d] = rows[d] \cup {rule}
  BY <1>1 DEF AlertInvariant, TypeOK, StoreRule
<1>. HIDE DEF rule, d
<1>3. ASSUME NEW x \in Kept
      PROVE  x \in Kept'
  <2>1. PICK e \in Stores : \E r \in rows[e] : x = r.id
    BY <1>3 DEF Kept
  <2>2. rows[e] \subseteq rows'[e]
    BY <1>2
  <2>. QED
    BY <2>1, <2>2 DEF Kept
<1>4. h \in Kept'
  BY <1>1, <1>2 DEF Kept
<1>5. ASSUME NEW x \in Kept'
      PROVE  x \in Kept \cup {h}
  <2>1. PICK e \in Stores : \E r \in rows'[e] : x = r.id
    BY <1>5 DEF Kept
  <2>2. \A r \in rows'[e] : r \in rows[e] \/ r = rule
    BY <1>2
  <2>. QED
    BY <1>1, <2>1, <2>2 DEF Kept
<1>. QED
  BY <1>3, <1>4, <1>5

LEMMA ToldStep ==
    ASSUME AlertInvariant, NEW h \in Requests, req[h].rule # None, Announced(h)
    PROVE  Told' = Told \cup {h}
<1>. DEFINE rule == req[h].rule
            s == req[h].server
            c == channel[s]
<1>1. rule \in Rules /\ rule.id = h /\ s \in Servers
  BY RequestKnown, Zenon DEF RequestOK, MadeBy, RequestStates
<1>2. c \in Seq(Rules) /\ \A u \in Servers : u # s => channel'[u] = channel[u]
  BY <1>1 DEF AlertInvariant, TypeOK, Announced
<1>3. channel'[s] = Append(c, rule)
  BY <1>1 DEF AlertInvariant, TypeOK, Announced
<1>. HIDE DEF rule, s
<1>4. /\ DOMAIN channel'[s] = DOMAIN c \cup {Len(c) + 1}
      /\ channel'[s][Len(c) + 1] = rule
      /\ \A i \in DOMAIN c : channel'[s][i] = c[i]
  BY <1>1, <1>2, <1>3
<1>5. ASSUME NEW x \in Told
      PROVE  x \in Told'
  <2>1. PICK u \in Servers : \E i \in DOMAIN channel[u] : x = channel[u][i].id
    BY <1>5 DEF Told
  <2>2. \A i \in DOMAIN channel[u] :
           i \in DOMAIN channel'[u] /\ channel'[u][i] = channel[u][i]
    BY <1>2, <1>4
  <2>. QED
    BY <2>1, <2>2 DEF Told
<1>6. h \in Told'
  BY <1>1, <1>4 DEF Told
<1>7. ASSUME NEW x \in Told'
      PROVE  x \in Told \cup {h}
  <2>1. PICK u \in Servers : \E i \in DOMAIN channel'[u] : x = channel'[u][i].id
    BY <1>7 DEF Told
  <2>2. \A i \in DOMAIN channel'[u] :
           channel'[u][i] = rule \/ (i \in DOMAIN channel[u] /\ channel'[u][i] = channel[u][i])
    BY <1>2, <1>4
  <2>. QED
    BY <1>1, <2>1, <2>2 DEF Told
<1>. QED
  BY <1>5, <1>6, <1>7

LEMMA NotKept ==
    ASSUME AlertInvariant, NEW h \in Requests, req[h].rule = None
    PROVE  h \notin Kept
<1>. SUFFICES ASSUME NEW d \in Stores, NEW r \in rows[d] PROVE r.id # h
  BY DEF Kept
<1>1. RowOK(d, r) /\ r \in Rules
  BY DEF AlertInvariant, RowsOK, TypeOK
<1>. QED
  BY <1>1, NoneAssumption DEF RowOK

LEMMA OutcomeAfter ==
    ASSUME AlertInvariant', NEW h \in Requests
    PROVE  /\ req'[h].pc \in {"new", "verify", "store", "stored"} => Outcome(req'[h]) = "open"
           /\ req'[h].pc = "dropped" => Outcome(req'[h]) = "unknown"
           /\ req'[h].reply \in {"unavailable", "not found", "ok"}
                 => Outcome(req'[h]) = "unknown"
           /\ req'[h].reply \in Refusals => Outcome(req'[h]) = "refused"
           /\ req'[h].reply = "created" => Outcome(req'[h]) = "created"
<1>1. req'[h].pc # "done" => req'[h].reply = "none"
  BY DEF AlertInvariant, RequestOK
<1>. QED
  BY <1>1, Zenon DEF Outcome, Refusals

LEMMA AfterRead ==
    ASSUME AlertInvariant, NEW h \in Requests, ListAlerts(h) \/ GetAlert(h)
    PROVE  req'[h].reply \in {"not found", "ok"}
<1>1. req \in [Requests -> RequestStates] /\ req[h] \in RequestStates
  BY Zenon DEF AlertInvariant, TypeOK
<1>2. CASE ListAlerts(h)
  BY <1>1, <1>2, Zenon DEF ListAlerts, RequestStates
<1>3. CASE GetAlert(h)
  <2>1. req'[h].reply = IF Found(h) = {} THEN "not found" ELSE "ok"
    BY <1>1, <1>3, Zenon DEF GetAlert, RequestStates
  <2>. QED
    BY <2>1, Zenon
<1>. QED
  BY <1>2, <1>3, Zenon

LEMMA AfterVerify ==
    ASSUME AlertInvariant, NEW h \in Requests, Verify(h)
    PROVE  req'[h].pc = "store" \/ req'[h].reply \in Refusals
<1>. DEFINE actor == VerifiedActor(Claims[Request[h].token])
            rule == [id |-> h, owner |-> actor, updated_at |-> stamps + 1]
            made == IF Request[h].op = "create" THEN rule ELSE None
<1>1. req \in [Requests -> RequestStates] /\ req[h] \in RequestStates
  BY Zenon DEF AlertInvariant, TypeOK
<1>2. \/ \E reply \in Refusals : Reply(h, reply)
      \/ req' = [req EXCEPT ![h].pc = "store", ![h].actor = actor, ![h].rule = made]
  BY Zenon DEF Verify, Refusals
<1>. HIDE DEF actor, made
<1>3. CASE req' = [req EXCEPT ![h].pc = "store", ![h].actor = actor, ![h].rule = made]
  <2>1. req'[h] = [req[h] EXCEPT !.pc = "store", !.actor = actor, !.rule = made]
    BY <1>1, <1>3, Zenon
  <2>. QED
    BY <1>1, <2>1, Zenon DEF RequestStates
<1>. QED
  BY <1>2, <1>3, AfterStep, Zenon

(* An answer before the store: open still, or a refusal of what is not     *)
(* kept.                                                                   *)
LEMMA BookRefuses ==
    ASSUME AlertInvariant, AlertInvariant', NEW h \in Requests,
           Verify(h) \/ \E s \in Servers : Receive(h, s)
    PROVE  Book!Refuse(h) \/ UNCHANGED <<Kept, Told, Outcomes>>
<1>1. /\ req[h].pc \in {"new", "verify"} /\ UNCHANGED <<rows, channel>>
  BY Zenon DEF Verify, Receive
<1>2. Outcomes[h] = "open" /\ Outcome(req[h]) = "open" /\ h \notin Kept
  BY <1>1, OutcomeOf, RequestKnown, NotKept, Zenon
<1>3. Kept' = Kept /\ Told' = Told
  BY <1>1 DEF Kept, Told
<1>4. Outcomes' = [Outcomes EXCEPT ![h] = Outcome(req'[h])]
  BY OutcomeStep, Zenon DEF Handle
<1>5. req'[h].pc \in {"verify", "store"} \/ req'[h].reply \in Refusals
  <2>1. ASSUME NEW s \in Servers, Receive(h, s)
        PROVE  req'[h].pc = "verify" \/ req'[h].reply \in Refusals
    BY <2>1, AfterStep, Zenon DEF Receive, Refusals
  <2>2. ASSUME Verify(h)
        PROVE  req'[h].pc = "store" \/ req'[h].reply \in Refusals
    BY <2>2, AfterVerify, Zenon
  <2>. QED
    BY <2>1, <2>2, Zenon
<1>6. Outcome(req'[h]) \in {"open", "refused"}
  <2>1. /\ req'[h].pc \in {"new", "verify", "store", "stored"} => Outcome(req'[h]) = "open"
        /\ req'[h].reply \in Refusals => Outcome(req'[h]) = "refused"
    BY OutcomeAfter, Zenon
  <2>. QED
    BY <1>5, <2>1, Zenon
<1>7. CASE Outcome(req'[h]) = "open"
  <2>1. Outcomes' = Outcomes
    BY <1>2, <1>4, <1>7, Zenon DEF Outcomes
  <2>. QED
    BY <1>3, <2>1
<1>8. CASE Outcome(req'[h]) = "refused"
  BY <1>2, <1>3, <1>4, <1>8, Zenon DEF Book!Refuse, Outcomes
<1>. QED
  BY <1>6, <1>7, <1>8, Zenon

(* A task that ends without a rule, or without knowing of one. *)
LEMMA BookGivesUp ==
    ASSUME AlertInvariant, AlertInvariant', NEW h \in Requests,
           ListAlerts(h) \/ GetAlert(h) \/ StoreError(h) \/ Disconnect(h)
    PROVE  Book!GiveUp(h)
<1>1. /\ req[h].pc \in {"verify", "store", "stored"} /\ UNCHANGED <<rows, channel>>
  BY Zenon DEF ListAlerts, GetAlert, StoreError, Disconnect
<1>2. Outcomes[h] = "open"
  BY <1>1, OutcomeOf, Zenon
<1>3. Kept' = Kept /\ Told' = Told
  BY <1>1 DEF Kept, Told
<1>4. Outcomes' = [Outcomes EXCEPT ![h] = Outcome(req'[h])]
  BY OutcomeStep, Zenon DEF Handle
<1>5. req'[h].pc = "dropped" \/ req'[h].reply \in {"unavailable", "not found", "ok"}
  <2>1. CASE StoreError(h) \/ Disconnect(h)
    BY <2>1, AfterStep, Zenon DEF StoreError, Disconnect
  <2>2. CASE ListAlerts(h) \/ GetAlert(h)
    BY <2>2, AfterRead, Zenon
  <2>. QED
    BY <2>1, <2>2, Zenon
<1>6. Outcome(req'[h]) = "unknown"
  BY <1>5, OutcomeAfter, Zenon
<1>. QED
  BY <1>2, <1>3, <1>4, <1>6, Zenon DEF Book!GiveUp, Outcomes

(* The rule is kept, and told of with the answer only. *)
LEMMA BookKeeps ==
    ASSUME AlertInvariant, AlertInvariant', NEW h \in Requests,
           Create(h) \/ Announce(h) \/ InsertLate(h)
    PROVE  Book!Keep(h) \/ Book!Confirm(h)
<1>1. /\ RequestOK(h, req[h]) /\ req[h] \in RequestStates
      /\ req[h].pc # "done" => req[h].reply = "none"
  BY RequestKnown
<1>2. req[h].rule # None
  BY <1>1 DEF Create, Announce, InsertLate, RequestOK, Stored
<1>3. CASE Announced(h) /\ Reply(h, "created") /\ (Create(h) \/ Announce(h))
  <2>1. Outcomes[h] = "open"
    BY <1>3, OutcomeOf, Zenon DEF Create, Announce
  <2>2. StoreRule(h)
    <3>1. CASE Create(h)
      BY <3>1, Zenon DEF Create
    <3>2. CASE Announce(h)
      <4>1. Stored(req[h]) /\ StoreOf(req[h].server) \in Stores
        BY <1>1, <1>2, <3>2, StoreKnown DEF Announce, RequestOK
      <4>. QED
        BY <3>2, <4>1, Zenon DEF Announce, StoreRule, Stored, AlertInvariant, TypeOK
    <3>. QED
      BY <1>3, <3>1, <3>2
  <2>3. Kept' = Kept \cup {h} /\ Told' = Told \cup {h}
    BY <1>2, <1>3, <2>2, KeptStep, ToldStep, Zenon
  <2>4. Outcomes' = [Outcomes EXCEPT ![h] = Outcome(req'[h])]
    BY <1>3, OutcomeStep, Zenon DEF Handle
  <2>5. Outcome(req'[h]) = "created"
    BY <1>3, AfterStep, OutcomeAfter, Zenon
  <2>. QED
    BY <2>1, <2>3, <2>4, <2>5, Zenon DEF Book!Confirm, Outcomes
<1>4. CASE /\ StoreRule(h) /\ UNCHANGED channel
           /\ (Create(h) /\ req' = [req EXCEPT ![h].pc = "stored"]) \/ InsertLate(h)
  <2>1. Outcomes[h] \in {"open", "unknown"}
    BY <1>4, OutcomeOf, Zenon DEF Create, InsertLate
  <2>2. Kept' = Kept \cup {h} /\ Told' = Told
    BY <1>2, <1>4, KeptStep DEF Told
  <2>3. Outcomes' = Outcomes
    <3>1. CASE InsertLate(h)
      BY <3>1 DEF InsertLate, Outcomes
    <3>2. CASE Create(h) /\ req' = [req EXCEPT ![h].pc = "stored"]
      <4>1. Outcomes' = [Outcomes EXCEPT ![h] = Outcome(req'[h])]
        BY <3>2, OutcomeStep, Zenon DEF Handle
      <4>2. Outcome(req'[h]) = "open" /\ Outcomes[h] = "open"
        <5>1. req'[h].pc = "stored"
          BY <3>2, AfterStep, Zenon
        <5>. QED
          BY <3>2, <5>1, OutcomeOf, OutcomeAfter, Zenon DEF Create
      <4>. QED
        BY <4>1, <4>2, Zenon DEF Outcomes
    <3>. QED
      BY <1>4, <3>1, <3>2, Zenon
  <2>. QED
    BY <2>1, <2>2, <2>3, Zenon DEF Book!Keep, Outcomes
<1>. QED
  BY <1>3, <1>4, Zenon DEF Create, Announce, InsertLate

LEMMA BookInit ==
    Init => Book!Init
<1>. SUFFICES ASSUME Init PROVE Book!Init
  OBVIOUS
<1>1. Kept = {} /\ Told = {}
  BY DEF Init, Kept, Told
<1>2. \A h \in Requests : Outcome(req[h]) = "open"
  BY Zenon DEF Init, NewRequest, Outcome, Refusals
<1>. QED
  BY <1>1, <1>2 DEF Book!Init

(* Every step of the servers, of the database and of the clients is a step *)
(* of RuleBook, or leaves the book as it is: what a client of create may   *)
(* conclude from an answer, or from none, for any number of servers.       *)
THEOREM LaneKeepsBook ==
    Spec => ImplementsRuleBook
<1>1. ASSUME AlertInvariant, AlertInvariant', [Next]_vars
      PROVE  [Book!Next]_(Book!vars)
  <2>1. ASSUME NEW h \in Requests, Handle(h) \/ InsertLate(h) \/ Disconnect(h)
                                   \/ \E s \in Servers : Receive(h, s)
        PROVE  Book!Next \/ UNCHANGED <<Kept, Told, Outcomes>>
    BY <1>1, <2>1, BookRefuses, BookGivesUp, BookKeeps, Zenon DEF Handle, Book!Next
  <2>2. UNCHANGED <<rows, req, channel>> => UNCHANGED <<Kept, Told, Outcomes>>
    BY DEF Kept, Told, Outcomes
  <2>3. (\E w \in Sockets : \/ VerifySocket(w) \/ Subscribe(w) \/ ReceiveEvent(w) \/ Lagged(w)
                            \/ Hangup(w) \/ \E u \in Servers : Connect(w, u))
           => UNCHANGED <<rows, req, channel>>
    BY Zenon DEF VerifySocket, Subscribe, ReceiveEvent, Lagged, Hangup, Connect
  <2>4. Tick \/ UNCHANGED vars => UNCHANGED <<rows, req, channel>>
    BY Zenon DEF Tick, vars
  <2>5. Book!Next \/ UNCHANGED <<Kept, Told, Outcomes>>
    BY <1>1, <2>1, <2>2, <2>3, <2>4, Zenon DEF Next
  <2>. QED
    BY <2>5, Zenon DEF Book!vars, Outcomes
<1>2. AlertInvariant /\ AlertInvariant' /\ [Next]_vars => [Book!Next]_(Book!vars)
  BY <1>1
<1>. QED
  BY <1>2, BookInit, AlertInvariance, PTL DEF Spec, ImplementsRuleBook, Book!Spec
=============================================================================
