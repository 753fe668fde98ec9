----------------------------- MODULE MCAlertApi -----------------------------
(***************************************************************************)
(* Instances of AlertApi for TLC.                                          *)
(***************************************************************************)
EXTENDS AlertApi, TLC

(* Servers that share a database are alike. *)
AlikeServers == Permutations(Servers)

MCPolicy == [issuer |-> "iss", audience |-> "api", authorized_client |-> "web",
             provider_tenant |-> "provider", product_tenant |-> "eal"]

(* The claims of a user of the product. *)
UserClaims(subject, scopes, exp) ==
    [strict |-> TRUE, active |-> TRUE, iss |-> "iss", aud |-> "api", azp |-> "web",
     provider_tenant |-> "provider", tenant_id |-> "eal", application_id |-> "web",
     actor_kind |-> "user", sub |-> subject, sid |-> "session", scopes |-> scopes,
     exp |-> exp, nbf |-> 0]

MCClaims == [
    alice     |-> UserClaims("alice", {"read", "write"}, 1),
    bob       |-> UserClaims("bob", {"read", "write"}, 2),
    reader    |-> UserClaims("bob", {"read"}, 2),
    malformed |-> [UserClaims("bob", {}, 2) EXCEPT !.strict = FALSE, !.active = FALSE]]

(* A text of n characters that take b bytes each, between p spaces. *)
Chars(n, b, p) ==
    [chars |-> n + p, bytes |-> n * b + p, pad_chars |-> p, pad_bytes |-> p,
     control |-> FALSE]

(* Every text as long as it may be. *)
LargestInput ==
    [name |-> Chars(160, 1, 0), query_text |-> Chars(2048, 4, 0),
     embedding_model |-> Chars(126, 1, 2), threshold_in_range |-> TRUE,
     source_filters |-> [i \in 1..32 |-> Chars(64, 4, 0)], delivery_channels |-> <<>>]

Http(op, token, target) ==
    [op |-> op, token |-> token, target |-> target, input |-> LargestInput]

MCRequest == [
    create1  |-> Http("create", "alice", "create1"),
    create2  |-> Http("create", "alice", "create2"),
    create3  |-> Http("create", "bob", "create3"),
    readonly |-> Http("create", "reader", "readonly"),
    badtoken |-> Http("list", "malformed", "badtoken"),
    \* a name of white space only
    invalid  |-> [Http("create", "alice", "invalid") EXCEPT
                      !.input.name = Chars(0, 1, 1)],
    get1     |-> Http("get", "alice", "create1"),
    list1    |-> Http("list", "alice", "list1")]

MCSocketToken == [watch |-> "alice", badwatch |-> "malformed"]

MCTokens == {Request[h].token : h \in Requests} \cup {SocketToken[w] : w \in Sockets}
=============================================================================
