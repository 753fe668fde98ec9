-------------------------- MODULE MCMtlsTransport --------------------------
(***************************************************************************)
(* Instances of MtlsTransport for TLC.                                     *)
(***************************************************************************)
EXTENDS MtlsTransport

MCPolicy == [issuer |-> "iss", audience |-> "api", authorized_client |-> "web",
             provider_tenant |-> "provider", product_tenant |-> "eal"]

UserClaims(subject, scopes, exp) ==
    [strict |-> TRUE, active |-> TRUE, iss |-> "iss", aud |-> "api", azp |-> "web",
     provider_tenant |-> "provider", tenant_id |-> "eal", application_id |-> "web",
     actor_kind |-> "user", sub |-> subject, sid |-> "session", scopes |-> scopes,
     exp |-> exp, nbf |-> 0]

MCClaims == [
    alice  |-> UserClaims("alice", {"read", "write"}, 2),
    bob    |-> UserClaims("bob", {"read"}, 2),
    writer |-> UserClaims("alice", {"write"}, 2)]

Op(id, token, subject) ==
    [decodes |-> TRUE, envelope_bounded |-> TRUE, bearer |-> TRUE, token |-> token,
     operation_id |-> id, actor_subject |-> subject, product_tenant |-> "eal",
     deadline |-> 1]

MCOperation == [
    own     |-> Op("o1", "alice", "alice"),
    crossed |-> Op("o3", "bob", "alice"),
    scoped  |-> Op("o4", "writer", "alice"),
    garbled |-> [Op("o5", "alice", "alice") EXCEPT !.decodes = FALSE],
    bare    |-> [Op("o6", "alice", "alice") EXCEPT !.bearer = FALSE]]
=============================================================================
