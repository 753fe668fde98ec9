---------------------------- MODULE AuthBoundary ----------------------------
(***************************************************************************)
(* The authorization decision of src/src/auth.rs.  Claims are what the     *)
(* Shared Auth service answers about a token; strings are model values, a  *)
(* claim that is absent or not a bounded identifier is None, and scopes is *)
(* the set that has_scope looks in.                                        *)
(***************************************************************************)
EXTENDS Integers

CONSTANTS
    Policy,     \* AuthPolicy: issuer, audience, authorized_client, tenants
    None        \* absent value

READ_SCOPE == "read"
WRITE_SCOPE == "write"

(* The claims that do not depend on the clock or the scope. *)
MatchesPolicy(claims) ==
    /\ claims.active
    /\ claims.iss = Policy.issuer
    /\ claims.aud = Policy.audience
    /\ claims.azp = Policy.authorized_client
    /\ claims.provider_tenant = Policy.provider_tenant
    /\ claims.tenant_id = Policy.product_tenant
    /\ claims.application_id = Policy.authorized_client
    /\ claims.actor_kind = "user"
    /\ claims.sub # None
    /\ claims.sid # None

(* authorize_introspection returns an actor. *)
authorize_introspection(claims, required_scope, now) ==
    /\ MatchesPolicy(claims)
    /\ required_scope \in claims.scopes
    /\ claims.exp # None /\ claims.exp > now
    /\ claims.nbf # None /\ claims.nbf <= now

(* VerifiedActor: the tenant is the policy's, the subject the token's. *)
VerifiedActor(claims) ==
    [product_tenant |-> Policy.product_tenant, subject |-> claims.sub]
=============================================================================
