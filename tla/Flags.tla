------------------------------- MODULE Flags -------------------------------
(***************************************************************************)
(* Configuration resolution of src/src/flags.rs.  A launch is the command  *)
(* line and the layers of settings it is resolved from; a layer maps some  *)
(* names to values.  Of a value only its use is kept: "good" (for a switch *)
(* "true"), "bad" (does not pass the check of the code that reads it; for  *)
(* a switch "false") or "blank".  flags-2-env itself is external: it is    *)
(* modelled by the contract .cli-flags.toml and by how flags.rs uses it.   *)
(***************************************************************************)
EXTENDS Naturals, Sequences

Switches == {"CLI_HELP_REQUESTED", "CLI_VERSION_REQUESTED"}

(* Settings that .cli-flags.toml declares a flag for. *)
Declared ==
    Switches \cup
    {"HOST", "PORT", "RUST_LOG", "SHARED_AUTH_BASE_URL", "SHARED_AUTH_ISSUER",
     "EAL_AUTH_AUDIENCE", "EAL_AUTHORIZED_CLIENT", "EAL_PROVIDER_TENANT",
     "EAL_PRODUCT_TENANT", "EAL_API_MTLS_BIND", "EAL_API_TLS_CERT_FILE",
     "EAL_WEB_CLIENT_CA_FILE", "NATS_URL"}

(* Settings that it ignores: secrets, which come from the environment. *)
Ignored ==
    {"DATABASE_URL", "SHARED_AUTH_SERVICE_CREDENTIAL", "EAL_API_TLS_KEY_FILE",
     "EAL_NATS_COMMAND_HMAC_KEY"}

Names == Declared \cup Ignored
Values == {"good", "bad", "blank"}

(* A layer, like a map resolved from layers, gives some names a value. *)
Layer(map) == DOMAIN map \subseteq Names /\ \A n \in DOMAIN map : map[n] \in Values

Defaults ==
    [n \in Switches \cup {"HOST", "PORT", "RUST_LOG"} |->
        IF n \in Switches THEN "bad" ELSE "good"]

(* The first map extended by the others in turn: the last value counts. *)
extend(maps) ==
    LET last(n) == CHOOSE i \in DOMAIN maps :
                       /\ n \in DOMAIN maps[i]
                       /\ \A j \in DOMAIN maps : n \in DOMAIN maps[j] => j <= i
    IN  [n \in UNION {DOMAIN maps[i] : i \in DOMAIN maps} |-> maps[last(n)][n]]

(* coerce: every declared name with its value, or its default, if it has   *)
(* one; a value must have the type of its flag.                            *)
Coercible(raw) ==
    \A n \in DOMAIN raw :
        /\ n = "PORT" => raw[n] = "good"
        /\ n \in Switches => raw[n] # "blank"

(* Mutant: the test for null is left out. *)
CoerceWithNull(raw) ==
    LET all == extend(<<Defaults, raw>>) IN
    [n \in Declared |-> IF n \in DOMAIN all THEN all[n] ELSE "null"]

coerce(raw) ==
    LET all == extend(<<Defaults, raw>>) IN [n \in Declared \cap DOMAIN all |-> all[n]]

(* Mutant: the environment is laid over the flags. *)
RawEnvironmentLast(launch) ==
    extend(<<launch.dotenv, launch.dotenv_overrides, launch.provided_flags,
             launch.environment>>)

(* The calls of raw.extend.  (The name that is removed in between,         *)
(* FLAGS2ENV_COMMAND, has no flag, so that coerce drops it.)               *)
Raw(launch) ==
    extend(<<launch.dotenv, launch.environment, launch.dotenv_overrides,
             launch.provided_flags>>)

(* resolve_from returns an error.  The parser reports unknown options,     *)
(* malformed values and positional arguments, none of which are accepted.  *)
ResolveFails(launch) ==
    \/ launch.argv # "accepted"
    \/ ~Coercible(Raw(launch))

(* The map that resolve_from returns otherwise. *)
resolve_from(launch) == extend(<<launch.environment, coerce(Raw(launch))>>)

(* What the value of a name should be: the layer nearest to the command    *)
(* line decides, and a secret is read from the environment only.           *)
Layers(n, launch) ==
    IF n \in Ignored THEN <<launch.environment>>
    ELSE <<launch.provided_flags, launch.dotenv_overrides, launch.environment,
           launch.dotenv, Defaults>>

Decides(n, layers, i) ==
    /\ n \in DOMAIN layers[i]
    /\ \A j \in DOMAIN layers : n \in DOMAIN layers[j] => i <= j
=============================================================================
