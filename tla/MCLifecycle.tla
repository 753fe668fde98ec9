---------------------------- MODULE MCLifecycle ----------------------------
(***************************************************************************)
(* Instances of Lifecycle for TLC.                                         *)
(***************************************************************************)
EXTENDS Lifecycle, TLC

Empty == [n \in {} |-> "good"]

(* The settings of a server with every lane, and with HTTP only. *)
Complete == [n \in Names \ (Switches \cup {"HOST", "PORT", "RUST_LOG"}) |-> "good"]
Minimal == [n \in AuthNames |-> "good"]

OneSetting(names) == {n :> v : n \in names, v \in Values}

Start(d, e, o, f) ==
    [argv |-> "accepted", dotenv |-> d, environment |-> e, dotenv_overrides |-> o,
     provided_flags |-> f]

(* Any one setting added to, missing from, blank or malformed in the       *)
(* environment.                                                            *)
Environments ==
    {Minimal, Complete} \cup {one @@ Complete : one \in OneSetting(Names)}
        \cup {one @@ Minimal : one \in OneSetting(Ignored \cup {"NATS_URL"})}
        \cup {[n \in DOMAIN Complete \ {m} |-> "good"] : m \in DOMAIN Complete}

(* The same name in any of the layers. *)
Layered(base, n) ==
    {Start(d, e @@ base, o, f) :
        d, e, o, f \in {Empty} \cup {n :> v : v \in {"good", "blank"}}}

MCLaunches ==
    {Start(Empty, e, Empty, Empty) : e \in Environments}
        \cup Layered(Complete, "NATS_URL")
        \cup {[Start(Empty, Complete, Empty, Empty) EXCEPT !.argv = "unknown"],
              Start(Empty, Complete, Empty, "CLI_HELP_REQUESTED" :> "good")}

MCLaneOf == [request |-> "http", socket |-> "ws", connection |-> "mtls",
             command |-> "jetstream"]
=============================================================================
