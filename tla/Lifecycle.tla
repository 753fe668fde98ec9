----------------------------- MODULE Lifecycle -----------------------------
(***************************************************************************)
(* The life of one API process: main of src/src/main.rs, run, health and   *)
(* shutdown_signal of src/src/lib.rs, and what they call to read the       *)
(* configuration and to spawn the transport lanes.                         *)
(*                                                                         *)
(* The stages of run follow each other; any of them may end the process    *)
(* with an error, while lanes spawned before already work.  Work is what   *)
(* clients have asked the process for, on one of four lanes; the modules   *)
(* AlertApi, MtlsTransport and CommandLane have its details.               *)
(***************************************************************************)
EXTENDS Flags

CONSTANTS
    Launches,     \* command lines and settings the process may be started with
    Work,         \* requests, sockets, connections and commands
    LaneOf,       \* LaneOf[w]: "http", "ws", "mtls" or "jetstream"
    MaxRestarts   \* bound of the model: starts after the first

ASSUME LifecycleAssumption ==
    /\ MaxRestarts \in Nat
    /\ \A w \in Work : LaneOf[w] \in {"http", "ws", "mtls", "jetstream"}
    /\ \A l \in Launches :
          /\ Layer(l.dotenv) /\ Layer(l.environment)
          /\ Layer(l.dotenv_overrides) /\ Layer(l.provided_flags)

VARIABLES
    launch,     \* how the process is started
    stage,      \* where main or run is
    settings,   \* RESOLVED: the settings, once they are resolved
    database,   \* the AlertStore has a database
    task,       \* task[l]: the task of transport lane l
    health,     \* AppState: what /healthz and /readyz report
    work,       \* work[w]: "new", "active", "done" or "cut"
    ended,      \* how the process ended
    restarts    \* starts after the first

vars == <<launch, stage, settings, database, task, health, work, ended, restarts>>

Transports == {"mtls", "jetstream"}
Startup == <<"control", "telemetry", "auth", "database", "mtls", "jetstream", "bind",
             "serving">>
After(st) == Startup[1 + CHOOSE i \in DOMAIN Startup : Startup[i] = st]

Unresolved == <<>>

Init ==
    /\ launch \in Launches
    /\ stage = "control"
    /\ settings = Unresolved
    /\ database = FALSE
    /\ task = [l \in Transports |-> "off"]
    /\ health = [l \in Transports |-> FALSE]
    /\ work = [w \in Work |-> "new"]
    /\ ended = "no"
    /\ restarts = 0

-----------------------------------------------------------------------------
(* Reading the settings. *)

(* optional_env: a blank value counts as absent. *)
Present(n) == n \in DOMAIN settings /\ settings[n] # "blank"
Good(n) == n \in DOMAIN settings /\ settings[n] = "good"

Advance == stage' = After(stage)

(* Work that is under way when the process is gone is cut off. *)
CutWork(lanes) ==
    work' = [w \in Work |-> IF work[w] = "active" /\ LaneOf[w] \in lanes
                            THEN "cut" ELSE work[w]]

(* main returns, or a signal ends the process: the runtime drops all tasks.*)
Exit(how) ==
    /\ stage' = "exited"
    /\ ended' = how
    /\ task' = [l \in Transports |-> "off"]
    /\ CutWork({"http", "ws", "mtls", "jetstream"})
    /\ UNCHANGED <<launch, settings, database, health, restarts>>

Fail == Exit("error")

-----------------------------------------------------------------------------
(* Startup. *)

(* process_control: the first call of try_resolved fills RESOLVED, which   *)
(* every later reading of a setting looks up.  It fails also if the file   *)
(* that hands the contract to the parser cannot be written.                *)
Control ==
    /\ stage = "control"
    /\ \/ Fail
       \/ \E resolved \in {resolve_from(launch)} :
             /\ ~ResolveFails(launch)
             /\ \/ /\ \E n \in Switches : resolved[n] = "good"
                   /\ Exit("ok")    \* help or version
                \/ /\ \A n \in Switches : resolved[n] # "good"
                   /\ settings' = resolved
                   /\ Advance
                   /\ UNCHANGED <<launch, database, task, health, work, ended, restarts>>

(* telemetry::init: RUST_LOG must parse as a filter; "" does. *)
InitTelemetry ==
    /\ stage = "telemetry"
    /\ IF settings["RUST_LOG"] = "bad" THEN Fail
       ELSE /\ Advance
            /\ UNCHANGED <<launch, settings, database, task, health, work, ended, restarts>>

(* Of these SHARED_AUTH_ISSUER is only required, the others are checked.   *)
AuthNames ==
    {"SHARED_AUTH_BASE_URL", "SHARED_AUTH_SERVICE_CREDENTIAL", "SHARED_AUTH_ISSUER",
     "EAL_AUTH_AUDIENCE", "EAL_AUTHORIZED_CLIENT", "EAL_PROVIDER_TENANT",
     "EAL_PRODUCT_TENANT"}

(* AuthBoundary::from_env returns a boundary. *)
AuthLoads ==
    /\ Present("SHARED_AUTH_ISSUER")
    /\ \A n \in AuthNames \ {"SHARED_AUTH_ISSUER"} : Good(n)

LoadAuth ==
    /\ stage = "auth"
    /\ IF ~AuthLoads THEN Fail
       ELSE /\ Advance
            /\ UNCHANGED <<launch, settings, database, task, health, work, ended, restarts>>

(* connect_database: without DATABASE_URL the AlertStore keeps a map. *)
SkipDatabase ==
    /\ stage = "database"
    /\ ~Present("DATABASE_URL")
    /\ Advance
    /\ UNCHANGED <<launch, settings, database, task, health, work, ended, restarts>>

ConnectDatabase ==
    /\ stage = "database"
    /\ Good("DATABASE_URL")
    /\ database' = TRUE
    /\ Advance
    /\ UNCHANGED <<launch, settings, task, health, work, ended, restarts>>

(* Mutant: nothing bounds the time that the database takes. *)
ConnectFailsOnError ==
    /\ stage = "database"
    /\ Present("DATABASE_URL") /\ ~Good("DATABASE_URL")
    /\ Fail

(* The connection is refused, or five seconds have passed. *)
ConnectFails ==
    /\ stage = "database"
    /\ Present("DATABASE_URL")
    /\ Fail

MtlsNames ==
    {"EAL_API_MTLS_BIND", "EAL_API_TLS_CERT_FILE", "EAL_API_TLS_KEY_FILE",
     "EAL_WEB_CLIENT_CA_FILE"}

(* Mutant: a lane that lacks a setting counts as not configured. *)
MtlsAbsentIfIncomplete == \E n \in MtlsNames : ~Present(n)

(* MtlsServerConfig::from_env returns None. *)
MtlsAbsent == \A n \in MtlsNames : ~Present(n)

(* spawn_mtls_from_env: files that do not load, an address that cannot be  *)
(* bound, and a part of the settings without the rest are errors.          *)
SpawnMtls ==
    /\ stage = "mtls"
    /\ \/ ~MtlsAbsent /\ Fail
       \/ /\ MtlsAbsent \/ \A n \in MtlsNames : Good(n)
          /\ task' = [task EXCEPT !["mtls"] = IF MtlsAbsent THEN @ ELSE "running"]
          /\ Advance
          /\ UNCHANGED <<launch, settings, database, health, work, ended, restarts>>

JetStreamLoads ==
    Good("NATS_URL") /\ Good("EAL_NATS_COMMAND_HMAC_KEY") /\ database

(* spawn_jetstream_from_env. *)
SpawnJetStream ==
    /\ stage = "jetstream"
    /\ IF Present("NATS_URL") /\ ~JetStreamLoads THEN Fail
       ELSE /\ task' = [task EXCEPT !["jetstream"] =
                            IF Present("NATS_URL") THEN "running" ELSE @]
            /\ Advance
            /\ UNCHANGED <<launch, settings, database, health, work, ended, restarts>>

(* AppState, and the listener.  A handle exists also if its task has ended.*)
Bind ==
    /\ stage = "bind"
    /\ \/ Fail
       \/ /\ Good("HOST") /\ Good("PORT")
          /\ health' = [l \in Transports |-> task[l] # "off"]
          /\ Advance
          /\ UNCHANGED <<launch, settings, database, task, work, ended, restarts>>

-----------------------------------------------------------------------------
(* Work. *)

Accepting(lane) ==
    IF lane \in Transports THEN task[lane] = "running" ELSE stage = "serving"

Take(w) ==
    /\ work[w] = "new"
    /\ Accepting(LaneOf[w])
    /\ work' = [work EXCEPT ![w] = "active"]
    /\ UNCHANGED <<launch, stage, settings, database, task, health, ended, restarts>>

Finish(w) ==
    /\ work[w] = "active"
    /\ work' = [work EXCEPT ![w] = "done"]
    /\ UNCHANGED <<launch, stage, settings, database, task, health, ended, restarts>>

(* Mutant: a lane that has ended is spawned again. *)
LaneRestarts(l) ==
    /\ task[l] # "off"
    /\ task' = [task EXCEPT ![l] = IF @ = "running" THEN "ended" ELSE "running"]
    /\ CutWork({l} \cap {"jetstream"})
    /\ UNCHANGED <<launch, stage, settings, database, health, ended, restarts>>

(* run_mtls or run_jetstream returns.  Connections have tasks of their     *)
(* own and go on; the command under way is dropped with its transaction.   *)
LaneEnds(l) ==
    /\ task[l] = "running"
    /\ task' = [task EXCEPT ![l] = "ended"]
    /\ CutWork({l} \cap {"jetstream"})
    /\ UNCHANGED <<launch, stage, settings, database, health, ended, restarts>>

-----------------------------------------------------------------------------
(* The end. *)

(* SIGINT.  Its handler is there once shutdown_signal is polled; before,   *)
(* the signal ends the process.  A second one changes nothing.  (A handler *)
(* that cannot be installed counts as a signal.)                           *)
Interrupt ==
    \/ /\ stage = "serving"
       /\ stage' = "draining"
       /\ UNCHANGED <<launch, settings, database, task, health, work, ended, restarts>>
    \/ stage \notin {"serving", "draining", "exited"} /\ Exit("interrupted")

(* SIGTERM has no handler: the process ends, as PID 1 of a container by    *)
(* the SIGKILL that follows.                                               *)
Terminate == stage # "exited" /\ Exit("terminated")

(* Mutant: the shutdown waits for the sockets too. *)
InFlightWithSockets == {w \in Work : LaneOf[w] \in {"http", "ws"} /\ work[w] = "active"}

(* What the graceful shutdown of axum waits for: requests, but not sockets,*)
(* whose tasks are no longer the connection's.                             *)
InFlight == {w \in Work : LaneOf[w] = "http" /\ work[w] = "active"}

(* Mutant: run returns at the signal. *)
ShutdownAtOnce == stage = "draining" /\ Exit("ok")

Shutdown ==
    /\ stage = "draining"
    /\ InFlight = {}
    /\ Exit("ok")

(* The supervisor starts the process again. *)
Restart ==
    /\ stage = "exited"
    /\ restarts < MaxRestarts
    /\ restarts' = restarts + 1
    /\ stage' = "control"
    /\ ended' = "no"
    /\ settings' = Unresolved
    /\ database' = FALSE
    /\ health' = [l \in Transports |-> FALSE]
    /\ UNCHANGED <<launch, task, work>>

-----------------------------------------------------------------------------
StartupStep ==
    \/ Control \/ InitTelemetry \/ LoadAuth \/ SkipDatabase \/ ConnectFails
    \/ SpawnMtls \/ SpawnJetStream \/ Bind

Next ==
    \/ StartupStep \/ ConnectDatabase
    \/ Interrupt \/ Terminate \/ Shutdown \/ Restart
    \/ \E w \in Work : Take(w) \/ Finish(w)
    \/ \E l \in Transports : LaneEnds(l)

Spec == Init /\ [][Next]_vars

(* run goes on by itself, but the database may never answer.  A request is *)
(* answered, if only with an error; a socket may stay open for ever.       *)
FairSpec ==
    /\ Spec
    /\ WF_vars(StartupStep)
    /\ WF_vars(Shutdown)
    /\ \A w \in {w \in Work : LaneOf[w] = "http"} : WF_vars(Finish(w))

-----------------------------------------------------------------------------
(* Properties. *)

Serving == stage \in {"serving", "draining"}

(* Every variable has its type; in particular coerce leaves no null in the *)
(* settings that the process works with.                                   *)
TypeOK ==
    /\ launch \in Launches
    /\ stage \in {Startup[i] : i \in DOMAIN Startup} \cup {"draining", "exited"}
    /\ Layer(settings)
    /\ database \in BOOLEAN
    /\ task \in [Transports -> {"off", "running", "ended"}]
    /\ health \in [Transports -> BOOLEAN]
    /\ work \in [Work -> {"new", "active", "done", "cut"}]
    /\ ended \in {"no", "ok", "error", "interrupted", "terminated"}
    /\ restarts \in 0..MaxRestarts

(* The successive extends of resolve_from give every setting the value of  *)
(* the layer nearest to the command line that has it, and read a secret    *)
(* from the environment only (test at flags.rs:241-275).                   *)
SettingsByPrecedence ==
    settings # Unresolved =>
        \A n \in Names :
            LET layers == Layers(n, launch) IN
            /\ n \in DOMAIN settings <=> \E i \in DOMAIN layers : n \in DOMAIN layers[i]
            /\ \A i \in DOMAIN layers :
                  Decides(n, layers, i) => settings[n] = layers[i][n]

(* A process that serves HTTP serves all it was configured for, and        *)
(* reports it: the whole authorization policy is set, a lane that any      *)
(* setting of its own mentions has been started, the durable lane has its  *)
(* database, and the map is used only if DATABASE_URL is absent or blank.  *)
(* Otherwise the process has ended.                                        *)
ServesAsConfigured ==
    Serving =>
        /\ \A n \in AuthNames : Present(n)
        /\ health["mtls"] <=> \E n \in MtlsNames : Present(n)
        /\ health["jetstream"] <=> Present("NATS_URL")
        /\ health["jetstream"] => database
        /\ database <=> Present("DATABASE_URL")
        /\ \A l \in Transports : health[l] <=> task[l] # "off"

(* An HTTP request that was taken is cut only by SIGTERM: a SIGINT waits   *)
(* for it, and neither the end of a lane nor a failed start touches one.   *)
InterruptSparesRequests ==
    [][\A w \in Work :
          LaneOf[w] = "http" /\ work[w] = "active" /\ work'[w] = "cut"
              => ended' = "terminated"]_vars

Lanes == INSTANCE LaneTask WITH Tasks <- Transports

(* The process spawns each lane once per start and never again, also after *)
(* the lane has ended by itself and /readyz still reports it.              *)
LaneTasksAsAssumed == Lanes!Spec

(* A start comes to an end: the process serves or has exited, also when    *)
(* the database never answers.                                             *)
StartupEnds == stage = "control" ~> Serving \/ stage = "exited"

(* A SIGINT while serving ends the process, whatever sockets are open.     *)
ShutdownCompletes == stage = "draining" ~> stage = "exited"

(* A request taken before the process is stopped by SIGTERM is drained     *)
(* (.just/env.just:346-347).                                               *)
TerminateDrains ==
    [][\A w \in Work :
          LaneOf[w] = "http" /\ work[w] = "active" => work'[w] # "cut"]_vars
=============================================================================
