-------------------------- MODULE LifecycleProofs --------------------------
(***************************************************************************)
(* The safety properties of Lifecycle, for any set of launches, work and   *)
(* restarts.  All of them follow from one invariant: what is known of the  *)
(* settings, the lanes and the work at each stage of run.                  *)
(***************************************************************************)
EXTENDS Lifecycle, TLAPS

-----------------------------------------------------------------------------
(* Settings. *)

(* extend takes the value of a name from the last map that has it. *)
LEMMA ExtendTwo ==
    ASSUME NEW f, NEW g
    PROVE  /\ DOMAIN extend(<<f, g>>) = DOMAIN f \cup DOMAIN g
           /\ \A n \in DOMAIN g : extend(<<f, g>>)[n] = g[n]
           /\ \A n \in DOMAIN f \ DOMAIN g : extend(<<f, g>>)[n] = f[n]
<1>. DEFINE maps == <<f, g>>
            last(n) == CHOOSE i \in DOMAIN maps :
                           /\ n \in DOMAIN maps[i]
                           /\ \A j \in DOMAIN maps : n \in DOMAIN maps[j] => j <= i
<1>1. DOMAIN maps = 1..2 /\ maps[1] = f /\ maps[2] = g
  OBVIOUS
<1>. HIDE DEF maps
<1>2. \A n \in DOMAIN g : last(n) = 2
  BY <1>1
<1>3. \A n \in DOMAIN f \ DOMAIN g : last(n) = 1
  BY <1>1
<1>4. UNION {DOMAIN maps[i] : i \in DOMAIN maps} = DOMAIN f \cup DOMAIN g
  BY <1>1
<1>5. extend(maps) = [n \in DOMAIN f \cup DOMAIN g |-> maps[last(n)][n]]
  BY <1>4 DEF extend
<1>. HIDE DEF last
<1>6. extend(<<f, g>>) = extend(maps)
  BY DEF maps
<1>. QED
  BY <1>1, <1>2, <1>3, <1>5, <1>6

LEMMA ExtendFour ==
    ASSUME NEW d, NEW e, NEW o, NEW p
    PROVE  LET all == extend(<<d, e, o, p>>) IN
           /\ DOMAIN all = DOMAIN d \cup DOMAIN e \cup DOMAIN o \cup DOMAIN p
           /\ \A n \in DOMAIN p : all[n] = p[n]
           /\ \A n \in DOMAIN o \ DOMAIN p : all[n] = o[n]
           /\ \A n \in DOMAIN e \ (DOMAIN o \cup DOMAIN p) : all[n] = e[n]
           /\ \A n \in DOMAIN d \ (DOMAIN e \cup DOMAIN o \cup DOMAIN p) : all[n] = d[n]
<1>. DEFINE maps == <<d, e, o, p>>
            last(n) == CHOOSE i \in DOMAIN maps :
                           /\ n \in DOMAIN maps[i]
                           /\ \A j \in DOMAIN maps : n \in DOMAIN maps[j] => j <= i
            names == DOMAIN d \cup DOMAIN e \cup DOMAIN o \cup DOMAIN p
<1>1. DOMAIN maps = 1..4 /\ maps[1] = d /\ maps[2] = e /\ maps[3] = o /\ maps[4] = p
  OBVIOUS
<1>. HIDE DEF maps
<1>2. /\ \A n \in DOMAIN p : last(n) = 4
      /\ \A n \in DOMAIN o \ DOMAIN p : last(n) = 3
  BY <1>1
<1>3. /\ \A n \in DOMAIN e \ (DOMAIN o \cup DOMAIN p) : last(n) = 2
      /\ \A n \in DOMAIN d \ (DOMAIN e \cup DOMAIN o \cup DOMAIN p) : last(n) = 1
  BY <1>1
<1>4. UNION {DOMAIN maps[i] : i \in DOMAIN maps} = names
  BY <1>1
<1>5. extend(maps) = [n \in names |-> maps[last(n)][n]]
  BY <1>4 DEF extend
<1>. HIDE DEF last
<1>6. extend(<<d, e, o, p>>) = extend(maps)
  BY DEF maps
<1>. QED
  BY <1>1, <1>2, <1>3, <1>5, <1>6

(* The flags, the dotenv files, the environment and the defaults are read  *)
(* in the documented order for every launch and every setting.             *)
LEMMA Precedence ==
    ASSUME NEW l, NEW n \in Names
    PROVE  LET layers == Layers(n, l)
               map == resolve_from(l)
           IN  /\ n \in DOMAIN map <=> \E i \in DOMAIN layers : n \in DOMAIN layers[i]
               /\ \A i \in DOMAIN layers : Decides(n, layers, i) => map[n] = layers[i][n]
<1>. DEFINE d == l.dotenv
            e == l.environment
            o == l.dotenv_overrides
            p == l.provided_flags
            raw == Raw(l)
            all == extend(<<Defaults, raw>>)
            typed == coerce(raw)
            map == resolve_from(l)
            layers == Layers(n, l)
<1>1. raw = extend(<<d, e, o, p>>)
  BY DEF Raw
<1>2. typed = [m \in Declared \cap DOMAIN all |-> all[m]]
  BY DEF coerce
<1>3. map = extend(<<e, typed>>)
  BY DEF resolve_from
<1>4. /\ n \in Ignored => layers = <<e>>
      /\ n \notin Ignored => layers = <<p, o, e, d, Defaults>>
  BY DEF Layers
<1>5. n \in Ignored <=> n \notin Declared
  BY DEF Names, Declared, Ignored, Switches
<1>. HIDE DEF d, e, o, p, raw, all, typed, map, layers
<1>6. /\ DOMAIN raw = DOMAIN d \cup DOMAIN e \cup DOMAIN o \cup DOMAIN p
      /\ n \in DOMAIN p => raw[n] = p[n]
      /\ n \in DOMAIN o \ DOMAIN p => raw[n] = o[n]
      /\ n \in DOMAIN e \ (DOMAIN o \cup DOMAIN p) => raw[n] = e[n]
      /\ n \in DOMAIN d \ (DOMAIN e \cup DOMAIN o \cup DOMAIN p) => raw[n] = d[n]
  BY <1>1, ExtendFour
<1>7. /\ DOMAIN all = DOMAIN Defaults \cup DOMAIN raw
      /\ n \in DOMAIN raw => all[n] = raw[n]
      /\ n \in DOMAIN Defaults \ DOMAIN raw => all[n] = Defaults[n]
  <2>1. all = extend(<<Defaults, raw>>)
    BY DEF all
  <2>. HIDE DEF Defaults
  <2>. QED
    BY <2>1, ExtendTwo
<1>8. /\ DOMAIN map = DOMAIN e \cup DOMAIN typed
      /\ n \in DOMAIN typed => map[n] = typed[n]
      /\ n \in DOMAIN e \ DOMAIN typed => map[n] = e[n]
  BY <1>3, ExtendTwo
<1>9. CASE n \in Ignored
  <2>1. DOMAIN layers = {1} /\ layers[1] = e
    BY <1>4, <1>9
  <2>2. n \notin DOMAIN typed
    BY <1>2, <1>5, <1>9
  <2>3. n \in DOMAIN map <=> n \in DOMAIN e
    BY <1>8, <2>2
  <2>4. n \in DOMAIN e => map[n] = e[n]
    BY <1>8, <2>2
  <2>. QED
    BY <2>1, <2>3, <2>4 DEF Decides, map, layers
<1>10. CASE n \notin Ignored
  <2>1. /\ DOMAIN layers = 1..5
        /\ layers[1] = p /\ layers[2] = o /\ layers[3] = e /\ layers[4] = d
        /\ layers[5] = Defaults
    BY <1>4, <1>10
  <2>2. n \in DOMAIN typed <=> n \in DOMAIN Defaults \cup DOMAIN raw
    BY <1>2, <1>5, <1>7, <1>10
  <2>3. n \in DOMAIN typed => typed[n] = all[n]
    BY <1>2
  <2>4. n \in DOMAIN map <=> \E i \in DOMAIN layers : n \in DOMAIN layers[i]
    <3>1. n \in DOMAIN map <=>
             n \in DOMAIN p \cup DOMAIN o \cup DOMAIN e \cup DOMAIN d \cup DOMAIN Defaults
      BY <1>6, <1>8, <2>2
    <3>. QED
      BY <2>1, <3>1
  <2>5. ASSUME NEW i \in DOMAIN layers, Decides(n, layers, i)
        PROVE  map[n] = layers[i][n]
    <3>1. n \in DOMAIN layers[i] /\ \A j \in 1..5 : j < i => n \notin DOMAIN layers[j]
      BY <2>1, <2>5 DEF Decides
    <3>2. CASE i = 1
      BY <3>1, <3>2, <1>6, <1>7, <1>8, <2>1, <2>2, <2>3
    <3>3. CASE i = 2
      <4>1. n \in DOMAIN o \ DOMAIN p
        BY <3>1, <3>3, <2>1
      <4>. QED
        BY <4>1, <3>3, <1>6, <1>7, <1>8, <2>1, <2>2, <2>3
    <3>4. CASE i = 3
      <4>1. n \in DOMAIN e \ (DOMAIN o \cup DOMAIN p)
        BY <3>1, <3>4, <2>1
      <4>. QED
        BY <4>1, <3>4, <1>6, <1>7, <1>8, <2>1, <2>2, <2>3
    <3>5. CASE i = 4
      <4>1. n \in DOMAIN d \ (DOMAIN e \cup DOMAIN o \cup DOMAIN p)
        BY <3>1, <3>5, <2>1
      <4>. QED
        BY <4>1, <3>5, <1>6, <1>7, <1>8, <2>1, <2>2, <2>3
    <3>6. CASE i = 5
      <4>1. n \in DOMAIN Defaults \ DOMAIN raw
        BY <3>1, <3>6, <2>1, <1>6
      <4>. QED
        BY <4>1, <3>6, <1>7, <1>8, <2>1, <2>2, <2>3
    <3>. QED
      BY <2>1, <3>2, <3>3, <3>4, <3>5, <3>6
  <2>. QED
    BY <2>4, <2>5, Zenon DEF map, layers
<1>. QED
  BY <1>9, <1>10

(* A layer extended by another is one. *)
LEMMA ExtendLayer ==
    ASSUME NEW f, NEW g, Layer(f), Layer(g)
    PROVE  Layer(extend(<<f, g>>))
<1>. DEFINE all == extend(<<f, g>>)
<1>1. /\ DOMAIN all = DOMAIN f \cup DOMAIN g
      /\ \A n \in DOMAIN g : all[n] = g[n]
      /\ \A n \in DOMAIN f \ DOMAIN g : all[n] = f[n]
  BY ExtendTwo
<1>. HIDE DEF all
<1>2. Layer(all)
  BY <1>1 DEF Layer
<1>. QED
  BY <1>2 DEF all

(* What resolve_from returns for typed layers is typed: coerce passes on   *)
(* no name without a value.                                                *)
LEMMA ResolvedTyped ==
    ASSUME NEW l, Layer(l.dotenv), Layer(l.environment), Layer(l.dotenv_overrides),
           Layer(l.provided_flags)
    PROVE  Layer(resolve_from(l))
<1>. DEFINE d == l.dotenv
            e == l.environment
            o == l.dotenv_overrides
            p == l.provided_flags
            raw == Raw(l)
            all == extend(<<Defaults, raw>>)
            typed == coerce(raw)
            map == resolve_from(l)
<1>1. Layer(d) /\ Layer(e) /\ Layer(o) /\ Layer(p)
  OBVIOUS
<1>2. Layer(Defaults)
  BY Zenon DEF Layer, Defaults, Names, Declared, Values
<1>3. typed = [n \in Declared \cap DOMAIN all |-> all[n]]
  BY DEF coerce
<1>. HIDE DEF d, e, o, p
<1>4. Layer(raw)
  <2>1. raw = extend(<<d, e, o, p>>)
    BY DEF Raw, d, e, o, p
  <2>2. /\ DOMAIN raw = DOMAIN d \cup DOMAIN e \cup DOMAIN o \cup DOMAIN p
        /\ \A n \in DOMAIN p : raw[n] = p[n]
        /\ \A n \in DOMAIN o \ DOMAIN p : raw[n] = o[n]
        /\ \A n \in DOMAIN e \ (DOMAIN o \cup DOMAIN p) : raw[n] = e[n]
        /\ \A n \in DOMAIN d \ (DOMAIN e \cup DOMAIN o \cup DOMAIN p) : raw[n] = d[n]
    BY <2>1, ExtendFour
  <2>. HIDE DEF raw
  <2>. QED
    BY <1>1, <2>2 DEF Layer
<1>. HIDE DEF raw
<1>5. Layer(all)
  BY <1>2, <1>4, ExtendLayer
<1>. HIDE DEF all
<1>6. Layer(typed)
  BY <1>3, <1>5 DEF Layer
<1>7. map = extend(<<e, typed>>)
  BY DEF resolve_from, e, raw
<1>. HIDE DEF typed, map
<1>8. Layer(map)
  BY <1>1, <1>6, <1>7, ExtendLayer
<1>. QED
  BY <1>8 DEF map

-----------------------------------------------------------------------------
(* The invariant. *)

PastJetStream == {"bind", "serving", "draining"}
PastMtls == {"jetstream"} \cup PastJetStream
PastDatabase == {"mtls"} \cup PastMtls
PastAuth == {"database"} \cup PastDatabase
Stages == {"control", "telemetry", "auth", "exited"} \cup PastAuth

(* What is known of the settings and of the lanes at each stage.  A lane   *)
(* has a task, running or ended, exactly if it is configured.              *)
Known ==
    /\ stage \in Stages
    /\ settings \in {Unresolved, resolve_from(launch)}
    /\ database \in BOOLEAN
    /\ task \in [Transports -> {"off", "running", "ended"}]
    /\ health \in [Transports -> BOOLEAN]
    /\ stage \in PastAuth => \A n \in AuthNames : Present(n)
    /\ stage \in {"control", "telemetry", "auth", "database"} => ~database
    /\ stage \in PastDatabase => (database <=> Present("DATABASE_URL"))
    /\ task["mtls"] # "off" <=> stage \in PastMtls /\ ~MtlsAbsent
    /\ task["jetstream"] # "off" <=> stage \in PastJetStream /\ Present("NATS_URL")
    /\ stage \in PastJetStream /\ Present("NATS_URL") => database
    /\ Serving => \A l \in Transports : health[l] <=> task[l] # "off"

(* HTTP requests are under way only while the process serves. *)
RequestsServed ==
    /\ work \in [Work -> {"new", "active", "done", "cut"}]
    /\ \A w \in Work : LaneOf[w] = "http" /\ work[w] = "active" => Serving

LEMMA AfterStage ==
    /\ After("control") = "telemetry" /\ After("telemetry") = "auth"
    /\ After("auth") = "database" /\ After("database") = "mtls"
    /\ After("mtls") = "jetstream" /\ After("jetstream") = "bind"
    /\ After("bind") = "serving"
<1>1. /\ DOMAIN Startup = 1..8
      /\ Startup[1] = "control" /\ Startup[2] = "telemetry" /\ Startup[3] = "auth"
      /\ Startup[4] = "database" /\ Startup[5] = "mtls" /\ Startup[6] = "jetstream"
      /\ Startup[7] = "bind" /\ Startup[8] = "serving"
  BY DEF Startup
<1>2. /\ (CHOOSE i \in DOMAIN Startup : Startup[i] = "control") = 1
      /\ (CHOOSE i \in DOMAIN Startup : Startup[i] = "telemetry") = 2
      /\ (CHOOSE i \in DOMAIN Startup : Startup[i] = "auth") = 3
      /\ (CHOOSE i \in DOMAIN Startup : Startup[i] = "database") = 4
  BY <1>1
<1>3. /\ (CHOOSE i \in DOMAIN Startup : Startup[i] = "mtls") = 5
      /\ (CHOOSE i \in DOMAIN Startup : Startup[i] = "jetstream") = 6
      /\ (CHOOSE i \in DOMAIN Startup : Startup[i] = "bind") = 7
  BY <1>1
<1>. QED
  BY <1>1, <1>2, <1>3 DEF After

(* The end of the process leaves no lane and no request behind. *)
LEMMA ExitKnown ==
    ASSUME Known, NEW how, Exit(how)
    PROVE  Known'
<1>1. /\ stage' = "exited" /\ task' = [l \in Transports |-> "off"]
      /\ UNCHANGED <<launch, settings, database, health>>
  BY DEF Exit
<1>2. task'["mtls"] = "off" /\ task'["jetstream"] = "off"
  BY <1>1 DEF Transports
<1>. QED
  BY <1>1, <1>2 DEF Known, Stages, PastAuth, PastDatabase, PastMtls, PastJetStream, Serving

LEMMA ExitServed ==
    ASSUME RequestsServed, NEW how, Exit(how)
    PROVE  RequestsServed'
<1>1. \A w \in Work : LaneOf[w] \in {"http", "ws", "mtls", "jetstream"}
  BY LifecycleAssumption
<1>2. work' = [w \in Work |->
                 IF work[w] = "active" /\ LaneOf[w] \in {"http", "ws", "mtls", "jetstream"}
                 THEN "cut" ELSE work[w]]
  BY DEF Exit, CutWork
<1>. QED
  BY <1>1, <1>2 DEF RequestsServed

(* Steps that only touch the work. *)
LEMMA WorkKnown ==
    ASSUME Known, UNCHANGED <<launch, stage, settings, database, task, health>>
    PROVE  Known'
BY DEF Known, Present, MtlsAbsent, Serving

(* A step of the startup that goes on to the next stage and leaves the     *)
(* lanes alone.                                                            *)
LEMMA AdvanceKnown ==
    ASSUME Known, stage \in {"telemetry", "auth", "database"},
           stage' = After(stage), UNCHANGED <<launch, settings, task, health>>,
           database' \in BOOLEAN,
           stage \in {"telemetry", "auth"} => UNCHANGED database,
           stage = "auth" => AuthLoads,
           stage = "database" => (database' <=> Present("DATABASE_URL"))
    PROVE  Known'
<1>1. \A n : Present(n)' <=> Present(n)
  BY DEF Present
<1>2. MtlsAbsent' <=> MtlsAbsent
  BY <1>1 DEF MtlsAbsent
<1>3. task["mtls"] = "off" /\ task["jetstream"] = "off"
  BY DEF Known, PastMtls, PastJetStream
<1>4. /\ stage = "telemetry" => stage' = "auth"
      /\ stage = "auth" => stage' = "database"
      /\ stage = "database" => stage' = "mtls"
  BY AfterStage
<1>5. stage' \in PastAuth => \A n \in AuthNames : Present(n)
  <2>1. AuthLoads => \A n \in AuthNames : Present(n)
    BY DEF AuthLoads, Good, Present
  <2>. QED
    BY <1>4, <2>1 DEF Known, PastAuth, PastDatabase, PastMtls, PastJetStream
<1>6. /\ stage' \in Stages /\ stage' \notin PastMtls /\ stage' \notin PastJetStream
      /\ stage' \notin {"serving", "draining"}
      /\ stage' \in PastDatabase => stage = "database"
      /\ stage' \in {"control", "telemetry", "auth", "database"} =>
            stage \in {"telemetry", "auth"}
  BY <1>4 DEF Stages, PastAuth, PastDatabase, PastMtls, PastJetStream
<1>. HIDE DEF PastAuth, PastDatabase, PastMtls, PastJetStream, Stages
<1>7. (stage \in {"control", "telemetry", "auth", "database"} => ~database)'
  BY <1>6 DEF Known
<1>8. (stage \in PastDatabase => (database <=> Present("DATABASE_URL")))'
  BY <1>1, <1>6
<1>. QED
  BY <1>1, <1>2, <1>3, <1>5, <1>6, <1>7, <1>8 DEF Known, Serving

LEMMA ControlKnown ==
    ASSUME Known, Control
    PROVE  Known'
<1>1. CASE \E how : Exit(how)
  BY <1>1, ExitKnown
<1>2. CASE /\ settings' = resolve_from(launch)
           /\ Advance
           /\ UNCHANGED <<launch, database, task, health, work, ended, restarts>>
  <2>1. stage = "control" /\ stage' = "telemetry"
    BY <1>2, AfterStage DEF Control, Advance
  <2>2. task["mtls"] = "off" /\ task["jetstream"] = "off" /\ ~database
    BY <2>1 DEF Known, PastMtls, PastJetStream
  <2>3. /\ stage' \in Stages /\ stage' \notin PastAuth /\ stage' \notin PastDatabase
        /\ stage' \notin PastMtls /\ stage' \notin PastJetStream
        /\ stage' \notin {"serving", "draining"}
    BY <2>1 DEF Stages, PastAuth, PastDatabase, PastMtls, PastJetStream
  <2>. QED
    BY <1>2, <2>2, <2>3 DEF Known, Serving
<1>. QED
  BY <1>1, <1>2 DEF Control, Fail

LEMMA SpawnMtlsKnown ==
    ASSUME Known, SpawnMtls
    PROVE  Known'
<1>1. CASE \E how : Exit(how)
  BY <1>1, ExitKnown
<1>2. CASE /\ task' = [task EXCEPT !["mtls"] = IF MtlsAbsent THEN @ ELSE "running"]
           /\ Advance
           /\ UNCHANGED <<launch, settings, database, health, work, ended, restarts>>
  <2>1. stage = "mtls" /\ stage' = "jetstream"
    BY <1>2, AfterStage DEF SpawnMtls, Advance
  <2>2. \A n : Present(n)' <=> Present(n)
    BY <1>2 DEF Present
  <2>3. MtlsAbsent' <=> MtlsAbsent
    BY <2>2 DEF MtlsAbsent
  <2>4. task["mtls"] = "off" /\ task["jetstream"] = "off"
    BY <2>1 DEF Known, PastMtls, PastJetStream
  <2>5. /\ task' \in [Transports -> {"off", "running", "ended"}]
        /\ task'["mtls"] # "off" <=> ~MtlsAbsent
        /\ task'["jetstream"] = "off"
    BY <1>2, <2>4 DEF Known, Transports
  <2>6. /\ stage' \in Stages /\ stage \in PastAuth /\ stage \in PastDatabase
        /\ stage' \in PastMtls /\ stage' \notin PastJetStream
        /\ stage' \notin {"control", "telemetry", "auth", "database", "serving", "draining"}
    BY <2>1 DEF Stages, PastAuth, PastDatabase, PastMtls, PastJetStream
  <2>. QED
    BY <1>2, <2>2, <2>3, <2>5, <2>6 DEF Known, Serving
<1>. QED
  BY <1>1, <1>2 DEF SpawnMtls, Fail

LEMMA SpawnJetStreamKnown ==
    ASSUME Known, SpawnJetStream
    PROVE  Known'
<1>1. CASE \E how : Exit(how)
  BY <1>1, ExitKnown
<1>2. CASE /\ ~(Present("NATS_URL") /\ ~JetStreamLoads)
           /\ task' = [task EXCEPT !["jetstream"] =
                           IF Present("NATS_URL") THEN "running" ELSE @]
           /\ Advance
           /\ UNCHANGED <<launch, settings, database, health, work, ended, restarts>>
  <2>1. stage = "jetstream" /\ stage' = "bind"
    BY <1>2, AfterStage DEF SpawnJetStream, Advance
  <2>2. \A n : Present(n)' <=> Present(n)
    BY <1>2 DEF Present
  <2>3. MtlsAbsent' <=> MtlsAbsent
    BY <2>2 DEF MtlsAbsent
  <2>4. task["jetstream"] = "off" /\ (task["mtls"] # "off" <=> ~MtlsAbsent)
    BY <2>1 DEF Known, PastMtls, PastJetStream
  <2>5. /\ task' \in [Transports -> {"off", "running", "ended"}]
        /\ task'["jetstream"] # "off" <=> Present("NATS_URL")
        /\ task'["mtls"] = task["mtls"]
    BY <1>2, <2>4 DEF Known, Transports
  <2>6. Present("NATS_URL") => database
    BY <1>2 DEF JetStreamLoads
  <2>7. /\ stage' \in Stages /\ stage \in PastAuth /\ stage \in PastDatabase
        /\ stage' \in PastMtls /\ stage' \in PastJetStream
        /\ stage' \notin {"control", "telemetry", "auth", "database", "serving", "draining"}
    BY <2>1 DEF Stages, PastAuth, PastDatabase, PastMtls, PastJetStream
  <2>. QED
    BY <1>2, <2>2, <2>3, <2>4, <2>5, <2>6, <2>7 DEF Known, Serving
<1>. QED
  BY <1>1, <1>2 DEF SpawnJetStream, Fail

LEMMA BindKnown ==
    ASSUME Known, Bind
    PROVE  Known'
<1>1. CASE Fail
  BY <1>1, ExitKnown DEF Fail
<1>2. CASE /\ health' = [l \in Transports |-> task[l] # "off"]
           /\ Advance
           /\ UNCHANGED <<launch, settings, database, task, work, ended, restarts>>
  <2>1. stage = "bind" /\ stage' = "serving"
    BY <1>2, AfterStage DEF Bind, Advance
  <2>2. \A n : Present(n)' <=> Present(n)
    BY <1>2 DEF Present
  <2>3. MtlsAbsent' <=> MtlsAbsent
    BY <2>2 DEF MtlsAbsent
  <2>4. /\ health' \in [Transports -> BOOLEAN]
        /\ \A l \in Transports : health'[l] <=> task'[l] # "off"
    BY <1>2, Zenon
  <2>5. /\ stage \in PastAuth /\ stage \in PastDatabase /\ stage \in PastMtls
        /\ stage \in PastJetStream /\ stage' \in PastJetStream /\ stage' \in Stages
        /\ stage' \in PastMtls
        /\ stage' \notin {"control", "telemetry", "auth", "database"}
    BY <2>1 DEF Stages, PastAuth, PastDatabase, PastMtls, PastJetStream
  <2>. QED
    BY <1>2, <2>2, <2>3, <2>4, <2>5 DEF Known
<1>. QED
  BY <1>1, <1>2 DEF Bind

LEMMA LaneEndsKnown ==
    ASSUME Known, NEW l \in Transports, LaneEnds(l)
    PROVE  Known'
<1>1. \A n : Present(n)' <=> Present(n)
  BY DEF LaneEnds, Present
<1>2. MtlsAbsent' <=> MtlsAbsent
  BY <1>1 DEF MtlsAbsent
<1>3. /\ task' \in [Transports -> {"off", "running", "ended"}]
      /\ \A k \in Transports : task'[k] # "off" <=> task[k] # "off"
  BY DEF LaneEnds, Known
<1>4. "mtls" \in Transports /\ "jetstream" \in Transports
  BY DEF Transports
<1>. QED
  BY <1>1, <1>2, <1>3, <1>4 DEF LaneEnds, Known, Serving

LEMMA InterruptKnown ==
    ASSUME Known, Interrupt
    PROVE  Known'
<1>1. CASE \E how : Exit(how)
  BY <1>1, ExitKnown
<1>2. CASE /\ stage = "serving"
           /\ stage' = "draining"
           /\ UNCHANGED <<launch, settings, database, task, health, work, ended, restarts>>
  <2>1. \A n : Present(n)' <=> Present(n)
    BY <1>2 DEF Present
  <2>2. MtlsAbsent' <=> MtlsAbsent
    BY <2>1 DEF MtlsAbsent
  <2>3. /\ stage \in PastAuth /\ stage \in PastDatabase /\ stage \in PastMtls
        /\ stage \in PastJetStream /\ stage' \in PastJetStream /\ stage' \in Stages
        /\ stage' \in PastMtls /\ Serving
        /\ stage' \notin {"control", "telemetry", "auth", "database"}
    BY <1>2 DEF Stages, PastAuth, PastDatabase, PastMtls, PastJetStream, Serving
  <2>. QED
    BY <1>2, <2>1, <2>2, <2>3 DEF Known
<1>. QED
  BY <1>1, <1>2 DEF Interrupt

LEMMA RestartKnown ==
    ASSUME Known, Restart
    PROVE  Known'
<1>1. task["mtls"] = "off" /\ task["jetstream"] = "off"
  BY DEF Known, Restart, PastMtls, PastJetStream
<1>2. /\ stage' \in Stages /\ stage' \notin PastAuth /\ stage' \notin PastDatabase
      /\ stage' \notin PastMtls /\ stage' \notin PastJetStream
      /\ stage' \notin {"serving", "draining"}
  BY DEF Restart, Stages, PastAuth, PastDatabase, PastMtls, PastJetStream
<1>. QED
  BY <1>1, <1>2, Zenon DEF Known, Restart, Serving

LEMMA NextKnown ==
    ASSUME Known, [Next]_vars
    PROVE  Known'
<1>1. CASE Control
  BY <1>1, ControlKnown
<1>2. CASE InitTelemetry
  <2>1. CASE Fail
    BY <2>1, ExitKnown DEF Fail
  <2>2. CASE ~Fail
    BY <1>2, <2>2, AdvanceKnown DEF InitTelemetry, Advance, Known
  <2>. QED
    BY <2>1, <2>2
<1>3. CASE LoadAuth
  <2>1. CASE Fail
    BY <2>1, ExitKnown DEF Fail
  <2>2. CASE ~Fail
    BY <1>3, <2>2, AdvanceKnown DEF LoadAuth, Advance, Known
  <2>. QED
    BY <2>1, <2>2
<1>4. CASE SkipDatabase
  BY <1>4, AdvanceKnown DEF SkipDatabase, Advance, Known
<1>5. CASE ConnectDatabase
  <2>1. Present("DATABASE_URL")
    BY <1>5 DEF ConnectDatabase, Good, Present
  <2>. QED
    BY <1>5, <2>1, AdvanceKnown DEF ConnectDatabase, Advance, Known
<1>6. CASE ConnectFails \/ Terminate \/ Shutdown
  BY <1>6, ExitKnown DEF ConnectFails, Fail, Terminate, Shutdown
<1>7. CASE SpawnMtls
  BY <1>7, SpawnMtlsKnown
<1>8. CASE SpawnJetStream
  BY <1>8, SpawnJetStreamKnown
<1>9. CASE Bind
  BY <1>9, BindKnown
<1>10. CASE Interrupt
  BY <1>10, InterruptKnown
<1>11. CASE Restart
  BY <1>11, RestartKnown
<1>12. CASE \E w \in Work : Take(w) \/ Finish(w)
  BY <1>12, WorkKnown DEF Take, Finish
<1>13. CASE \E l \in Transports : LaneEnds(l)
  BY <1>13, LaneEndsKnown
<1>14. CASE UNCHANGED vars
  BY <1>14, WorkKnown DEF vars
<1>. QED
  BY <1>1, <1>2, <1>3, <1>4, <1>5, <1>6, <1>7, <1>8, <1>9, <1>10, <1>11, <1>12, <1>13, <1>14
     DEF Next, StartupStep

LEMMA InitKnown ==
    Init => Known /\ RequestsServed
BY Zenon DEF Init, Known, RequestsServed, Unresolved, Transports, Stages, PastAuth, PastDatabase,
       PastMtls, PastJetStream, Serving

-----------------------------------------------------------------------------
(* Requests. *)

(* A step that neither takes work nor stops serving. *)
LEMMA IdleServed ==
    ASSUME RequestsServed, UNCHANGED work, Serving => Serving'
    PROVE  RequestsServed'
BY DEF RequestsServed

LEMMA CutServed ==
    ASSUME RequestsServed, NEW lanes, CutWork(lanes), UNCHANGED stage
    PROVE  RequestsServed'
BY DEF RequestsServed, CutWork, Serving

LEMMA NextServed ==
    ASSUME Known, RequestsServed, [Next]_vars
    PROVE  RequestsServed'
<1>1. CASE \E how : Exit(how)
  BY <1>1, ExitServed
<1>2. ASSUME UNCHANGED work, Advance
      PROVE  stage \in {"control", "telemetry", "auth", "database", "mtls", "jetstream", "bind"}
                => RequestsServed'
  BY <1>2, IdleServed DEF Serving
<1>3. CASE StartupStep \/ ConnectDatabase
  BY <1>1, <1>2, <1>3
     DEF StartupStep, Control, InitTelemetry, LoadAuth, SkipDatabase, ConnectDatabase,
         ConnectFails, SpawnMtls, SpawnJetStream, Bind, Fail
<1>4. CASE Interrupt
  BY <1>1, <1>4, IdleServed DEF Interrupt, Serving
<1>5. CASE Terminate \/ Shutdown
  BY <1>1, <1>5 DEF Terminate, Shutdown
<1>6. CASE Restart
  BY <1>6, IdleServed DEF Restart, Serving
<1>7. ASSUME NEW w \in Work, Take(w) \/ Finish(w)
      PROVE  RequestsServed'
  <2>1. CASE Take(w)
    <3>1. LaneOf[w] = "http" => Serving
      BY <2>1 DEF Take, Accepting, Transports, Serving
    <3>. QED
      BY <2>1, <3>1 DEF Take, RequestsServed, Serving
  <2>2. CASE Finish(w)
    BY <2>2 DEF Finish, RequestsServed, Serving
  <2>. QED
    BY <1>7, <2>1, <2>2
<1>8. CASE \E l \in Transports : LaneEnds(l)
  BY <1>8, CutServed DEF LaneEnds
<1>9. CASE UNCHANGED vars
  BY <1>9, IdleServed DEF vars, Serving
<1>. QED
  BY <1>3, <1>4, <1>5, <1>6, <1>7, <1>8, <1>9 DEF Next

LEMMA LifecycleInvariant ==
    Spec => [](Known /\ RequestsServed)
<1>1. Init => Known /\ RequestsServed
  BY InitKnown
<1>2. Known /\ RequestsServed /\ [Next]_vars => (Known /\ RequestsServed)'
  BY NextKnown, NextServed
<1>. QED
  BY <1>1, <1>2, PTL DEF Spec

-----------------------------------------------------------------------------
(* The rest of the state: how the process was started, how it ended, and   *)
(* how often its supervisor has started it again.                          *)
Started ==
    /\ launch \in Launches
    /\ ended \in {"no", "ok", "error", "interrupted", "terminated"}
    /\ restarts \in 0..MaxRestarts

LEMMA NextStarted ==
    ASSUME Started, [Next]_vars
    PROVE  Started'
<1>1. ASSUME NEW how \in {"ok", "error", "interrupted", "terminated"}, Exit(how)
      PROVE  Started'
  BY <1>1 DEF Started, Exit
<1>2. ASSUME UNCHANGED <<launch, ended, restarts>>
      PROVE  Started'
  BY <1>2 DEF Started
<1>3. CASE StartupStep \/ ConnectDatabase
  BY <1>1, <1>2, <1>3
     DEF StartupStep, Control, InitTelemetry, LoadAuth, SkipDatabase, ConnectDatabase,
         ConnectFails, SpawnMtls, SpawnJetStream, Bind, Fail
<1>4. CASE Interrupt \/ Terminate \/ Shutdown
  BY <1>1, <1>2, <1>4 DEF Interrupt, Terminate, Shutdown
<1>5. CASE Restart
  BY <1>5, LifecycleAssumption DEF Restart, Started
<1>6. CASE \/ \E w \in Work : Take(w) \/ Finish(w)
           \/ \E l \in Transports : LaneEnds(l)
           \/ UNCHANGED vars
  BY <1>2, <1>6 DEF Take, Finish, LaneEnds, vars
<1>. QED
  BY <1>3, <1>4, <1>5, <1>6 DEF Next

(* Every variable has its type, for every set of launches; the settings    *)
(* that resolve_from stores hold no null, and the start-up never leaves    *)
(* the stages of run.                                                      *)
THEOREM LifecycleTypeCorrect ==
    Spec => []TypeOK
<1>1. Init => Started
  BY LifecycleAssumption DEF Init, Started
<1>2. Spec => []Started
  BY <1>1, NextStarted, PTL DEF Spec
<1>3. ASSUME Known, RequestsServed, Started
      PROVE  TypeOK
  <2>1. Layer(settings)
    <3>1. Layer(Unresolved)
      BY DEF Layer, Unresolved
    <3>2. Layer(resolve_from(launch))
      BY <1>3, LifecycleAssumption, ResolvedTyped DEF Started
    <3>. QED
      BY <1>3, <3>1, <3>2 DEF Known
  <2>2. stage \in {Startup[i] : i \in DOMAIN Startup} \cup {"draining", "exited"}
    <3>1. /\ DOMAIN Startup = 1..8
          /\ Startup[1] = "control" /\ Startup[2] = "telemetry" /\ Startup[3] = "auth"
          /\ Startup[4] = "database" /\ Startup[5] = "mtls" /\ Startup[6] = "jetstream"
          /\ Startup[7] = "bind" /\ Startup[8] = "serving"
      BY DEF Startup
    <3>. QED
      BY <1>3, <3>1 DEF Known, Stages, PastAuth, PastDatabase, PastMtls, PastJetStream
  <2>. QED
    BY <1>3, <2>1, <2>2 DEF Known, RequestsServed, Started, TypeOK
<1>. QED
  BY <1>2, <1>3, LifecycleInvariant, PTL

(* Every setting that the process works with comes from the layer that the *)
(* documented order of resolve_from gives it, for every launch.            *)
THEOREM Settings ==
    Spec => []SettingsByPrecedence
<1>1. Known => SettingsByPrecedence
  <2>. SUFFICES ASSUME settings = resolve_from(launch)
                PROVE  SettingsByPrecedence
    BY DEF Known, SettingsByPrecedence
  <2>. QED
    BY Precedence DEF SettingsByPrecedence
<1>. QED
  BY <1>1, LifecycleInvariant, PTL

(* A process that serves HTTP has started every lane its settings mention, *)
(* has the database they name, and its health report says so.              *)
THEOREM Configured ==
    Spec => []ServesAsConfigured
<1>1. Known => ServesAsConfigured
  <2>. SUFFICES ASSUME Known, Serving
                PROVE  ServesAsConfigured
    BY DEF ServesAsConfigured
  <2>1. stage \in PastAuth /\ stage \in PastDatabase /\ stage \in PastMtls
        /\ stage \in PastJetStream
    BY DEF Serving, PastAuth, PastDatabase, PastMtls, PastJetStream
  <2>2. "mtls" \in Transports /\ "jetstream" \in Transports
    BY DEF Transports
  <2>3. ~MtlsAbsent <=> \E n \in MtlsNames : Present(n)
    BY DEF MtlsAbsent
  <2>. QED
    BY <2>1, <2>2, <2>3, Zenon DEF Known, ServesAsConfigured
<1>. QED
  BY <1>1, LifecycleInvariant, PTL

(* SIGINT, the end of a lane and a start that fails cut no HTTP request:   *)
(* the graceful shutdown of run waits for those that were taken.           *)
THEOREM RequestsSpared ==
    Spec => InterruptSparesRequests
<1>. DEFINE Spared == \A w \in Work :
                LaneOf[w] = "http" /\ work[w] = "active" /\ work'[w] = "cut"
                    => ended' = "terminated"
<1>1. ASSUME RequestsServed, [Next]_vars
      PROVE  Spared
  <2>. SUFFICES ASSUME NEW w \in Work, LaneOf[w] = "http", work[w] = "active",
                       work'[w] = "cut"
                PROVE  ended' = "terminated"
    OBVIOUS
  <2>1. Serving
    BY <1>1 DEF RequestsServed
  <2>2. ~StartupStep /\ ~ConnectDatabase /\ ~Restart
    BY <2>1 DEF Serving, StartupStep, Control, InitTelemetry, LoadAuth, SkipDatabase,
                ConnectDatabase, ConnectFails, SpawnMtls, SpawnJetStream, Bind, Restart
  <2>3. ~Interrupt
    BY <2>1 DEF Serving, Interrupt
  <2>4. ~Shutdown
    BY DEF Shutdown, InFlight
  <2>5. ASSUME NEW v \in Work
        PROVE  ~Take(v) /\ ~Finish(v)
    BY <1>1, <2>5 DEF Take, Finish, RequestsServed
  <2>6. ASSUME NEW l \in Transports
        PROVE  ~LaneEnds(l)
    BY DEF LaneEnds, CutWork
  <2>7. ~UNCHANGED vars
    BY DEF vars
  <2>8. Terminate
    BY <1>1, <2>2, <2>3, <2>4, <2>5, <2>6, <2>7 DEF Next
  <2>. QED
    BY <2>8 DEF Terminate, Exit
<1>2. Known /\ RequestsServed /\ [Next]_vars => [Spared]_vars
  BY <1>1
<1>. QED
  BY <1>2, LifecycleInvariant, PTL DEF Spec, InterruptSparesRequests

(* The lanes of the process behave as LaneTask says, which is what the     *)
(* model of the durable lane rests on.                                     *)
THEOREM LanesSpawnedOnce ==
    Spec => LaneTasksAsAssumed
<1>1. Init => Lanes!Init
  BY DEF Init, Lanes!Init
<1>2. ASSUME Known, [Next]_vars
      PROVE  [Lanes!Next]_task
  <2>1. CASE UNCHANGED task
    BY <2>1
  <2>2. ASSUME NEW how, Exit(how)
        PROVE  Lanes!ProcessExit(Transports)
    BY <2>2 DEF Exit, Lanes!ProcessExit
  <2>3. CASE \E how : Exit(how)
    <3>1. Transports \in SUBSET Transports
      OBVIOUS
    <3>. QED
      BY <2>2, <2>3, <3>1 DEF Lanes!Next
  <2>4. ASSUME NEW l \in Transports, task[l] = "off", task' = [task EXCEPT ![l] = "running"]
        PROVE  Lanes!Next
    BY <2>4, Zenon DEF Lanes!Next, Lanes!Spawn
  <2>5. CASE SpawnMtls
    <3>1. task["mtls"] = "off" /\ "mtls" \in Transports
      BY <1>2, <2>5 DEF SpawnMtls, Known, PastMtls, PastJetStream, Transports
    <3>2. \/ \E how : Exit(how)
          \/ task' = [task EXCEPT !["mtls"] = "running"]
          \/ task' = [task EXCEPT !["mtls"] = @]
      BY <2>5 DEF SpawnMtls, Fail
    <3>3. task' = [task EXCEPT !["mtls"] = @] => UNCHANGED task
      BY <1>2 DEF Known
    <3>. QED
      BY <2>1, <2>3, <2>4, <3>1, <3>2, <3>3
  <2>6. CASE SpawnJetStream
    <3>1. task["jetstream"] = "off" /\ "jetstream" \in Transports
      BY <1>2, <2>6 DEF SpawnJetStream, Known, PastJetStream, Transports
    <3>2. \/ \E how : Exit(how)
          \/ task' = [task EXCEPT !["jetstream"] = "running"]
          \/ task' = [task EXCEPT !["jetstream"] = @]
      BY <2>6 DEF SpawnJetStream, Fail
    <3>3. task' = [task EXCEPT !["jetstream"] = @] => UNCHANGED task
      BY <1>2 DEF Known
    <3>. QED
      BY <2>1, <2>3, <2>4, <3>1, <3>2, <3>3
  <2>7. CASE \E l \in Transports : LaneEnds(l)
    BY <2>7, Zenon DEF LaneEnds, Lanes!Next, Lanes!End
  <2>8. CASE \/ Control \/ InitTelemetry \/ LoadAuth \/ SkipDatabase \/ ConnectFails
             \/ ConnectDatabase \/ Bind
    BY <2>1, <2>3, <2>8
       DEF Control, InitTelemetry, LoadAuth, SkipDatabase, ConnectFails, ConnectDatabase,
           Bind, Fail
  <2>9. CASE \/ Interrupt \/ Terminate \/ Shutdown \/ Restart \/ UNCHANGED vars
             \/ \E w \in Work : Take(w) \/ Finish(w)
    BY <2>1, <2>3, <2>9 DEF Interrupt, Terminate, Shutdown, Restart, vars, Take, Finish
  <2>. QED
    BY <1>2, <2>5, <2>6, <2>7, <2>8, <2>9 DEF Next, StartupStep
<1>. QED
  BY <1>1, <1>2, LifecycleInvariant, PTL DEF Spec, LaneTasksAsAssumed, Lanes!Spec
=============================================================================
