------------------------------ MODULE StackEnv ------------------------------
(***************************************************************************)
(* src/itestkit: how a test finds its stack. StartStack flattens the       *)
(* resources into an AppTestConfig, keyed by name; ExportEnv names an      *)
(* environment variable for each, in the random order of Go maps, and      *)
(* ApplyEnv writes them into the environment of the process, where two     *)
(* tests may run at a time and nothing is taken back.                      *)
(***************************************************************************)
EXTENDS Naturals, Sequences, FiniteSets, SequencesExt, Maps

CONSTANTS
    InstanceNames,  (* names that validateOptions accepts, as tokens        *)
    MaxInstances    (* instances of a stack: bounds the model               *)

Tokens == {"x", "http", "-", "_"}

ASSUME InstanceNamesAssumption == InstanceNames \subseteq Seq(Tokens)
ASSUME MaxInstancesAssumption == MaxInstances \in Nat

VARIABLES
    instances,  (* the options of both stacks: their instances              *)
    config,     (* Config of a stack                                        *)
    unexported, (* the instances ExportEnv has not visited                  *)
    exported,   (* its result                                               *)
    applied,    (* where a stack's ApplyEnv stands                          *)
    env,        (* the environment of the process                           *)
    (* History, read by the properties alone.                               *)
    last        (* the stacks that were the last to apply, two if at a time *)

exportVars == <<unexported, exported>>
envVars == <<instances, config, exportVars, applied, env, last>>

Stacks == {1, 2}
(* The variables of a kind end on its fields.                              *)
Fields(kind) ==
    CASE kind = "POSTGRES" -> {<<"DSN">>}
      [] kind = "CLICKHOUSE" -> {<<"DSN">>, <<"HTTP", "_", "DSN">>}
      [] kind = "REDIS" -> {<<"ADDR">>, <<"URL">>}
      [] kind = "KAFKA" -> {<<"BROKERS">>}
      [] kind = "HTTPMOCK" -> {<<"BASE_URL">>}
      [] kind = "LOCALSTACK" -> {<<"ENDPOINT">>, <<"REGION">>, <<"ACCESS_KEY_ID">>, <<"SECRET_ACCESS_KEY">>}

Kinds == {"POSTGRES", "CLICKHOUSE", "REDIS", "KAFKA", "HTTPMOCK", "LOCALSTACK"}
Instances == [kind : Kinds, name : InstanceNames]

(* A connection string says where it came from.                            *)
Value(s, i, field) == [stack |-> s, kind |-> i.kind, name |-> i.name, field |-> field]
Connections == UNION {{Value(s, i, f) : f \in Fields(i.kind)} : s \in Stacks, i \in Instances}
Nothing == [stack |-> 0, kind |-> "", name |-> <<>>, field |-> <<>>]

EnvTypeOK ==
    /\ instances \subseteq Instances /\ Cardinality(instances) <= MaxInstances
    /\ applied \in [Stacks -> {"no", "starting", "exporting", "exported", "yes"}]
    /\ \A s \in Stacks : unexported[s] \subseteq instances /\ Range(exported[s]) \subseteq Connections
    /\ \A s \in Stacks : Range(config[s]) \subseteq Connections
    /\ Range(env) \subseteq Connections
    /\ last \subseteq Stacks

EnvInit ==
    /\ instances = {}
    /\ config = [s \in Stacks |-> <<>>]
    /\ unexported = [s \in Stacks |-> {}]
    /\ exported = [s \in Stacks |-> <<>>]
    /\ applied = [s \in Stacks |-> "no"]
    /\ env = <<>>
    /\ last = {}

-----------------------------------------------------------------------------
(* Names                                                                   *)

EnvFragment(name) ==
    [i \in DOMAIN name |-> CASE name[i] = "x" -> "X" [] name[i] = "http" -> "HTTP" [] OTHER -> "_"]

(* "CLICKHOUSE_X_HTTP_DSN", and the like                                   *)
Variable(i, field) == <<i.kind, "_">> \o EnvFragment(i.name) \o <<"_">> \o field

(* A configuration is keyed by the name as it is, for each field.          *)
ByFragment(i, field) == <<i.kind, EnvFragment(i.name), field>>
ConfigKey(i, field) == <<i.kind, i.name, field>>

(* What instance i of stack s adds to the result of ExportEnv.             *)
Variables(i) == {Variable(i, f) : f \in Fields(i.kind)}
Adds(s, i) ==
    [v \in Variables(i) |-> Value(s, i, CHOOSE f \in Fields(i.kind) : Variable(i, f) = v)]

-----------------------------------------------------------------------------

Resources == UNION {{<<i, f>> : f \in Fields(i.kind)} : i \in instances}

buildAppTestConfig(s) ==
    [k \in {ConfigKey(r[1], r[2]) : r \in Resources} |->
        LET r == CHOOSE r \in Resources : ConfigKey(r[1], r[2]) = k IN Value(s, r[1], r[2])]

PostgresDSN(s, i, field) ==
    IF ConfigKey(i, field) \in DOMAIN config[s] THEN config[s][ConfigKey(i, field)] ELSE Nothing

(* Both tests use the same options.                                        *)
GiveOptions ==
    /\ instances = {}
    /\ \E n \in 1..MaxInstances : instances' \in kSubset(n, Instances)
    /\ applied' = [s \in Stacks |-> "starting"]
    /\ UNCHANGED <<config, exportVars, env, last>>

StartStack(s) ==
    /\ applied[s] = "starting"
    /\ config' = [config EXCEPT ![s] = buildAppTestConfig(s)]
    /\ unexported' = [unexported EXCEPT ![s] = instances]
    /\ applied' = [applied EXCEPT ![s] = "exporting"]
    /\ UNCHANGED <<instances, exported, env, last>>

(* One turn of a loop: an instance overwrites what is there.               *)
ExportEnv(s, i) ==
    /\ applied[s] = "exporting" /\ i \in unexported[s]
    /\ exported' = [exported EXCEPT ![s] = Over(Adds(s, i), @)]
    /\ unexported' = [unexported EXCEPT ![s] = @ \ {i}]
    /\ applied' = IF unexported[s] = {i} THEN [applied EXCEPT ![s] = "exported"] ELSE applied
    /\ UNCHANGED <<instances, config, env, last>>

ApplyEnv(s) ==
    /\ applied[s] = "exported"
    /\ env' = Over(exported[s], env)
    /\ applied' = [applied EXCEPT ![s] = "yes"]
    /\ last' = {s}
    /\ UNCHANGED <<instances, config, exportVars>>

(* Of two loops at a time, either may set a variable last.                 *)
ApplyEnvTogether ==
    /\ \A s \in Stacks : applied[s] = "exported"
    /\ \E latest \in [DOMAIN exported[1] -> Stacks] :
          env' = Over([v \in DOMAIN exported[1] |-> exported[latest[v]][v]], env)
    /\ applied' = [s \in Stacks |-> "yes"]
    /\ last' = Stacks
    /\ UNCHANGED <<instances, config, exportVars>>

EnvNext ==
    \/ GiveOptions
    \/ \E s \in Stacks :
          \/ StartStack(s) \/ ApplyEnv(s)
          \/ \E i \in instances : ExportEnv(s, i)
    \/ ApplyEnvTogether

EnvSpec == EnvInit /\ [][EnvNext]_envVars

-----------------------------------------------------------------------------
(* Properties                                                              *)

(* Two names that differ by dash and underscore alone share all variables  *)
(* of their kind; and the native DSN of a ClickHouse x-http is named like  *)
(* the HTTP DSN of x.                                                      *)
Same(n, m) ==
    /\ Len(n) = Len(m)
    /\ \A k \in DOMAIN n : n[k] = m[k] \/ {n[k], m[k]} \subseteq {"-", "_"}
Shared(i, f) ==
    \E j \in instances \ {i} : j.kind = i.kind /\
        \/ Same(i.name, j.name)
        \/ i.kind = "CLICKHOUSE" /\ f = <<"DSN">> /\ Same(i.name, j.name \o <<"-", "http">>)
        \/ i.kind = "CLICKHOUSE" /\ f # <<"DSN">> /\ Same(j.name, i.name \o <<"-", "http">>)

(* Wherever a test reads its connections, they are its own. The Config of  *)
(* a started stack answers for each of its instances, whatever the names,  *)
(* and for no other (result.go:104-106). The environment has a value for   *)
(* each field of each instance after one ApplyEnv (env.go:11-13, 55-56):   *)
(* that of the stack that applied last, of one of the two if they met; and *)
(* of that very instance, unless another one shares its variable.          *)
ConnectionsAreOnesOwn ==
    /\ \A s \in Stacks : applied[s] \in {"exporting", "exported", "yes"} =>
          \A i \in Instances : \A f \in Fields(i.kind) :
              PostgresDSN(s, i, f) = IF i \in instances THEN Value(s, i, f) ELSE Nothing
    /\ last # {} => \A i \in instances : \A f \in Fields(i.kind) :
          /\ Variable(i, f) \in DOMAIN env
          /\ env[Variable(i, f)].stack \in last
          /\ ~Shared(i, f) => \E s \in last : env[Variable(i, f)] = Value(s, i, f)

=============================================================================
