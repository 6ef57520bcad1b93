------------------------------ MODULE Startup -------------------------------
(***************************************************************************)
(* What Notificator does in one step: start_server (lib.rs) reads its      *)
(* configuration (config.rs), connects (rabbit/r2d2.rs), opens the channel *)
(* of the error queues and declares them                                   *)
(* (transactions_publisher.rs, init), opens three consumer channels and    *)
(* subscribes to the work queues (transactions_consumer.rs), and only then *)
(* spawns the tasks.  Every step that fails ends the process (unwrap,      *)
(* expect).  Several instances start independently, and the broker keeps   *)
(* what is durable.                                                        *)
(*                                                                         *)
(* The seven declarations of init are the members of one join_all and      *)
(* travel on one channel, which the broker handles in order.  The three    *)
(* subscriptions are the members of another, on a channel each, and        *)
(* interleave.                                                             *)
(***************************************************************************)
EXTENDS Naturals, Sequences, FiniteSets, Configuration

CONSTANTS
  Instances,  \* processes running `server`
  Sources,    \* what the layers of the configuration may give
  MaxFaults   \* bound: failed steps, crashes, connections that fall silent

ASSUME StartupAssumption ==
  MaxFaults \in Nat /\ Sources \subseteq [Layers -> SUBSET Settings]

WorkQueues == {"pushes", "callbacks", "emails"}

ErrorQueues == {"error_callbacks", "error_emails", "error_pushes"}

Exchange == "notifications"

Declare(x) == [op |-> "declare", what |-> x]
Bind(q) == [op |-> "bind", what |-> q]

Declaration ==
  {Declare(x) : x \in ErrorQueues \cup {Exchange}} \cup {Bind(q) : q \in ErrorQueues}

\* Mutant: the name of a queue is misspelt.
MisspeltQueue ==
  <<Declare(Exchange),
    Declare("error_callback"), Bind("error_callbacks"),
    Declare("error_emails"), Bind("error_emails"),
    Declare("error_pushes"), Bind("error_pushes")>>

\* f1 ... f7 of TransactionPublisherImpl::init.
Declarations ==
  <<Declare(Exchange),
    Declare("error_callbacks"), Bind("error_callbacks"),
    Declare("error_emails"), Bind("error_emails"),
    Declare("error_pushes"), Bind("error_pushes")>>

VARIABLES
  sources,   \* what the layers of the configuration give
  config,    \* per instance: the layer every setting is from
  silent,    \* instances whose connection the broker does not serve (any more)
  stage,     \* per instance: see Stages
  todo,      \* per instance: declarations on their way to the broker
  channels,  \* per instance: work queues whose channel is open, qos applied
  queues,    \* per instance: work queues it has declared in this life
  consuming, \* per instance: work queues it consumes from
  declared,  \* durable exchanges and queues of the broker
  bound,     \* error queues bound to the exchange
  faults     \* faults so far

startupVars ==
  <<sources, config, silent, stage, todo, channels, queues, consuming,
    declared, bound, faults>>

configVars == <<sources, config, silent>>

\* "configured": get_config has returned; "prepared": logger and clients are
\* there; "declaring": init runs; "subscribing": the publisher is there;
\* "running": the tasks are spawned.
Stages ==
  {"starting", "configured", "prepared", "connected", "declaring",
   "subscribing", "running", "down"}

StartupTypeOK ==
  /\ sources \in Sources
  /\ config \in [Instances -> [Settings -> Layers \cup {"none"}]]
  /\ silent \subseteq Instances
  /\ stage \in [Instances -> Stages]
  /\ todo \in [Instances -> Seq(Declaration)]
  /\ channels \in [Instances -> SUBSET WorkQueues]
  /\ queues \in [Instances -> SUBSET WorkQueues]
  /\ consuming \in [Instances -> SUBSET WorkQueues]
  /\ declared \subseteq WorkQueues \cup ErrorQueues \cup {Exchange}
  /\ bound \subseteq ErrorQueues
  /\ faults \in 0..MaxFaults

\* The broker may be new or may know what earlier instances declared.
StartupInit ==
  /\ sources \in Sources
  /\ config = [i \in Instances |-> Unset]
  /\ silent = {}
  /\ stage = [i \in Instances |-> "starting"]
  /\ todo = [i \in Instances |-> <<>>]
  /\ channels = [i \in Instances |-> {}]
  /\ queues = [i \in Instances |-> {}]
  /\ consuming = [i \in Instances |-> {}]
  /\ \/ declared = {} /\ bound = {}
     \/ declared = WorkQueues \cup ErrorQueues \cup {Exchange} /\ bound = ErrorQueues
  /\ faults = 0

Goto(i, s) == stage' = [stage EXCEPT ![i] = s]

-----------------------------------------------------------------------------
\* The process is gone and with it its channels and consumers.  Declarations
\* it had sent may still be handled: left out, for the broker only learns more
\* by them, and nobody waits for their end.
GoDown(i) ==
  /\ Goto(i, "down")
  /\ config' = [config EXCEPT ![i] = Unset]
  /\ silent' = silent \ {i}
  /\ todo' = [todo EXCEPT ![i] = <<>>]
  /\ channels' = [channels EXCEPT ![i] = {}]
  /\ queues' = [queues EXCEPT ![i] = {}]
  /\ consuming' = [consuming EXCEPT ![i] = {}]
  /\ UNCHANGED <<sources, declared, bound>>

\* get_config: an error panics.
Configure(i) ==
  /\ stage[i] = "starting" /\ Accepted(sources)
  /\ Goto(i, "configured")
  /\ config' = [config EXCEPT ![i] = Merged(sources)]
  /\ UNCHANGED <<sources, silent, todo, channels, queues, consuming, declared, bound, faults>>

ConfigFails(i) ==
  /\ stage[i] = "starting" /\ ~Accepted(sources)
  /\ GoDown(i) /\ UNCHANGED faults

\* Sentry, the logger with its file and its socket, the HTTP client with its TLS
\* identity and the three clients over it: each unwraps, which is a Fail.
Prepare(i) ==
  /\ stage[i] = "configured"
  /\ Goto(i, "prepared")
  /\ UNCHANGED <<configVars, todo, channels, queues, consuming, declared, bound, faults>>

\* RabbitConnectionManager::create: TCP, the AMQP handshake, the heartbeat.  The
\* name of the broker is looked up first, blocking and outside of the Timeout;
\* the lookup is taken to end, and a failed one is a Fail.
Connect(i) ==
  /\ stage[i] = "prepared" /\ i \notin silent
  /\ Goto(i, "connected")
  /\ UNCHANGED <<configVars, todo, channels, queues, consuming, declared, bound, faults>>

\* Mutant: the connection is awaited without a Timeout.
ConnectWaits(i) ==
  stage[i] = "prepared" /\ i \in silent /\ UNCHANGED startupVars

\* connection_timeout_secs have passed: the error is unwrapped.
ConnectTimesOut(i) ==
  /\ stage[i] = "prepared" /\ i \in silent
  /\ GoDown(i) /\ UNCHANGED faults

\* get_channel for the publisher; init sends its declarations.
OpenErrorChannel(i) ==
  /\ stage[i] = "connected" /\ i \notin silent
  /\ Goto(i, "declaring")
  /\ todo' = [todo EXCEPT ![i] = Declarations]
  /\ UNCHANGED <<configVars, channels, queues, consuming, declared, bound, faults>>

\* The broker handles the next declaration of i.  Declaring what is there is
\* no error.  Binding what is not there would be one, and init would fail in
\* every life of the process; here nothing more would happen.
BrokerDeclares(i) ==
  /\ stage[i] = "declaring" /\ todo[i] # <<>> /\ i \notin silent
  /\ LET d == Head(todo[i]) IN
       \/ /\ d.op = "declare"
          /\ declared' = declared \cup {d.what} /\ UNCHANGED bound
       \/ /\ d.op = "bind" /\ {d.what, Exchange} \subseteq declared
          /\ bound' = bound \cup {d.what} /\ UNCHANGED declared
  /\ todo' = [todo EXCEPT ![i] = Tail(@)]
  /\ UNCHANGED <<configVars, stage, channels, queues, consuming, faults>>

\* Mutant: init does not wait for its declarations.
InitAtOnce(i) ==
  /\ stage[i] = "declaring"
  /\ Goto(i, "subscribing")
  /\ UNCHANGED <<configVars, todo, channels, queues, consuming, declared, bound, faults>>

\* join_all resolves when all seven are done: the publisher is there.
InitDone(i) ==
  /\ stage[i] = "declaring" /\ todo[i] = <<>>
  /\ Goto(i, "subscribing")
  /\ UNCHANGED <<configVars, todo, channels, queues, consuming, declared, bound, faults>>

\* TransactionConsumerImpl::get_channel: the channels are opened one after
\* the other, with `wait`, before the first subscription is polled.
OpenChannel(i, q) ==
  /\ stage[i] = "subscribing" /\ q \notin channels[i] /\ i \notin silent
  /\ channels' = [channels EXCEPT ![i] = @ \cup {q}]
  /\ UNCHANGED <<configVars, stage, todo, queues, consuming, declared, bound, faults>>

\* subscribe_for_currency: queue_declare ...
DeclareWorkQueue(i, q) ==
  /\ stage[i] = "subscribing" /\ channels[i] = WorkQueues
  /\ q \notin queues[i] /\ i \notin silent
  /\ queues' = [queues EXCEPT ![i] = @ \cup {q}]
  /\ declared' = declared \cup {q}
  /\ UNCHANGED <<configVars, stage, todo, channels, consuming, bound, faults>>

\* ... and then basic_consume: deliveries may arrive from here on, and wait
\* in the Consumer stream.
Consume(i, q) ==
  /\ stage[i] = "subscribing" /\ q \in queues[i] \ consuming[i] /\ i \notin silent
  /\ consuming' = [consuming EXCEPT ![i] = @ \cup {q}]
  /\ UNCHANGED <<configVars, stage, todo, channels, queues, declared, bound, faults>>

\* All subscriptions are there: rt.spawn of the tasks and of the API server.
SpawnTasks(i) ==
  /\ stage[i] = "subscribing" /\ consuming[i] = WorkQueues
  /\ Goto(i, "running")
  /\ UNCHANGED <<configVars, todo, channels, queues, consuming, declared, bound, faults>>

\* A step fails and `unwrap` / `expect` panics; or the process is killed, before
\* or after it has started.
Fail(i) ==
  /\ stage[i] # "down" /\ faults < MaxFaults
  /\ faults' = faults + 1
  /\ GoDown(i)

\* The container is started again.
Restart(i) ==
  /\ stage[i] = "down"
  /\ Goto(i, "starting")
  /\ UNCHANGED <<configVars, todo, channels, queues, consuming, declared, bound, faults>>

\* The broker accepts the connection but does not answer on it (any more).
FallsSilent(i) ==
  /\ stage[i] \in {"prepared", "connected", "declaring", "subscribing"}
  /\ i \notin silent /\ faults < MaxFaults
  /\ faults' = faults + 1
  /\ silent' = silent \cup {i}
  /\ UNCHANGED <<sources, config, stage, todo, channels, queues, consuming, declared, bound>>

\* What an instance does at startup, and the broker for it.
StartupStep(i) ==
  \/ Configure(i) \/ ConfigFails(i) \/ Prepare(i) \/ Connect(i) \/ ConnectTimesOut(i)
  \/ OpenErrorChannel(i) \/ BrokerDeclares(i) \/ InitDone(i)
  \/ \E q \in WorkQueues : OpenChannel(i, q) \/ DeclareWorkQueue(i, q) \/ Consume(i, q)
  \/ SpawnTasks(i) \/ Restart(i)

StartupNext == \E i \in Instances : StartupStep(i) \/ Fail(i) \/ FallsSilent(i)

StartupSpec == StartupInit /\ [][StartupNext]_startupVars

\* The broker answers on connections that are not silent, timers fire, and a
\* container that exited is started again.
FairStartupSpec ==
  StartupSpec /\ \A i \in Instances : WF_startupVars(StartupStep(i))

-----------------------------------------------------------------------------
(***************************************************************************)
(* When an instance has anything that could be published to an error queue *)
(* - it consumes, so a handler may soon run - the exchange and the queue   *)
(* are there and bound.  basic_publish is not mandatory: without them the  *)
(* broker would confirm and drop the error message.                        *)
(***************************************************************************)
ErrorsAreRoutable ==
  \A i \in Instances : consuming[i] # {} =>
    Exchange \in declared /\ ErrorQueues \subseteq declared /\ bound = ErrorQueues

Rank == [base |-> 1, mode |-> 2, secret |-> 3, environment |-> 4]

(***************************************************************************)
(* Whoever works on the broker runs with every setting from the strongest  *)
(* layer that gives it: a secret is not undone by the file of the mode,    *)
(* which gives an empty key in config/development.toml.                    *)
(***************************************************************************)
StrongestLayerWins ==
  \A i \in Instances, s \in Settings :
    stage[i] \notin {"starting", "down"} =>
      LET givers == {l \in Layers : s \in sources[l]} IN
        IF givers = {} THEN s \in Optional
        ELSE /\ config[i][s] \in givers
             /\ \A l \in givers : Rank[l] <= Rank[config[i][s]]

\* Every required setting is given somewhere.
Complete == Required \subseteq UNION {sources[l] : l \in Layers} /\ sources["base"] # {}

\* Opening a channel, declaring and subscribing are awaited for ever.
Hangs(i) == i \in silent /\ stage[i] \in {"connected", "declaring", "subscribing"}

(***************************************************************************)
(* Whatever fails on the way, and whichever instance is faster, every      *)
(* instance runs in the end: no half-done startup of one instance makes    *)
(* that of another, or the next one, fail, and a connection that cannot be *)
(* made is given up in time.  Two things stop it: a setting that is given  *)
(* nowhere, as several are with the k8s files alone, and a broker that     *)
(* falls silent between the handshake and the last subscription.           *)
(***************************************************************************)
EventuallyRuns ==
  \A i \in Instances :
    IF Complete THEN <>[](stage[i] = "running" \/ Hangs(i)) ELSE []<>(stage[i] = "down")
=============================================================================
