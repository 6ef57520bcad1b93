# Verification of payments-notifications

TLA+ models of the notification service, TLC configurations that check them on
small instances, and TLAPS proofs of the main results for every instance.
Source paths are relative to the repository, e.g. `src/lib.rs`; in
`PROJECT.json` they carry the prefix `src/` of the directory that holds it.

## 1. The system

Other services publish notifications to three RabbitMQ work queues, `pushes`,
`callbacks` and `emails`. One process (`payments-notifications server`) takes
them off the queues and delivers them: callbacks as signed HTTP requests to the
URL in the notification, e-mails through SendGrid. What cannot be delivered is
meant to end in `error_callbacks` or `error_emails`. The process keeps nothing:
all state that outlives it is in the broker and at the remote services.

| component | state | operations | interacts with |
|---|---|---|---|
| consumer tasks, `src/lib.rs` `start_server` | one `for_each` future per work queue | poll the stream, run the handler inside a `Timeout`, ack, nack after 1 s, end on an error | broker, handlers |
| handlers, `src/services/rabbit.rs` | position in the list of 11 delays | `handle_message`, `send_email`, `send_callback`, `parse` | HTTP clients, publisher |
| publisher, `src/rabbit/transactions_publisher.rs` | a channel | `init` (declare and bind), `error_callbacks`, `error_emails` | broker |
| subscriptions, `src/rabbit/transactions_consumer.rs` | a channel per queue | declare, consume | broker |
| connection manager, `src/rabbit/r2d2.rs` | one connection, a heartbeat task | `create`, `get_channel` (confirm mode, prefetch 1) | broker |
| HTTP clients, `src/client` | none | `send` of callbacks and e-mails, `push_notify`, over `HttpClient::request` | remote services |
| keys and signatures, `src/utils.rs` | none | `parse_hex`, `to_hex` | callback client |
| errors and log, `src/macros.rs`, `src/utils.rs`, `*/error.rs` | contexts of an error | `ectx!`, conversion between the modules' kinds, `format_error` | every component |
| API server, `src/api` | one task per connection | answers 404, or 500 when the body breaks off | keeps the process alive |
| configuration, `src/config.rs` | read once | four layers merged, required settings checked | startup |
| amounts, `src/models/amount.rs` | none | NUMERIC to `u128` and back | used by nobody yet |
| logging, Sentry | sinks | initialised once | startup |

Hard to test here:

* **settling**: who holds a delivery at every moment, seen by the broker and by
  the task, through timeouts, crashes, lost connections and a second instance
  during a rollout; the nack names no delivery but everything outstanding;
* **abandoned work**: the Timeout drops a future whose request or publication
  is under way and may still take effect;
* **swallowed errors**: several errors become `Ok` and the notification is
  acked all the same;
* **time**: the retry loop needs 4094 s, its Timeout is configured to 30 s;
* **the end of a task**: nothing subscribes again after a lost connection;
* **startup**: declarations of several instances interleave, and fail half-way;
  the broker may stop answering where nothing has a timeout;
* **the end of a process**: it exits only when no task is left on its runtime,
  and several kinds of task can stay for ever;
* **what a log tells**: an error crosses four types before it is printed.

What makes each part correct, and where it is stated:

* tasks: settle only what they hold (`SettlesWhatItHolds`), never handle one
  notification twice at a time (`OneHandler`), keep the order of a queue
  (`InOrder`), discharge it in the end (`EventuallyDischarged`);
* handlers: nothing is acked before its fate is known (`NoSilentLoss`), and each
  loss has a swallowed error of its own (`LossesHaveCauses`); no success is
  repeated without a reason (`CleanOnce`), and each repetition has a fault of its
  own (`RepetitionsHaveCauses`); every handler ends
  (`HandlerEnds`), and its attempts fit the timeout (`AttemptsFit`);
* the whole service: the promise of `NotificationLedger` (`ImplementsLedger`);
* HTTP clients: which answers are a success (`SuccessIsProcessed`,
  `LogLevelIsHarmless`), nothing unsigned leaves (`OnlySignedLeaves`) and
  nothing that left is called malformed (`MalformedIsUnsent`);
* keys: the signature is made with the digits of the configured key
  (`KeyDigitsSign`), also where that is not the key that was meant
  (`PrefixedKeyIsAnotherKey`);
* errors: the log says what went wrong first, and what the loop was told
  (`LogTellsTheCause`);
* startup: error queues exist before anything can fail into them
  (`ErrorsAreRoutable`), the configuration is merged in its order
  (`StrongestLayerWins`), and every instance runs in the end (`EventuallyRuns`);
* the process: an outage heals itself under certain conditions (`OutageHeals`)
  and only under them (`ExitsOnlyWhenIdle`); API requests are answered
  (`RequestsAnswered`);
* amounts: round trip, and exact or refused (`RoundTrip`, `ExactOrError`).

`PROJECT.json` lists the hazards at their lines with these properties.

## 2. Modules

    RabbitBroker          the broker, external: queues, channels, frames
      Notificator         tasks, handlers, remote services, faults
        NotificatorProofs       types, safety invariants, the ledger, the loop
        NotificatorOutcomes     order, poison and repetition
        MCNotificator           instances for TLC (five configurations)
    NotificationLedger    what the service promises (abstract)
    RetryLoop             what a task does with its deliveries (abstract, untimed)
    RetryTiming           the retry loop and its Timeout, in seconds
      RetryTimingProofs
    SeqFilter             Iterator::filter
      ErrorChain            an error from its cause to the log
      HexCodec              parse_hex and to_hex
      HttpDelivery        one HTTP attempt, from the key to the line in the log
        HttpDeliveryProofs
    Configuration         the layers of settings
      Startup             start_server up to the first poll
        StartupProofs
    ProcessLifecycle      the tasks of a process, its API, its end
      ProcessLifecycleProofs
    AmountCodec           NUMERIC <-> u128
      AmountCodecProofs
    SequenceLemmas        induction, filters and recursive functions

`HttpDelivery` and `AmountCodec` have an MC module with their instances, as have
`RetryTiming`, `Startup` and `ProcessLifecycle`.

### RabbitBroker and Notificator

`RabbitBroker` offers action fragments (deliver, apply ack, apply nack, close
channels) over the broker's state; `Notificator` composes them with the tasks.
A task (one per instance and work queue) is in one of seven phases, which are
the suspension points of the future built in `start_server`:

| phase | code |
|---|---|
| `idle` | `stream.for_each` polls the consumer |
| `sending` | `callback_client.send` / `email_client.send` is pending |
| `waiting` | the `Delay` after a failed attempt |
| `publishing` | `publisher.error_callbacks` / `error_emails` is pending |
| `acking` | `handle_message` was Ok; `basic_ack` |
| `failed` | it was Err or timed out; `Delay(DELAY_BEFORE_NACK)`, `basic_nack(0, true, true)` |
| `ended` | the `for_each` future is resolved, or there is no process |

`cur`, `tries` and `req` are the delivery, the position in the list of delays
and the fate of the request in flight. Between two suspension points the code
runs to completion, so each is one action. E-mails and callbacks run the
same loop; `pushes` are acknowledged unread (`handle_message`, line 45).

The fault model is the set `FaultKinds`, each with a budget: the handler's
Timeout elapses, the process ends, the connection is lost, the broker restarts,
the broker refuses a publication, a timer fails, a remote service does the work
but its answer is unusable. A refusal costs nothing. After a lost connection
the tasks go on with what they have: they are the "zombies" a second instance
overlaps with. A request abandoned by a Timeout or a crash becomes `stray` and
a publication `late`, and both may take effect at any later time.

History variables carry the properties. `accepts` counts how often the remote
side processed a notification, `excused` holds what a swallowed error gave up,
`hits` counts the faults that allow a repetition of it: a timeout, an unusable
answer, or a crash, a lost connection or a broker restart while it was
outstanding. `Disturbed` is what was hit at least once. No guard of a code action
reads them.

Errors the code swallows are modelled as such, and named where they happen:
`PublishDone` (a failed or refused publication), `RetryTimerFails` (a timer
error looks like a success), `BrokerRestart` (error messages are transient).
`NoSilentLoss` therefore reads: nothing is lost *except* there. What the
exceptions add up to is a property of its own, `LossesHaveCauses`, which does not
look at `excused`: without a broker restart no more notifications are gone,
neither processed nor parked, than publications were refused and timers failed.

In the same way `CleanOnce` speaks of undisturbed notifications only, and is about
the retry loop: it ends with the first success and nothing sends again. Of the
disturbed ones `RepetitionsHaveCauses` says that each further processing has a
fault of its own, with a zombie of an old connection, an abandoned request and
the handler of a redelivery all at work on one notification. `OneHandler` speaks
of live connections: that a zombie handles what another instance has been given
is what the code does, and `LostConnectionEndsTasks` says that it comes to an end.

A consumer's channel gets its queue through `Subscribed`: `subscribe` opens a
channel for each name and hands the name on.

### NotificationLedger

Pending, accepted, parked, excused, discharged. `ImplementsLedger` maps
`pending` to what is ready or outstanding at the broker, `parked` to the error
queues, `accepted` to what was processed at least once. It adds to
`NoSilentLoss` that every step is allowed: a discharged notification never
comes back, and the fate precedes the discharge.

### RetryLoop

The phases of one task and the position in its list of delays, nothing else.
`Notificator` and `RetryTiming` both implement it: `TasksRunTheLoop` maps each task
of the first (parameterised instance `Loop(c)`; a task that is not there is at
rest), `RunsTheLoop` the one task of the second. It is what the two views of the
handler, with faults and without time or the other way round, have in common.

### RetryTiming

Time in seconds since `handle_message` was called, requests of any latency or
none, the `Timeout` of line 135 checked after the handler as tokio does it.
`restart_subscription_secs` is the only thing that bounds a handler; in spite
of its name nothing restarts a subscription. With the configured 30 s and the
delays 2, 4, ..., 2048 `ParkingNeedsTime` says that the error queues are never
written, and `AttemptsFit` that the fifth attempt (30 s of delays before it) is
the last that can begin. A publication that fails ends the handler just like one
that is stored (`Published`), only without an error message.

### HttpDelivery, HexCodec, ErrorChain

What becomes of one attempt of a callback, an e-mail or a push. It grounds the
three ends of a request in Notificator: `RemoteAccept` is result `ok`,
`RemoteAcceptUnusable` an error after `processed = 1`, `RemoteRefuse` an error
before. Redirections are not followed and count as success
(`SuccessIsProcessed` states the exception), so "accepted" in Notificator means:
the service said so. At log level debug, which `k8s` sets, `request` reads the
whole body first; `LogLevelIsHarmless` shows the one case in which that changes
the result.

`CreateSign` runs `HexCodec!ParseHex` on the text of the key, a sequence of
characters: what is no digit is skipped and an odd digit is dropped. `secp256k1`
is external: a secret key is a byte string of the right length that is not zero.
`Failed` keeps the error as `ErrorChain` builds it: `ectx!` adds contexts,
`EctxConvert` the kind of the next module, and `FormatError` turns the chain and
the backtrace into the lines of `log`. Wording and arguments are left out.
`Keep` stands for the `filter` and `filter_map` of both: a recursive function and
a set, so that it can be reasoned about.

### Configuration and Startup

What `Notificator!Start` does in one step, with the broker's durable objects.
An instance first merges what the layers give (`sources`); a value is known by
the layer it is from. The declarations of one instance keep their order (one
channel); those of different instances and the three subscriptions of one
instance interleave. `FallsSilent` is a connection on which the broker stops
answering: before the handshake `create` gives it up (`ConnectTimesOut`), after it
nothing does, and `EventuallyRuns` names that exception (`Hangs`). The lookup of the
broker's name is blocking and outside of that Timeout; a failed one is a `Fail`, and
that it may take for ever is left out. So are declarations that the broker
handles after the process that sent them is gone: they only add to `declared`.

### ProcessLifecycle

The tasks `start_server` spawns and the condition under which
`shutdown_on_idle` returns: no consumer, no heartbeat, no API server, no
connection of the API, and no task of the HTTP client's pool of idle
connections. That pool lives as long as a clone of the client, and
`start_server` keeps one (`fetcher`, `src/lib.rs:113`), so `pool` stays once a
handler has used it. `HeartbeatEnds` needs a lost link: a channel the broker
closes ends one consumer and nothing else. The API server ends by itself when
its host is no address, when binding panics, or on an error; each connection
is a task of its own and survives it. A call reads its body and is routed to
`not_found`; a broken body is an error that `StatusOf` turns into 500.

### AmountCodec

The two conversions as operators over a smaller base and a smaller integer, and
a column that is stored and loaded. Checked arithmetic is checked, unchecked
arithmetic panics or wraps with the build profile. The iterator `ToBase10000` is
the function of the quotients it keeps, `LeadingZeros` what `skip_while` drops.

## 3. Runs

| run | instance | shows |
|---|---|---|
| `poison` | 1 instance; 4 callbacks, the third malformed; all kinds of fault but a broker restart once each | `TypeOK`; the first two are discharged in order; nothing behind the malformed one is ever touched; `LossesHaveCauses` |
| `recovery` | 1 instance; a callback, a push; all seven kinds of fault once | `NoSilentLoss`, `CleanOnce`, `TasksRunTheLoop`, `ImplementsLedger` |
| `rollout` | 2 instances (symmetric), 2 callbacks, one attempt; timeout, unusable answer, lost connection, crash once each | `SettlesWhatItHolds`, `OneHandler`, the inductive `SafetyInv`; `RepetitionsHaveCauses` |
| `live` | 1 instance; a malformed e-mail, a callback, a push; timeout, refused publication, crash, unusable answer | `EventuallyDischarged` under `FairSpec` |
| `lost` | 1 instance, as above; timeout, lost connection, crash | `LostConnectionEndsTasks` under `FairSpec` |
| `retry_timing` | the 11 delays of the code; timeouts of 30, 4093, 4094 and 4100 s; three deliveries | the timing properties; `RunsTheLoop`; `HandlerEnds` under timer fairness |
| `http_delivery` | ten status codes, six kinds of body, three clients, both log levels, nine texts of the key | the type invariant and the seven properties of HTTP, keys and log |
| `http_backtrace` | the same | `BacktraceIsShown` is violated, see 6 |
| `startup` | 2 instances, a new or a used broker, 3 sets of sources, 2 failures | `ErrorsAreRoutable`, `StrongestLayerWins`; `EventuallyRuns` under fairness |
| `lifecycle` | 3 queues, 2 connections of the API, 3 faults | `ExitsOnlyWhenIdle`; `OutageHeals`, `RequestsAnswered` under fairness |
| `amount` | base 10, a ten-bit integer: every amount, every canonical NUMERIC of up to four digits | `RoundTrip`, `ExactOrError` |
| `amount_overflow` | the same | `OverflowIsAnError` is violated, see 6 |

Bounds and why they are enough. Two attempts (`MaxAttempts`) have a first, a
next and a last; the loop has no other kind. `rollout` has one: what it asks is
who holds a delivery and how often the remote service processes it, and there a
redelivery repeats an attempt as the loop would. In `poison` two good
notifications of the queue are discharged before the malformed one is its head,
so that their order is at stake, and one is behind it. In `rollout` one callback
can collect the four faults and be processed again after each, as
`RepetitionsHaveCauses` allows; a restart of the broker, which counts as one
more, is left to `recovery`, where `CleanOnce` is checked. Two instances give
every overlap of a rollout, since only two channels ever contend for one
notification. One
fault of each kind includes each pair of kinds on one notification (a timeout
and then a crash, a lost connection and then a broker restart). Three tags are
one more than a channel uses: tags of the code never repeat, here a tag nobody
holds is used again. Keys have two bytes: the loop of `parse_hex` treats every
pair of digits alike, and the nine texts are none, a good key in either case,
zero, too short, too long, a digit too many, and two prefixed ones, of which the
second has nothing but a last digit. The statuses
have one of each kind `request` tells apart. The three sets of sources are
development with and without a secret, and the two files of the k8s ConfigMap.
Three faults of `lifecycle` allow a lost link, an API that fails and a kill, in
every order; two connections, one that answers while the other closes. The
proofs of section 5 have none of these bounds.
`CHECK_DEADLOCK FALSE` is set where the system really may stop: after a lost
connection with no crash left in the budget, after the last delivery of
`RetryTiming`, at the end of one HTTP attempt, one load, one startup, or in a
process that is left with nothing to do. In
`live` deadlock is checked: there is no lost connection, and the malformed
notification keeps the system busy for ever.

Every property of a passing run has a mutant in `PROJECT.json`: a definition of
the code changed the way a plausible bug would, under which TLC finds that
property violated.

## 4. Fairness

`FairSpec` assumes, each weakly fair: `TaskStep` (tokio polls a task that was
woken; timers fire; `basic_ack` and `basic_nack` resolve), `BrokerStep` (the
broker delivers and applies frames), `Start` (a container of a Deployment that
exited is started again), and `Answer` (a remote service or the broker answers
in the end; when it does not, the Timeout takes its place, and the budget says
how often). A lost connection is noticed by the client library in the end,
through `TaskEnds`. Nothing is assumed of publishers, faults, stray requests
and late publications. `RetryTiming` assumes timers alone and shows `HandlerEnds`
although a request may hang. A refusing remote service does not stop progress in
`live` since two attempts and a publication always fit there; with the real
delays and the configured 30 s the Timeout comes first: what a remote service
always refuses is then never discharged (`ParkingNeedsTime`), and nothing here says
otherwise.

`FairStartupSpec` assumes each instance's steps weakly fair: the broker answers
on a connection that has not fallen silent, the connection's Timeout fires, a
container that exited is started again. Failures and silence are not fair.
`FairLifecycleSpec` assumes the runtime's own steps (`RuntimeStep`: tasks of a
lost link end, the API binds or fails to, an idle process exits, Kubernetes
restarts it) and the answers of the API (`AnswerStep`). Nothing is assumed of API
clients, and `OutageHeals` states what it takes of them: that they hang up some
day, because nothing ends a connection they keep.

## 5. Proofs

TLAPS proves, for every value of the constants (every set of instances,
notifications and tags, any number of attempts, any fault budget, any list of
delays, any key of any length, any settings and sources, any queues and
connections, any width and base of the amounts):

| theorem | states |
|---|---|
| `NotificatorProofs!TypeCorrect` | `Spec => []TypeOK` |
| `NotificatorProofs!SafetyInvariant` | `Spec => []SafetyInv` |
| `NotificatorProofs!NothingLostSilently` | `Spec => []NoSilentLoss` |
| `NotificatorProofs!SettlesOnlyWhatItHolds` | `Spec => []SettlesWhatItHolds` |
| `NotificatorProofs!NeverTwoHandlers` | `Spec => []OneHandler` |
| `NotificatorProofs!ServiceImplementsLedger` | `Spec => ImplementsLedger` |
| `NotificatorProofs!TasksAlwaysRunTheLoop` | `Spec => TasksRunTheLoop` |
| `NotificatorOutcomes!AlwaysInOrder` | `Spec => []InOrder` for a single instance |
| `NotificatorOutcomes!PoisonAlwaysBlocks` | `Spec => []PoisonBlocksQueue` for a single instance |
| `NotificatorOutcomes!SuccessNotRepeated` | `Spec => []CleanOnce` |
| `RetryTimingProofs!TimingTypeCorrect`, `BackoffSpentAlways`, `ParkingNeedsTimeAlways`, `AttemptsFitAlways` | the four timing invariants |
| `RetryTimingProofs!TimingRunsTheLoop` | `TimingSpec => RunsTheLoop` |
| `HttpDeliveryProofs!SuccessIsAlwaysProcessed`, `OnlySignedEverLeaves`, `MalformedIsAlwaysUnsent`, `LogLevelIsAlwaysHarmless` | four HTTP invariants |
| `HttpDeliveryProofs!HttpTypeCorrect` | `HttpSpec => []HttpTypeOK` |
| `HttpDeliveryProofs!HexRoundTrip` | `ToHex` after `ParseHex` gives back the digits of a text, in lower case, without an odd last one |
| `HttpDeliveryProofs!KeyDigitsAlwaysSign`, `PrefixedKeyIsAlwaysAnother` | the two invariants about keys |
| `HttpDeliveryProofs!LogKeepsTheChain` | `FormatError` prints every context, the root cause first |
| `HttpDeliveryProofs!LogAlwaysTellsTheCause` | `HttpSpec => []LogTellsTheCause` |
| `HttpDeliveryProofs!NoFrameIsEverShown` | no log holds a frame of this crate: the opposite of `BacktraceIsShown` |
| `AmountCodecProofs!RoundTripAlways`, `ExactOrErrorAlways` | the two invariants about amounts |
| `AmountCodecProofs!CheckedBuildIsNeverWrong` | a debug build reads every column exactly, refuses it or panics |
| `StartupProofs!StartupTypeCorrect`, `ErrorsAlwaysRoutable`, `StrongestLayerAlwaysWins` | the three startup invariants |
| `ProcessLifecycleProofs!LifecycleTypeCorrect`, `ExitsOnlyWhenIdleAlways` | types; `LifecycleSpec => ExitsOnlyWhenIdle` |

Assumptions are the ones on the constants (`BrokerAssumption`,
`NotificatorAssumption`, `TimingAssumption`, `HttpAssumption`, `StartupAssumption`,
`LifecycleAssumption`, `AmountAssumption`); TLC evaluates them in every run. `AlwaysInOrder` and
`PoisonAlwaysBlocks` assume in addition that there is one instance (`Alone`): two
consumers of one queue may finish in either order.

The argument. None of the three safety properties is inductive. `SafetyInv`
says of every live channel that it has at most one outstanding delivery and
that this delivery is in exactly one place: not polled yet, in the task's
hands, or settled by the one frame that travels (`ChannelInv`); an ack on its
way, and the phase before it, mean a settled notification (`TaskInv`); what a
channel carries belongs to its queue (`ProvenanceInv`); and a notification is
either ready or outstanding on one channel (`OwnershipInv`). The prefetch count
of 1 enters at `Deliver` and nowhere else: it is why the nack of tag 0 covers
one delivery, and with a count of 2 that step of the proof fails, as does the
run `rollout`. The proof treats steps of one task (which leave all other channels alone:
`LocalFrame`) apart from steps that close channels, and `NoSilentLoss` apart
from both: a notification leaves `Pending` only at `ApplyAck`. The refinement
uses the invariant there, and only there, to see that the acked notification is
settled, and `OwnershipInv` to see that it is not pending elsewhere.
`RetryTimingProofs` rests on `BackoffSpent`: the delays ahead of an attempt have
passed in the same handler. The refinement of the loop needs nothing but the types
there; in Notificator it needs `StoppedRests` as well, that a process which starts
finds its tasks at rest (`OneLoopSteps`: a step of one task shows in no other loop).

`NotificatorOutcomes` adds three invariants on top of `SafetyInv`. `OrderInv`: what is
outstanding was the head of its queue, hence older than what waits, and what
was discharged is older than what the broker still owns; it is kept because a
requeued notification takes its old place. `PoisonInv`: a malformed notification
stays with the broker, no ack is sent for it (its task goes from `idle` to
`failed`), and nothing behind it is in anyone's hands. `CleanInv`: what was
processed or parked without a fault waits nowhere, and the one task that holds
it is on its way to the ack; every fault that could requeue it holds the
notification, and so disturbs it (`HeldIsOutstanding`).

`StartupProofs` rests on `StageInv`: while an instance declares, each declaration is
either done or on its way, and the broker forgets none. `ProcessLifecycleProofs`
rests on `HeartbeatTellsLink`: in a running process only a lost link ends the
heartbeat.

`HttpInv` says of each stage of an attempt what has been sent, processed and
answered (`Shape`, `Progress`), and where a signature comes from (`Signed`): a key
that signs is `ParseHex` of the configured text. `LogInv` adds what the log holds: in
the last stage the chain of one error, whose front is `Server` just when the remote
service refused, and whose end is the result (`FailedTells`); the lines of the
backtrace filter come behind it and are recognised by their layer.

Four of these proofs go over data of any length: a text, a chain, the digits of
an amount. `SequenceLemmas` has what they need. `SetInduction` is induction over
the naturals with a *set* in place of the predicate, since the prover cannot be
given a predicate as a parameter: `0 \in S`, and `S` closed under successor, from
the well-foundedness of `<`. From it follow induction over sequences, the least
number with a property, the existence of recursive functions, and what `Keep`
returns for an empty sequence, for one more element and for a concatenation.

* Keys: `ParseHex` and `ToHex` are inverse on digits (`Nibbles`, `Halves`). Of a
  prefixed key `Shifted` says that its digits are those of the meant key, moved by
  one behind the 0: were the two keys equal, every digit would equal the one
  before it, and the key would be zero (`ShiftedKey`).
* Amounts: the quotients of the iterator are the values that the digits phase has
  when it reads them back (`IsHorner`), so it never exceeds the amount and no
  check strikes; the zeros that were skipped and the power in the correction phase
  are the same factor. For a column written elsewhere `DigitsAreExact` says that
  the checks amount to one check at the end, and `SumIsExact` that the loop's value
  times the power is the sum over the digits that defines `ExactValue`.

Model-checked only: liveness (`EventuallyDischarged`, `LostConnectionEndsTasks`,
`HandlerEnds`, `EventuallyRuns`, `OutageHeals`, `RequestsAnswered`), which needs
`ENABLED` and is out of the prover's reach; `RepetitionsHaveCauses` and
`LossesHaveCauses`, which count over all tasks and notifications; and the two
violations of section 6.

## 6. What the checks say about the code

Two runs show a disagreement between the code and what it says of itself.

* `amount_overflow`: a number too large for `u128` is meant to be an error, and for a
  large weight `10u128.pow` (`src/models/amount.rs:125`) panics, or wraps in a
  release build. A TODO in line 124 knows of it, and lines 15-16 ask for a constraint
  on the column instead; the other errors of the function are for columns that
  break it. Nothing in the crate reads an amount from a database yet.
* `http_backtrace`: the log announces a "Relevant backtrace:" and filters it for
  `transactions_lib` (`src/utils.rs:26`), the name of another crate. No frame of
  this one is ever shown, and the headline comes when there is no backtrace.

The following are what the code does, stated as properties that hold, since no
document says otherwise:

* a lost connection silences the process: its tasks end and stay ended until the
  process does (`LostConnectionEndsTasks`), which by itself happens only if its
  API has ended and its HTTP client was never used (`OutageHeals`,
  `ExitsOnlyWhenIdle`); a channel the broker closes silences one queue;
* a malformed notification blocks its queue (`PoisonBlocksQueue`);
* the error queues are out of reach with the configured timeout
  (`ParkingNeedsTime`);
* a notification can be acked and gone when the error queue refuses it, when a
  timer fails, or when the broker restarts after it was parked (`excused` in
  `NoSilentLoss`), one for each such fault (`LossesHaveCauses`);
* it can be processed once more for every timeout, unusable answer, crash or lost
  connection that hits it, and no more often (`RepetitionsHaveCauses`);
* a key written with `0x` is accepted and is another key, unless nothing but its
  last digit is not 0: that one becomes zero and is refused
  (`PrefixedKeyIsAnotherKey`);
* where the amounts of `amount_overflow` go wrong, a build with overflow checks
  panics and never returns a wrong amount (`CheckedBuildIsNeverWrong`); a release
  build may;
* with the files of the k8s ConfigMap alone several required settings are
  missing, and the process restarts until a secret or the environment gives
  them; a broker that falls silent after the handshake leaves it waiting for
  ever (`EventuallyRuns`).

## 7. Not modelled

* `api/auth`: not compiled, no module declares it. `parse_body` and
  `response_with_model` of `api/utils.rs`: called by nobody.
* `send_push`: never called, pushes are acknowledged unread; its loop is that of
  the other two. Its client is modelled (`job.client = "push"`).
* Contents of requests and TLS, the SendGrid payload, the digest that is signed.
* Reading and parsing configuration files, the URL of the broker, the sinks of
  the log, Sentry's transport: input and output without control.
* `models` with derived serialisation, `schema.rs`, the macros that generate
  newtypes, the command line: no state.
* Overflow of delivery tags (64 bits) and of the broker's queues.

## 8. Plan

Done: the core with its time and proofs; then HTTP attempts with keys and the
log, the configuration and the startup, the life of a process with its API;
the outcome theorems (order, poison, repetition); the theorems over data (keys,
log, amounts) and the retry loop that two models have in common.

Left: a proof that a startup as `Startup` has it is one `Start` of Notificator:
deliveries reach a channel before the tasks are spawned, and a failure then must
look like a crash after `Start`.
