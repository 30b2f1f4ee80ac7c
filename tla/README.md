# mysql_byroad in TLA+

mysql_byroad pushes the changes of MySQL tables to HTTP endpoints. This directory specifies
how its processes work and where they can go wrong, checks the specifications with TLC, and
proves the central ones with TLAPS. Line numbers below refer to the files under `src/`.

## The system

| process | what it does |
|---|---|
| **monitor** | web pages, the task database, a registry of the other processes; tells them about task changes by RPC |
| **dispatcher** | joins one Kafka consumer group per task, filters the binlog events, publishes what is left on the task's NSQ topic `name___kafka` |
| **pusher** | runs one NSQ consumer per task and posts its messages to the task's endpoint; retries by requeueing; sends alerts |
| **nsq_monitor** | alerts when an NSQ channel grows too long |

A task has a name, the fields it subscribes to, an endpoint, settings (concurrency, number of
retries, timeout...) and three states: `Stat`, `SubscribeStat` (dispatchers) and `PushStat`
(pushers).

### Components

**Dispatcher: consumer manager** (`dispatcher/kafka_consumer.go`, `rpcserver.go`, `task.go`,
`task_map.go`, `dispatcher.go`). State: the task map, the map from group id to consumer, and
the consumers' membership in Kafka groups. Operations: `InitTasks`/`InitConsumers` at boot, the
RPCs AddTask, DeleteTask, UpdateTask, StartTask, StopTask, and the shutdown. Each map has a
lock of its own, net/rpc runs every call in a goroutine, joining and closing take seconds.
Correct when a task has one consumer at most, a stop or an update has taken effect when it is
answered, nothing is consumed for an unknown task, and no entry blocks later subscriptions.

**Pusher: consumer manager** (`pusher/task_consumer_manager.go`, `task_consumer.go`,
`rpcserver.go`, `task_map.go`, `main.go`). State: the map from name to consumer, the map from
ID to task, the NSQ consumers. Operations: the same RPCs and `Init`, which runs while RPCs are
served (the server listens before `taskManager` exists). Correct when one consumer at most
receives a task's messages, a stop is answered once the library has stopped the consumer or has
waited 30 s for its handlers, the task of a received message is known, and consumer and map
agree on the settings.

**Pusher: pushing** (`pusher/nsq.go`, `push.go`, `send_client.go`, `alert.go`). State: NSQ's
attempts of a message, the cached HTTP clients, the error counters. `HandleMessage` posts the
message and finishes or requeues it; several handlers run at once, nsqd requeues what is not
answered in time. Correct when no message leaves the channel without a reason, failures end
in an alert, pushes are bounded and a confirmed message is left alone.

**Monitor: registry** (`monitor/dispatcher.go`, `pushClient.go`, `client_map.go`,
`rpcserver.go`, and the callers `dispatcher/rpcclient.go`, `pusher/rpcclient.go`). State: a map
of RPC clients and a map of expiry timers per kind of client. Operations: register, ping,
deregister, expiry. Calls may be lost, the monitor and the clients restart. Correct when a
live client is in the registry, at the right address, and a dead one leaves it.

**Monitor: web handlers, task store, fan-out** (`monitor/web.go`, `rpcclient.go`,
`model/task.go`, `model/notify_field.go`). State: the tables of tasks and fields. Each handler
changes the database in several statements and then calls every registered dispatcher and
pusher, logging failures. Correct when, after all calls, the processes run what the database
shows, whichever process was away meanwhile; when names stay unique, a task keeps its fields
and a deleted task leaves nothing. A process that starts without the monitor's list runs, and
registers, with nothing.

**Dispatcher: event path** (`kafka_consumer.go`, `kafka_event_handler.go`, `util.go`). State: a
group's marked and committed offsets, the place of its stream, the messages in the library's
channel. A message is
translated, matched with the task's fields, published or not, and marked whether or not the
publish succeeded. Correct when a group resumes behind nothing that is not accounted for,
repeats are bounded, and a task hears of exactly what it subscribes to.

**NSQ producers** (`nsq/nsq_manager.go`). State: the nodes of the last lookup and the map of
producers, refreshed by one goroutine while all consumers draw from them without a lock. A
publish that fails is logged and not repeated. Correct when no event is lost for want of a
producer unless nsqd or nsqlookupd has had a trouble, and producers come back.

**Column cache** (`mysql_schema/`). State: the map of column types, refreshed by a goroutine
with one query per schema. Correct when no entry is older than the refresh it comes from.

**Statistics** (`model/binlog.go`), **nsq_monitor**, **notice**: small.

Calls: browser → monitor (HTTP), monitor → dispatcher and pusher (RPC, task changes),
dispatcher and pusher → monitor (RPC, register, ping, deregister, GetAllTasks), Kafka →
dispatcher → nsqd → pusher → endpoint. PROJECT.json lists all components and every hazard with
its line.

## Modules

| module | of |
|---|---|
| `TaskSubscription` | abstract: what the monitor may expect of a process that runs tasks |
| `KafkaConsumers` | a dispatcher's consumer manager, from boot to exit |
| `KafkaConsumersProofs` | its invariants and its refinement of `TaskSubscription` |
| `TaskConsumers` | a pusher's consumer manager, from boot to exit |
| `TaskConsumersProofs` | its invariants and its refinement of `TaskSubscription` |
| `ClientRegistry` | the monitor's registry and the clients that signal it |
| `ClientRegistryProofs` | its invariants |
| `MessagePush` | handlers, messages, nsqd and the client cache of a pusher |
| `MessagePushProofs` | its invariants, that pushes are bounded, losses reported, and confirmed messages left alone |
| `TaskControl` | the monitor's web handlers, the database, the fan-out, and the processes that come and go |
| `TaskControlProofs` | unique names and kept fields, with the invariant they rest on |
| `TaskFollowProofs` | that the dispatchers and the pushers follow the database, and that deleted tasks are forgotten |
| `EventDelivery` | an event from its Kafka offset to an NSQ topic, with the producers' refresh |
| `EventDeliveryProofs` | that offsets account for events, repeats are bounded and losses have a cause |
| `ColumnCache` | the refreshes of the column types |
| `EventFilter` | what one event becomes for one task, on top of `ColumnCache` |
| `EventFilterProofs` | that the cache has nothing stale, and that a task hears of exactly what changed |
| `MC...` | instances for TLC |

`KafkaConsumers` and `TaskConsumers` both instantiate `TaskSubscription` with a refinement mapping
(`Service`): the subscriptions of a task are its open Kafka consumers, or its NSQ consumers from
their connection to the end of their stop; `late` are those that still work off messages they had
been handed. `MessagePush` takes the task manager of `TaskConsumers` as a few atomic actions
(`Boot`, `UpdateTask`, `StartTask`, `StopTask`, `DeleteTask`). `TaskControl` takes what a
dispatcher or a pusher does with one RPC as one step each (`DispatcherDoes`, `PusherDoes`, or
`CallUnserved` when the dispatcher answers that all is well and has subscribed nothing). What the
refinements of `TaskSubscription` justify of it is less than an effect: a stop, a delete or an
update that has been answered has left no consumer of the task with other fields, besides those
that work off what they had; that an answered AddTask or StartTask has subscribed anything they do
not say. It takes the registry as a set; `ClientRegistry` is about its inside. `EventFilter`
EXTENDS `ColumnCache` and runs its refreshes between the lookups of one event; the events of
`EventDelivery` are those that `EventFilter` lets through.

### From code to model

*Granularity.* An action is what one goroutine does between two points where another can
interfere: one map operation under its lock, one call into a library. A goroutine has a label
`pc`, the request it runs (`req`) and the local variable the code keeps (`held`, `got`,
`msg`/`using`). `Die` in each module is the end of a process: its memory goes, the goroutines
with it, Kafka or nsqd takes back what it held.

*KafkaConsumers.* `SetTask` is the handler's first statement, on the task map (or
`SetTaskPanics`, when InitTasks has failed and left a nil map); `GetConsumer`,
`CloseConsumer`, `AwaitClose`, `DeleteEntry` are the steps of StopTask and UpdateTask; between
the first two the library works (`ending`) until `LeaveGroup`, which may leave the loop of
HandleMessage with messages in the closed channel (`late`, `ChannelEmpty`); `GetTopics`,
`GroupExists`, `NewConsumer`/`NewConsumerFails`, `AddEntry` those of traverseTask. At shutdown
`StopConsumers` reads the map and what it found is closed, and RPCs go on until `Exit`.
Fields are versions: a consumer remembers the version it has joined for.

*TaskConsumers.* The labels are the statements of TaskConsumerManager; `FirstLabel` says where
each request begins. A consumer is new, connected, stopping, cut off or stopped; `StopConsumer`
calls Consumer.Stop, `AwaitStop` reads StopChan, which the library closes when the handlers have
ended (`HandlersEnd`) or, whatever they do, 30 s after Stop (`StopTimesOut`, go-nsq's
`consumer.go:1045`). A consumer cut off so goes on with the messages that are queued: the
comment of `pusher/rpcserver.go`'s StartTask that the task has surely stopped (`确保任务已经停止`)
does not hold of it, a second consumer may receive beside it, and DeleteTask forgets a task
whose last messages are then taken for delivered. The properties say what holds: that only
consumers cut off do so. `Requests` carries the
condition `Stat = 1 || PushStat = 1` as `on`.

*ClientRegistry.* One module for both managers: `ByDesc` chooses the key (dispatchers by
description, pushers by address). A timer has its goroutine, which deletes the client when the
timer has fired (`Fire`, `Expire`); `Reset` of a timer that has fired leaves its token, as in
Go. A node's registrations, pings and farewells may be lost.

*MessagePush.* `Deliver`, `GiveUp`, `Answer` are the library and nsqd (attempts, MaxAttempts,
answers that come too late); `GetTask`, `LookupClient`, `AddClient`/`Panic`, `Post`,
`HandleAlert`, `Requeue`/`Finish` the handler. Of the endpoint's answer only success matters;
`Post` lets a request arrive whose answer is lost. The sets `confirmed`, `reported`,
`abandoned`, `dropped`, `interrupted` and the counter `pushed` are history variables. A message
that waits in the process for a free handler counts as queued.

*TaskControl.* A handler is a record of what it does (`op`), where it is (`at`: one of eight
statements or of three fan-outs), the row's id, the task as it will be sent and the clients it
has still to call. `Then` is the order of statements and calls of all handlers, `Otherwise`
where each goes when a statement fails. `copyTask`, `Requested` and `Columns` are the changes
of the three states. `Iter` takes the registered clients, `Joins` lets one that registers
meanwhile be called or not, as a walk of a concurrent map does. Abstractions: the subscribed
fields stand for all of a form's settings; GetByID and GetAllTask read rows and fields in one
step; a process boots in one step; an address that is dead leaves the registry at the crash, and
a live one does not expire (both are `ClientRegistry`'s subject). GetAllTasks may fail
(`StartBlind`): the process is then `blind`, registers with nothing, and a dispatcher dies of the
first call that sets a task (`Panics`), for InitTasks has made no map. A listed task may be
skipped (topics, join, the NSQ consumer), and a call that subscribes may fail behind a nil answer
(`CallUnserved`). The history variables
`disturbed` and `toggled` are what the properties excuse: a name that two requests were about
at the same time, that a failed statement or call was about, that a process skipped when it
started, that was being handled when the
monitor crashed, or whose fan-out began while a dispatcher or pusher ran unregistered
(`dispatcher/dispatcher.go:41`), or while a pusher read the list in the middle of a
changeTaskStat (`web.go:482`); and a name whose Stat was changed alone, which subscribes or
not and leaves SubscribeStat as it was. A blind process is not expected to follow at all.

*EventDelivery.* The consumer-group library, as far as one partition of one group goes: `Begin`
(partitionConsumer, from the stored offset, or from the newest if there is none or Kafka has
dropped it), `Fetch`, `Reestablish` (the stream ends; the new one reads the last event again, or
starts at the newest), `GivesUp` (it cannot be re-established: the goroutine ends, the group
stays open and "stalled"), `Flush` (the committer, whose answer may be lost). A claim that fails
leaves the group "joining". `Close` tells the goroutine to stop, and the session ends in one of
five ways: with a commit (`Closed`), without as the handlers take too long (`CloseTimesOut`) or
ZooKeeper does not take it (`CommitFails`), or with no goroutine there (`CloseUnread`,
`CloseStalled`); what the channel still holds is `late`. `Count`, `Enqueue`, `CommitUpto` are
HandleMessage's three moments: GetOneProducer counts the nodes, reads the list again and
publishes, then the offset is marked. A publish may fail on a node that answers (`refused`). A
list that has shrunk between `Count` and `Enqueue` ends the process (`IndexOutOfRange`,
`nsq_manager.go:336`). `Boot` looks nodes up, twice, and makes producers; `Refresh` and `Visit`
are updateProducer, node by node; each lookup may miss nodes and each ping fail. Nodes may stop,
start and be noticed late; `Sites` are the nodes a dispatcher finds, configured ones that are
down or not listed among them. `troubled` is set by whatever goes wrong with a node.

*ColumnCache and EventFilter.* What the cache has of a schema is one of `Definitions`: a
refresh queries schema after schema, each as it is at that time. `FirstLookup` installs what
its query returned even when it failed, `QueryFails` ends a refresh without an effect,
`NilMap` is the lookup before any map is there. `enqueue` and `GetTaskField` are the pure part,
over every event type, every set of changed columns and every list of fields.

## What is checked

| run | shows |
|---|---|
| `kafka_serial` | requests about one task one after the other: one consumer per task, effective stops and updates, consumed tasks known, refinement |
| `kafka_overlap` | requests that overlap while a close waits: no entry is left that blocks the task for ever |
| `kafka_orphan` | *violated*: with overlapping requests a consumer stays open that no map holds |
| `registry` | handlers of one key serial: every entry can expire, a registration has the right address, a live pusher is registered again and again, a dead address leaves for good |
| `registry_race` | *violated*: an expiry or farewell interleaved with a ping leaves a dispatcher without a timer |
| `pusher_serial` | as `kafka_serial`, for the pusher, with Init's loop running beside the RPCs and consumers that the library cuts off |
| `pusher_live` | overlapping requests: every call returns |
| `push` | messages: why they leave, how often they are pushed, that failures are reported; they leave |
| `control` | web requests, failures, crashes, starts without a list and missed calls: unique names, kept fields, and processes that follow the database |
| `control_pushstat` | *violated*: a pusher that starts after stopPush pushes the task |
| `delivery` | events, through streams, commits, lookups, pings and publishes that fail: offsets account for them, repeats are bounded, losses have a cause, events get out, producers come back |
| `filter` | a task hears of exactly the columns that have changed; the cache has nothing stale |

**Overlap.** Nothing in the code serialises two RPCs about one task; the monitor sends one
after the other unless two handlers of its web server run at once, or a process boots while a
task is changed. With `Overlap = FALSE` requests about one task (one key) come one after the
other, those about different tasks interleave; this is what the managers' own locks are enough
for. With `Overlap = TRUE` anything goes; the runs say what is lost.

**Findings.** (1) `kafka_consumer.go:300`: two overlapping RPCs both see no group, both join,
and the second Add hides the first consumer for ever. TaskConsumerManager.AddTask has the same
shape (`task_consumer_manager.go:59`): a request that runs beside StartTask can leave a
receiving consumer in no map. (2) `monitor/dispatcher.go:68` (and `pushClient.go:44`):
DeleteDispatchClient between the two statements of an Add. (3)
`pusher/task_consumer_manager.go:56`: Init pushes a task whose PushStat is off, because its
Stat is on.

Also in the models, and met while writing them: `send_client.go:47`, where Get returns its nil
client when another goroutine has added one between the locks, and the process dies (action
`Panic`); `pusher/task_consumer_manager.go:135`, where UpdateTask leaves the consumer's
MaxAttempts as it was (`UpdateTask` changes `task`, not `limit`); `monitor/dispatcher.go:53`,
where AddDispatchClient keeps the old address of a dispatcher that comes back on another port
(`ByDesc = TRUE`; RegistrationTakesEffect is proved for pushers); `inspector.go:62`, where a
failed first query empties the map (`emptied`); `manager.go:100`, where a lookup before the
first map ends the process (`NilMap`).

**Bounds.** Two tasks in `kafka_serial` (tasks share the process phase and `toInit`), one in the
others, since nothing else is shared between tasks and a run with one more is out of TLC's reach;
two versions of the fields where old and new have to be told apart; two goroutines, the number
that makes a race, and one in `kafka_serial`, where requests about one task are serial anyway; two
or three identities of consumers and timers, so that an old one is still alive when a new one is
made (an identity nothing refers to any more is used again; what would need one more is cut off,
in the registry by `TimerToSpare`). In the registry two addresses let a node come back elsewhere;
`MaxRestarts` bounds the restarts of the monitor. `registry` has one node: with a second one its
restarts would use up the finite supply of timers, and the liveness properties would fail for that
reason alone; the safety properties are proved for every number of nodes. In `MessagePush` one
retry gives two attempts, so that a message can be cut short, repeated, alerted and given up;
`MaxStops` bounds crashes (panics are bounded by the attempts they cost). `TaskControl` has one
process of each kind, two names, two forms and two handlers: an overlap, one request after
another, two names at once; one fault is a failed statement or call or a crash, of any process at
any statement. Fan-outs to more processes differ only in the order of calls, which touch different
processes. `EventDelivery` has one group, since groups share only the manager, which they do not
change; two nodes at five `Sites` (none configured; one configured that is listed, unlisted or
down), two events, two faults and a close: a loss, a repeat, a list that shrinks, a stream that is
re-established and then given up. `EventFilter` has two columns and up to two fields, so that a
field may repeat a column, hide another or not match; two schemas, so that a refresh has a middle.
CHECK_DEADLOCK is off where a bound stops the system: when every message has left (`MessagePush`),
every request is served, every event handled.

**Fairness.** Weak fairness of every goroutine's next statement: the Go runtime schedules what
can run. Weak fairness of what the libraries bound by a time: StopChan (30 s after Stop,
`StopTimesOut`), timers (`Fire`), requests of the HTTP client (its Timeout), delivery by nsqd
while there is a consumer. A node that is up pings (`Ping`: pingLoop has no exit). In
`EventDelivery` three goroutines go on as long as they live: the one that reads a partition
(`Fetch`; it is enabled only while the partition is "open", for the library may give one up for
good), the message loop (`MessageLoop`, and `LateEnqueue` for that of a closed consumer) and
updateProducer with its ticker (`UpdateLoop`). None for joins and claims, boots, crashes, closes,
requests of the monitor, exits, nor for nsqlookupd. `KafkaConsumers` has no liveness property:
that an RPC returns rests on the library's wait in Close, which ends by its ProcessingTimeout
whatever the code does. `TaskControl` and `EventFilter` have none either: a handler that has
begun goes on or the monitor crashes, which is excused.

## What is proved

TLAPS proves, for every number of tasks, goroutines, consumers, nodes and timers:

* `KafkaConsumersProofs`: TypeOK and NoStuckEntry for any `Overlap`; OneConsumer,
  StopTakesEffect, UpdateTakesEffect, ConsumedTaskIsKnown and `Spec => ServiceSpec` when
  requests about one task are serial.
* `TaskConsumersProofs`: TypeOK for any `Overlap`; OneReceiver, StopTakesEffect,
  ReceivedTaskIsKnown, SettingsAgree and `Spec => ServiceSpec` for serial requests.
* `ClientRegistryProofs`: TypeOK for any `Overlap`; EntriesExpire, and RegistrationTakesEffect
  for pushers (`~ByDesc`), for serial handlers.
* `MessagePushProofs`: TypeOK, LeavesForAReason, OneClientPerTimeout, ConfirmedIsLeftAlone and
  BoundedPushes, with any finite number of handlers, any number of crashes and late answers;
  GivenUpIsReported when every task has alerts and the same number of retries (`AlertsStay`,
  as in the run `push`): an update that changes either between two attempts may let a loss
  go unreported.
* `TaskControlProofs`: TypeOK, NamesUnique and FieldsKept, for any number of requests, faults,
  handlers and processes.
* `TaskFollowProofs`: DispatchersFollow, PushersKnow and DeletedIsForgotten, likewise.
* `EventDeliveryProofs`: types, Accounted, BoundedRepeats and LossHasACause, for any number of
  groups, nodes, events and faults, and every set of sites.
* `EventFilterProofs`: types, CacheWasTrue, `Spec => CacheSpec` (the filter's states are states
  of `ColumnCache`) and NotifiesWhatChanged, for every set of schemas, definitions, columns and
  values.

The assumptions are the ASSUMEs on the constants (`KAssumption`, `PAssumption`, `RAssumption`,
`MAssumption`, `ControlAssumption`, `DeliveryAssumption`, `CacheAssumption`, `FilterAssumption`):
the absent value is none of the others, and the like. TLC evaluates them in every run.

None of the properties is inductive. What a goroutine may do next depends on what it has seen
in a map some steps before, so the invariants say what a label implies:

* *EntryInv* (dispatcher): types, where `held` points at each label, entries of a group belong
  to its task, and NoStuckEntry. It holds however requests overlap, because a goroutine that
  has closed a consumer keeps it in `held` until it deletes the entry.
* *SerialInv* (dispatcher) adds `OneCall` (one goroutine per task), `Control` (which labels a
  kind of request reaches), `Owned` (an open consumer is in the map or in the hands of the
  goroutine that made it: the reason why StopTask can find it), `Progress` (what a goroutine
  knows of the map while it works) and `Known`.
* *SerialInv* (pusher) is the same in more parts: `Program`, `OwnTask`, `OneCall`, `Owned`,
  `Holds`, `Silent` (only what is cut off receives between the end of a stop and the next
  connect), `Fresh` and `Agreed` and `Updated` (versions), `Stopping` (whom a stopping consumer is
  stopped for).
* *SerialInv* (registry): `OneHandler`, `TimerOfKey`, `ClientGone`, `Expiring`, and
  `ByAddress` for pushers.
* *Inv* (pushing): `Reasons` (what a handler that is about to finish knows), `Sole` (as long as
  no attempt was cut short, nsqd's message is in the hands of one handler) and `Settled` (a
  confirmed message has left or its handler is about to finish it). `Sole` is what a crash and
  nsqd's timeout break, hence the exception for `interrupted` messages. `Counted` says that the
  pushes so far and the handlers still about to push (`Pending`, a finite set: CountOfMessage
  and CountStep say how a step changes its size) are no more than the attempts. `Known` (a
  running pusher has every task that is not deleted) and `Told` (a message whose attempts are
  used up and that is queued again has been reported, or its task is deleted) are for
  GivenUpIsReported.
* *FieldInv* (control): `OneHandler` (an undisturbed name has one handler at most),
  `Numbered` and `SameTask` (a handler's id is a row of its name, or of none any more),
  `FreeName` (a name is inserted only if no row has it), `FieldsPlan` (a handler that has
  deleted the fields has the new ones at hand, and the table is empty until it inserts them)
  and `FieldsFilled` (otherwise the fields are those of one form). Steps are sorted into
  requests, three statements, and `Quiet` ones that change no names and no fields (`KindsStep`).
* *FollowInv* (control): `up` and `blind` are apart, `Plan` (what the one handler of an
  undisturbed name still has to write and call agrees with the row), and `Heeds`, for every
  dispatcher that runs: `Agrees` with the rows of the name, or `Untold` (the handler has yet to
  reach it) and `Ready` (the call will make it agree). A dispatcher that starts in the middle of a
  request falls under `Ready` if the fan-out is to come, under `Agrees` if it is not, because it
  reads what the statements have written. `Aimed` keeps a fan-out to clients of its kind.
* *KnowInv* (control) is for the pushers what FollowInv is for the dispatchers. A pusher that
  runs `Knows` what the rows show, or is `Unaware`: some call of the handler is still to come.
  It is then `Fit` for the call: it has the task if the call is to update, start or stop it, for
  such a call to a pusher without the task is an error; and it has no settings under the
  task's id if it has no receiver of the name, for DeleteTask takes the settings away only
  with a receiver. `PushPlan` says which column of the row a request that ends at the pushers
  carries; `TaskIds` that a request sends the id it works on, from its first statement if it
  is no Add, and from the insertion on if it is.
* *Forgotten* (control): as long as nothing has gone wrong, fields without a row have a handler
  that is about to delete them (`Deleting`), and settings without a row one that has yet to call
  the pusher. It is not enough to follow names: after a delete an id has no name any more, so
  the step to it rests on KnowInv in the state after (a handler that ends leaves nothing).
* *Inv* (delivery): per group, the order committed <= stored <= done, what is queued below
  `last`, and nothing in the memory of a process that is down (`Sessions`); the events up to
  `done` accounted for, those handed over accounted for or in the channel, the first of them out
  by `stage` (`Handled`). Per event, `Copies` bounds a sum that no step raises but one that is
  paid for: the copies there are, those handed over and not yet published (`Unsent`), those left
  to the loop of a closed consumer (`late`), and the one that the session or the next one may
  still read (`ToRead`, from the `Mark` that a commit would store). And without a trouble every
  node that is drawn has a producer (`Healthy`).
* *Inv* (cache): what has been read of a schema was true at some time since the refresh began
  (`ReadWasTrue`, with `NowCounts`), what is installed was (`CacheWasTrue`), and a refresh
  leaves no schema unread that was there all the time.
* *FilterInv* (filter): what is queued is what `enqueue` makes of the event and the fields. The
  rest is about `enqueue`, a recursive function over the columns: `Sorted(e, list, acc, k)` says
  what the first `k` columns put into the two lists, and holds for every `k` by induction. The
  library's induction theorems take a predicate as a parameter; `Induction` does with sets of
  numbers, from the least element of a set of naturals (`LeastNumber`, which is the
  well-foundedness of their order), and `LoopsExist` shows the same way that the recursion
  defines a function at all.

Each part has a lemma with one step per action. The refinements follow from SerialInv: every
action leaves `TaskSubscription`'s variables alone or is one of its actions (lemma
`StepRefines`).

Model-checked only: liveness (CallsReturn, LiveNodesComeBack, DeadAddressesLeave,
MessagesLeave, EventsGetOut, ProducersComeBack), which rests on ENABLED and fairness. Every
invariant of a passing run is stated by a theorem.

## Not modelled

See `components` in PROJECT.json. Third-party libraries appear only as far as the code uses
them; pages that only read, configuration, logging, notice (one HTTP request per call), the
test scripts and dead code (`task_notify_map.go`, ResendMessage, PauseTask, UnPauseTask) are
left out for good. So are

* a rebalance of a consumer group between two dispatchers: the library hands partitions over in
  ZooKeeper, and the code takes no part in it;
* the summary mails of `alert.go` and their counters, the counters of `model/binlog.go`: lost
  counts change a text and a page, nothing else;
* what the consumer group does between its start and a partition's claim, several partitions, and
  an nsqd node that two nsqlookupds list (it would only be drawn more often);
* the pausing of a topic (`web.go:498` pauses one that has no messages), nsq_monitor (it looks
  a task up by a channel's name that no task has, `monitor.go:85`), the JSON types of
  `nsq/stats.go`;
* the text of values: the parsing of a column's type, enum numbers (`column.go:139`), base64.

## Plan

The error counters of `alert.go`; a second dispatcher in a group of `EventDelivery`; that
`EventDelivery` and `MessagePush` together implement a delivery at least once.
