# Verification of the Marvin agent

Marvin is an agent that connects out to a control plane over one bidirectional
gRPC stream, registers the capabilities its providers offer, executes the
commands it is sent and applies configuration while it runs. This directory
holds TLA+ specifications of that core and of the tasks the commands run, the
TLC configurations that check them and the TLAPS proofs about them. Source
paths are relative to `src/`.

    tlc -workers 2 -config MCClientSafety.cfg MCControlPlaneClient.tla
    tlapm ControlPlaneClientProofs.tla
    tlapm AnswerProofs.tla

## 1. The system

| component | source | state | operations | modelled in |
|---|---|---|---|---|
| control plane client | `internal/controlplane/client.go` | stream, manifest, last applied version, semaphore, ack time, send mutex, goroutines `run`, `heartbeatLoop`, executors | Register, Close, UpdateCapabilities, connectOnce, recvLoop, dispatch, applyUpdateConfig, safeSend, nextBackoff | `ControlPlaneClient`, `CommandService`, `Numbers` |
| entry point | `cmd/marvin/main.go` | none of its own | build providers, Register, wait for a signal, Close; `registryExecutor` | `Registry` (startup, executor), `ControlPlaneClient` (shutdown) |
| registry | `internal/registry/registry.go` | providers, capabilities, tasks, whitelist, callback | RegisterProvider, ListEnabled, GetTask, ApplyOnlineConfig | `Registry` |
| autoconfig updater | `internal/provider/autoconfig/updater.go` | config, client, clients to close, drain goroutine | Apply, drainPendingClose, Config, Client | `AutoConfig`, `ConfigCell`, `ProviderOptions` |
| autoconfig extractors | `.../autoconfig/extract.go` | none | typed access to configuration values | numbers and durations: `Numbers` |
| capability, task, provider interfaces | `pkg/capability`, `internal/task`, `internal/provider/provider.go` | none | Match, IsConfigured, Schema, Execute | parameters of `Registry`; `TaskRun` |
| common provider helpers | `internal/provider/common`, each provider's `helpers.go` | none | read, check and default parameters, cut answers | `TaskSteps`, `TaskRun` |
| providers kafka, postgres, prometheus, kubernetes, azure, log | `internal/provider/*` | one autoconfig cell each | UpdateConfig, IsConfigured, 139 tasks | configuration: `Registry`, `AutoConfig`; tasks: `KafkaTasks` (38), `PostgresTasks` (14), `PrometheusTasks` (20), `KubernetesTasks` (54), `AzureTasks` (9), `LogTasks` (4) |
| providers linux, network | `internal/provider/*` | none that changes | 79 tasks | `LinuxTasks` (74), `NetworkTasks` (5) |
| static configuration, metadata, auth, TLS | `internal/config`, `internal/metadata`, `internal/controlplane/{auth,tls}.go` | read once at startup | load, validate | not modelled |
| generated protocol code, schema generator | `pkg/proto`, `cmd/provider-schema` | none | | not modelled |

How they interact. `main` registers every provider, then calls
`client.Register`, which starts the `run` goroutine and waits for the first
registration. `run` opens a stream, sends Register with the manifest, and runs
`recvLoop`; the heartbeat goroutine and up to `cap(concurrencySem)` executors
send on the same stream through `sendMu`. An executor looks its task up in the
registry (read lock) and runs it. An UpdateConfig, or the config in a
Registered message, goes on the `run` goroutine to
`Registry.ApplyOnlineConfig` (write lock), which hands each manifest to a
provider's `UpdateConfig`, i.e. to `autoconfig.Apply`; then it re-evaluates
which providers are configured and calls back `client.UpdateCapabilities`,
which half-closes the stream, so that the session ends and `run` registers
again with the new manifest.

What is hard, and what makes each part correct:

* the client: one stream shared by four kinds of goroutine; blocking sends;
  sessions that end in five ways; a semaphore that outlives streams; a graceful
  Disconnect that drains; Close at any time. *Slots are never lost, configs take
  effect in order, results of a drained session are delivered, the control plane
  never works from a stale manifest, Close ends everything, and a session that
  ends is followed by another unless the agent was rejected for good.*
* the registry: two maps and the client's manifest that must agree, with lookups
  and re-registrations in between. *Capabilities, tasks, providers'
  configuration and manifest say the same, and no update is lost on a
  provider that is withdrawn.*
* autoconfig: compute outside the lock, install under it, close later.
  *Config and client change together; every client ever built is in exactly
  one place and is closed exactly once.*
* the tasks: the client is replaced, and later closed, while one runs; the
  answer is filtered, sorted and cut by several parties, each of whom may do so
  before the other; the schema is written apart from the code. *One execution
  works with one client and the limits that belong to it, an answer that is not
  said to be cut lacks nothing, and the schema tells the truth.*
* arithmetic in 64-bit words: *delays stay positive and bounded, numbers
  survive the conversion from JSON.*

`PROJECT.json` lists every hazard with its line and the properties that cover it.

## 2. The modules

### ControlPlaneClient and CommandService

State: the fields of `Client` (`stream`, `caps`, `lastApplied`, `sem`,
`ackAge`), a program counter per goroutine (`mainPc`, `runPc`, `hbPc`, and
`exec` for each command on each stream), the current gRPC stream (`cur`,
`wire`, `halfClosed`, `raced`, `inbox`), the control plane (`peer`, `manifest`,
`advertised`, `beat`, `pushes`) and one history variable, `applied`. The
manifest is a generation number: all that matters of it is whether it is the
one the control plane has.

Actions follow the handlers: `Register`, `RegisterReturns`, `Signal`, `Close...`
(main); `RunTop`, `ConnectOpens`, `SendRegister`, `Await...`, `StartSession`,
`Recv...`, `Dispatch`, `Drain`, `Join`, `Backoff` (the run goroutine, one action
per point where it can block or be interleaved); `Heartbeat...`; `TaskReturns`,
`ResultLock`, `ResultSent`, `ResultLost` (executors); `Server...` and
`StreamBreaks` (environment). `sendMu` is held by the goroutine whose counter is
"sending"; nobody else can hold it, so it has no variable of its own.

External, modelled from how the client uses it: gRPC's `SendMsg` blocks, then
succeeds or fails; a send on a broken or half-closed stream fails, and one that
was under way when `CloseSend` came, without `sendMu`, may do either (`raced`);
a cancelled context makes `Recv` fail; a control plane ends a stream whose
half-close it has read.

`CommandService` is the abstract specification, written from the side of the control
plane: sessions that are open, drained or over, and what became of each command sent on
each. A command is executed at most once for each time it is sent, within the
slots, whatever session it came on; its result comes on that session, or is lost because
the session was replaced or is over; only an agent that shuts down refuses a
command; and a session that was drained owes no result. `ImplementsService` is the
refinement: `SessionStatus` is read off the wire, the context and the run goroutine's
counter, `Fate` off an executor's counter. Goroutines, mutex, inbox, heartbeats and
configurations stutter.

### Registry

State: the three maps (as sets of names), each provider's `config` (the
required fields that are non-empty), where `ApplyOnlineConfig` is (`upPc`,
`todo`, `snapshot`), the client's `manifest`, what the control plane was last
`told`, the `session` since (Register sent, its config applied, the stream the
client's, half-closed), and three histories (`named`, `wanted`, and `pushed`: a pushed
update has changed what is offered since the last Register). An update is a
sequence of entries; an entry names anything in `Names` and sets some fields and
empties others. It comes once with Registered, before the stream is the client's
(client.go:420), or is pushed later; only then does its callback find a stream to
half-close. The write lock is held while `upPc = "entries"`. `Target` is the whole lookup of the
provider: a known capability's, or the one a prefix points to. In `ApplyEntry`
the first loop takes one manifest, in `Reevaluate` the second loop is one step:
the lock hides its iterations, and what they do to different providers commutes
because providers share no capability (`RegistryAssumption`; `RegisterProvider`
would fail on a duplicate and main with it). Update and re-registration both run
on the client's `run` goroutine; executors only look tasks up, which `GetTask` does
under the read lock, so they see the maps as `TasksMatch` says of every unlocked
state and have no steps of their own.

### AutoConfig, ConfigCell and ProviderOptions

`AutoConfig` is `State`, `Apply` and `drainPendingClose`. A configuration is a
record of the fields a client is built from (`key`) and the others (`rest`).
`options`, which never changes, takes the values of `ProviderOptions`: what each
provider hands to `autoconfig.Apply` (kubernetes rebuilds on `key` only; clients
of kafka and postgres need closing), and whether two goroutines call `Apply`.
`Apply` is three actions: `Prepare` without the lock (read, parse, compare,
build), then `Discard` or `Install` under it. Time is in ticks, `Grace` of them
to the grace period. No provider's `Build` reports an error: a client that could
not be built is installed like another, and `checksInit` says what a call on
it does.

`ConfigCell` is the abstract specification: one cell with a configuration and a
client made for it, atomic updates, and clients retired and closed later, each
once. `ImplementsCell` is the refinement, with `madeFor` the configuration the
current client was built for and `retired` the clients queued or being closed.
With overlapping updates the cell only promises that an update starts from some
configuration: two callers can each install what they computed from the same one.

### TaskSteps, the providers' task modules, and TaskRun

A task is a schema and a sequence of steps, in the order `Execute` takes them.
`TaskSteps` is the vocabulary: a step reads a parameter (one operator per helper
of `internal/provider/common` and its relatives), checks several, fetches the
client, reads the limits in force, makes a call, filters, sorts or cuts the
items of the answer. An error of a call ends the execution ("fail"), is passed over
("pass"; "else" where a success would have ended it), or is told in the answer
("report"). `WellFormed` says what makes sense of a sequence of steps: calls answer and
fail in one of the ways there are, and a client is held before it is used as the one that
is held. `KafkaTasks`, `PostgresTasks`, `PrometheusTasks`,
`KubernetesTasks`, `AzureTasks`, `LogTasks`, `LinuxTasks` and `NetworkTasks` write
down 218 tasks in it, with what their `Schema()` publishes next to what
`Execute` does.

A parameter's value is one of twelve classes (`Values`): what the helpers and the
schemas tell apart, and no more. A schema admits a set of them, a step takes a set
of them; `Lax` is a conversion whose error the code drops (frequent in linux and
network). A limit that is given is one of `LimitValues`, a bound the client is configured
with one of `BoundValues`, and `NoLimit` is a number that no answer reaches; items are
numbers, of which the filters let through those in `Matching`; a Go map is answered in
any order.

`TaskRun` is one execution, step by step, interleaved with `UpdateConfig` and
`Expire` of the provider's cell: it EXTENDS `ConfigCell`, which `AutoConfig` is shown
to implement, so that tasks and the updater compose through the abstract
specification. A client that is closed, or was not built, answers with an error;
kafka's and prometheus' go through a nil pointer (`panicked`). Linux and network
have no client: their host never changes. What the system holds (`store`) is there
whether a call gets it or not: where an error is passed over the answer lacks all of
it, and where it is told the items count as `lost`, which the caller knows.

Three simplifications: the order inside an item of an answer (the topics of one log
directory, say) is left out, an answer that is a map has the order of its keys, and of
`kafka_cluster_metadata_get` only the cut of the topics is modelled, not that of each topic's
partitions (cluster_metadata_get.go:71). `LogTasks.Search` takes the server's cut for the
task's own: it is told by comparing what came, and what there is, with the limit (search.go:84), which for a
server that keeps to the limit is the same.

`ProviderTasks` puts the programs together and states the properties. Each property
names the tasks that do not keep to it; section 5 says why for each. For each property it
also says what the order of a program's steps must be for its executions to keep to it
whatever happens meanwhile:

| property | order of the steps |
|---|---|
| `ChecksFirst` | `ChecksPrecedeCalls`: every read and check precedes the first call |
| `SchemaHonoured` | `ReadsSchema`: each read takes what the schema states |
| `OneClient` | `FetchesOnce`: one client for all calls, fetched before them |
| `LimitsInForce` | `LimitsOfClient`: limits are read of the client that is called |
| `CompleteAnswer` | `CutsLast`: limits are read, and items dropped and sorted, before anybody cuts; and an error passed over is settled by a later call that cannot be skipped and does not pass over its own |
| `TruncationTold` | `TellsCuts`: who says so cuts itself, once, and nobody cut before |
| `RepeatableAnswer` | `SortsBeforeCuts`: what comes in any order is sorted, cut or not, and before it is cut |
| `GuardrailsKept` | `StaysShort`: the bound is known to the call that keeps to it, or the cut comes after calls and bound, and cannot be skipped |
| `MatchShown` | `SearchesLast`: a search goes through the last lines there are, and its result is not touched |

Two assumptions of the module, which TLC evaluates on the 218 programs in every run of it,
say that the tasks a property names are exactly those whose steps are in another order
(`MatchShown` names none): `ExceptionsSuffice`, on which the theorems of section 4 rest,
and `ExceptionsNeeded`.

### Numbers

One call with any arguments, in words of `Width` bits: `nextBackoff`,
`ValidateTimerange` with `parseTimerange`, `AsIntOK` and `AsDurationOK`. A float, and
the text of a duration, is given in halves, which is all that "is it whole" needs; what Go
makes of a float beyond an int64 depends on the processor and is either extreme.
`AsDurationOK` takes seconds, as an integer or a float, which it refuses below zero; and a
time.Duration or the text of one, which it takes with their sign (extract.go:168-175). A
fraction of a nanosecond is dropped, toward zero.

## 3. The runs

| run | shows |
|---|---|
| `client_safety` | `SemaphoreExact`, `ManifestFresh`, `GracefulDelivers`, `CloseLeavesNothing`, `NoRetryAfterPermanent` under every interleaving of two commands, one slot, two streams and Close; the refinement `ImplementsService`; and beside one command `ConfigOrder`, with a pushed config and one in each Registered, of versions 0 to 2 in any order |
| `client_live` | `CloseTerminates`, although sends may block for ever; `Reconnects`, `ManifestConverges`, `ExecutorsFinish` if the network eventually serves |
| `registry_follows` | `TasksMatch`, `ManifestCurrent`, `ConfigFollowsUpdates`, `RegistryMatchesConfig`, and `ViewConverges`: the control plane is told in the end of what a pushed update changes, if the client is served (nothing is promised of a change by the config in Registered) |
| `autoconfig_cell` | the refinement, `ClientMatchesConfig`, `OnePlace` (no leak, no double close) and `RetiredClosed`, with every provider's options, and two callers where a client is rebuilt on every change |
| `tasks` | of all 218 tasks: `ChecksFirst` (nothing is asked of the system before the parameters are checked), `SchemaHonoured`, `OneClient`, `LimitsInForce`, `CompleteAnswer`, `TruncationTold`, `RepeatableAnswer`, `GuardrailsKept`, `MatchShown`; and the assumptions `ExceptionsSuffice` and `ExceptionsNeeded` |
| `numbers` | `BackoffBounded`, `BackoffGrows`, `RangeGuarded`, `NumberKept`, `DurationKept`, for every argument |

Runs that end in a counterexample, each a disagreement between the code and a
sentence of the repository (quoted under `findings`):

| run | the code |
|---|---|
| `client_stale_manifest` | applies the effective config of Registered before the stream is stored, so a manifest changed by it does not force a re-registration |
| `client_silent_heartbeat` | leaves a session without heartbeats when an ack is missing |
| `client_push_reconnects` | ends the session on a pushed config that changes the manifest |
| `registry_omitted` | withdraws capabilities an update does not mention |
| `autoconfig_grace` | closes a client earlier than the grace period after its replacement |
| `tasks_unbuilt` | calls through a nil pointer when a kafka or prometheus client could not be built |

Bounds, and why they are enough:

* `MaxStreams = 2`: a session and the one after it; what an executor of an old
  stream does to a new session appears with two. The last stream is not
  disturbed, so that the liveness properties do not fail for want of streams.
* `Commands`, `MaxConcurrent = 1`: two commands for one slot make the receive
  loop wait for an executor; runs about configs or Close need one or none.
* `MaxInbox`, `MaxPushes`, `MaxVersion`: an old, an equal and a new version can
  be in flight together. `client_live` has unversioned configs only, which always take
  effect.
* `OneWithConfigs`, the state constraint of `client_safety`: where a versioned config has
  taken effect or any was pushed, at most one command was sent, on either stream. Two
  commands at a time, on both streams, are explored with the registrations' unversioned
  configs. A config and an execution touch one another in the half-close of the
  stream alone, for which one execution is enough. Without the constraint the same properties
  hold (5.4 million states instead of 1.1 million).
* `AckWindow = 2` stands for the client's `2 * interval + 5s`. It is 1 in `client_live`, where
  all that matters is that the loop may give up or go on at a tick: both remain possible.
* `MaxEntries`: two entries of one update may name the same provider, undo one
  another or withdraw two providers at once. The registry instance has a
  provider with two capabilities of which the whitelist lets one through, one
  that needs two fields, and one with no task; `MCFewNames` leaves out the names
  that behave like another one in the set, or lead to no provider (`registry_omitted` has
  them all).
* `MaxClients = 4` (AutoConfig): a client is in use, two are queued and one is
  being closed at the same time; `Grace = 2` lets a client join a sleeping drain.
  `closed` counts to 2, enough to see a client closed twice.
* `LimitValues = {1, 2}`, `BoundValues = {1}`, `Matching = {1, 3}` (tasks): limits at
  and above the bound, and a filter that keeps the first and the last of items 1 to 3.
  `NoLimit = 9`: more than the four items of the longest store.
* `MaxClients = 2` (tasks): the client a task started with and its replacement,
  the first closed under it or not. The properties hold with three clients as well
  (7 million states). `Stores`: a system that holds nothing, one item that the
  filters keep or drop, or three or four, out of order, with the wanted ones first
  and last; with limits of 1, 2 and none, bounds of 1 and none, an answer can be too
  long, just long enough and too short, before and after the filters. `Keys` and `Rests`
  are symmetric: no step compares them but for equality.
* `Width = 6`, `Second = 4`, `MaxAttempts = 7`: all words, and numbers beyond them on
  both sides; seven doublings leave a word of six bits from any base. Base
  and maximum take every value; the properties of the delay ask that the maximum
  leave room for the jitter, as 30 s does in 64 bits.

Deadlock is checked except in the AutoConfig runs, where nothing more happens
once all `MaxClients` clients are built and closed, and in `tasks` and `numbers`,
where a behaviour is one execution or one call and ends. In the client the only
state without another step is `Terminated`: Close has returned and every
executor has finished.

Fairness. `AgentFairness` of the client: every goroutine that can run is scheduled,
tasks return (their context is cancelled by a timeout), and a goroutine that
waits for `sendMu` while others pass through it gets it in the end (strong
fairness; Go's mutex hands over to a starving waiter). This is all
`CloseTerminates` assumes: sends need not return. The other three properties of
`client_live` have `NetworkFairness` as their premise: connecting succeeds
again and again, the control plane answers Register, sees a half-close, and
takes what is sent. In `Registry` the run goroutine is scheduled, which is all that
`FairSpec` has; that a stream which the client half-closed is followed by another Register,
however many updates come before, is the premise `Served` of `ViewConverges`. It
holds unless Close or a permanent rejection ends the client (`Reconnects`). It says
nothing of a change by Registered's effective config, after which no stream is
half-closed and the client need not register again (`client_stale_manifest`). In
`AutoConfig` the drain's timer fires.

That tasks return is not true of one: `linux_kernel_dmesg` reads `/dev/kmsg` to
an end that the device does not have (kernel_dmesg.go:64), so it may never return. Where
it does not, its slot stays taken, and a graceful Disconnect and a Close that follows it
wait for ever: `ExecutorsFinish`, `Reconnects` and `CloseTerminates` hold for the other 217
tasks.

## 4. What is proved

For every value of the constants that satisfies the modules' assumptions:

`ControlPlaneClientProofs` (assuming `ClientAssumption`): `TypeCorrect`,
`SemaphoreCorrect`, `ConfigOrderCorrect`, `CloseCorrect` (of the run goroutine and the
heartbeat loop; Close does not wait for executors, which may still run a task or fail
to send its result), `PermanentCorrect`. None
of the invariants is inductive alone. The inductive invariant `IInv` adds, next
to types, what ties the program counters to the shared state: a slot is held
exactly by the executors under way, `applied` is increasing and ends at
`lastApplied` (`ConfigOrder` needs the last element to be the greatest),
`SessionOpen` (which points of the run goroutine have a stream, a heartbeat
goroutine and an open wire) and `GivenUp` (after a permanent rejection the run
goroutine is on its way out and cannot reach `ConnectOpens`). Each action has a
step of its own; the lemmas about counting executors and about appending to an
increasing sequence are stated once.

`RegistryProofs` (assuming `RegistryAssumption`): `RegistryTypeCorrect`,
`TasksMatchCorrect`, `ManifestCurrentCorrect`, `ConfigFollowsCorrect`,
`RegistryMatchesCorrect`. The inductive invariant adds
`AllOrNone` (a provider offers all its capabilities or none: without it
`hasAnyCapabilityLocked` would say nothing of the other capabilities), `Owned`
(every capability offered is a registered provider's), `Started` (updates come
after registration) and `Notified` (the snapshot handed to the callback is what
the registry still offers). `TargetNamed` is the argument why an update
finds its provider whether its capabilities are registered or not;
`Reevaluated` the one why the second loop ends in the configured capabilities.

`SessionProofs` (the same assumption) follows one stream from `connectOnce` to the join:
`GracefulCorrect` and `ManifestCorrect`. A result counts as sent when `SendMsg` has returned
without an error, i.e. when gRPC has taken it. Its invariants come on top of `IInv`:

* `SInv`: `SessionOpen`, `Numbered` (no job was sent on a stream yet to be opened, so a
  new stream starts with none) and `RegisterFirst` (nothing is in the inbox before
  Register is sent).
* For `GracefulDelivers`: a command sent is in the inbox until it is dispatched
  (`SentQueued`), nothing follows a Disconnect (`DisconnectLast`), so the drain begins with
  an empty inbox and a peer that sends no more (`GracefulOver`), and until the join a
  stream that nothing disturbs loses no job (`NothingLost`). The drain ends when no
  executor of the client is left, and then every job of the stream has its result sent.
* For `ManifestFresh`: the control plane has accepted what the last Register said
  (`Accepted`), and that is still the client's manifest unless the stream is
  half-closed (`Sent`). `Sent` is where a config in Registered that changes the manifest
  breaks the argument: no stream is stored yet that could be half-closed. The
  theorem therefore says of every client that only such a config can leave the manifest stale
  (`OwnConfigAtMost`: on a stream that is neither broken nor being ended the manifest is the
  one registered, or has the one change more that this Registered brought), and of one whose control plane
  sends none (`~EffectiveMayChange`) that it is fresh. `client_stale_manifest` shows the
  other case.

The same module proves that the client keeps what `CommandService` promises:
`ServiceCorrect`. Each step is one of the service's or a stutter: `Dispatch` is `Start` or
`Refuse`, `ResultSent` is `Deliver`, `ResultLost` is `Lose`, `ServerExecutes` is `Send`,
`CloseCancel` is `ShutDown`, the steps of the run goroutine are `Open`, `End`, `Drained`
or stutter. `DInv` carries what the map needs: a command sent is in the inbox until
it is dispatched, so `Dispatch` starts one that was sent and none twice. That `Drained` is
allowed, which is the promise about results, is `GracefulDelivers`; that `Start` is, on `SemaphoreExact`, which makes of a slot taken
from the channel an execution of the service (`ServiceCounts`).

It also proves the safety on which the client's liveness rests, by the measure and the
progress condition one would give for termination by hand:

* `CloseMoves`: until Close has returned, the guard of some goroutine's step holds
  (`CanMove`). Once the context is cancelled nobody blocks but on `sendMu`, on the drain,
  on the join and on Close itself, and each of them waits for somebody who can move: the
  holder of `sendMu` sees its send fail, executors return, a heartbeat loop exits. `CInv`
  says who exists by then (only Close cancels, `run` was started, a session has a heartbeat
  loop).
* `CloseEnds`: after the cancellation every step of a goroutine lowers `Work`, a natural
  number, unless a message arrives. `Work` adds what each goroutine has before it, the slots
  taken, the executors running and four steps for each message in the inbox: one message
  may start an executor.
* `RunPersists`: the run goroutine ends for Close or a permanent rejection only, the safety
  half of `Reconnects`.

`AutoConfigProofs` (assuming `AutoConfigAssumption`): `AutoConfigTypeCorrect`,
`ClientMatches`, `EveryClientInOnePlace`, `AutoConfigImplementsCell`,
`QueueServed` and `DrainEnds`, for any fields, callers, grace period and number of clients.
The inductive invariant adds what the unlocked half of `Apply` relies on:
`CallersApart` (one caller, or a client rebuilt on every change) and `CallsValid` (what a
caller computed before it takes the lock is still right when it has it; with one
caller because nobody came between, with two because it rebuilds anyway). `OnePlace`
counts; the invariant says the same without counting: `Unshared`, `Known`, `Apart` (no
client is in two places) and `NoneLost` (none that must be closed is nowhere), and
`Located` turns that into the number. The refinement goes action by action:
`Prepare`, `Tick` and `DrainTake` stutter, `Install` is the cell's update, `Discard` its
closing of a client that was never installed or a stutter, `DrainClose` its
`CloseRetired`. `QueueServed` and `DrainEnds` are the safety half of `RetiredClosed`: a
client in the queue always has a drain that sleeps or wakes (`Scheduled`), no later update
makes it wait longer (`InstallKeeps`), and every step of a drain lowers `DrainLeft`, what
is left of its sleep and the clients it has to take and to close.

`NumbersProofs` (assuming `NumbersAssumption`): `BackoffInBounds`, `BackoffDoubles`,
`RangesGuarded`, `NumbersKept`, `DurationsKept` (the duration that was sent, to the
nanosecond, and not negative if it was sent as a number of seconds), for words of any width
and any number of attempts. The provers do no induction; two facts stand in for it. A statement
about every number of attempts is refuted at its least counterexample, which the
library's well-foundedness of `<` on Nat provides (`LeastElement`); and what is needed
of powers of two comes from counting: `2^n` is the number of subsets of a set of `n`
(`PowerCounts`), so `2^(n+1)` is twice as many (`PowerDoubles`, a bijection).

`ProviderTasksProofs` (assuming `TaskRunAssumption` and `ExceptionsSuffice`):
`ChecksComeFirst`, `OneClientOnly`, `LimitsOfTheClient` and `SchemasHonoured` state the
properties of section 3 as theorems of `Spec`, for every execution, however many clients are
made and closed meanwhile. They are proved of any programs, not only the 218, in which
every task not exempt has its steps in the order named in section 2; that the 218 are such
programs is what TLC evaluates. The inductive invariant looks back from where an execution is
(`Behind`: the step last taken, and whether the client was fetched, the limits read, or
a call made, by a step that lies behind). `TasksShareCell`: an execution, with the
updates that interleave with it, moves its provider's cell only as `ConfigCell` allows.
With `AutoConfigImplementsCell` this is the composition of tasks and updater: both sides
of the cell are proved against the same abstract specification.

`AnswerProofs` (the same assumptions, and the same form) is about what an answer contains:
`AnswersComplete`, `TruncationsTold`, `AnswersRepeatable`, `GuardrailsHold`, `MatchesShown`
and `TasksTypeOK`, for stores of any length. Its lemma `StepEffects` maps each action to
what it does to the answer (`Answers`, `Misses`, `Leaves`, `Keeps`, `Sorts`, `CutsHere`, ...), and
every argument goes by these effects.
`Sized` is common to all: where the execution is, which limits can be in force there, that
an answer reaches no `NoLimit`, and that there is none before a call that answers. On
top of it each theorem has an invariant of its own, a claim about the answer so far that the
property makes only about its end:

* `Full`: nothing that was asked for is missing; or a cut lies behind and the answer is
  as long as was wanted; or a call has passed over its error and a later one, which the
  execution cannot pass by, asks again (`Missing`). A filter after a cut breaks it, and so does
  a limit read after it, and an error that is passed over for good.
* `Told`: nothing is missing, or the answer says so; and it says so only after its cut.
* `Regular`: up to the first cut the set of items is what is wanted, in order once a sort
  lies behind; after it the answer is the first of what is wanted. As a sort does lie behind
  at the end, the answer is then one sequence, and not one of several with the same items.
* `Short`: once what sets a bound and what cuts to it lie behind, the answer is no longer.
* `Searches`: until the search the lines are the last there are; after it a match is shown,
  if more than one line may be.
* `TInv` (types): the client held or asked was made, and items come from the store. It rests
  on `Made` and `Behind` of `ProviderTasksProofs`: a held client was fetched by a step behind.

`ItemProofs` has what these need of sequences. A finite set of naturals can be written
down in order (`Enumerable`), in one way (`OneOrder`); `Only` keeps what is asked for,
no longer than before (`OnlyIs`), `Take` what comes first (`TakeIs`), and what
is sorted already stays so (`SortedAlready`, `StaysIncreasing`). `ContextShowsMatch`: the
lines up to the first match fit into the limit, whatever the lines are and whatever limit
above one. The induction is again a least counterexample, of the size of a set (`LeastOf`).

Only model-checked:

* liveness (`CloseTerminates`, `Reconnects`, `ManifestConverges`, `ExecutorsFinish`,
  `ViewConverges`, `RetiredClosed`): out of the prover's reach, like the fairness they
  assume. The steps that `CloseTerminates` and `RetiredClosed` consist of are proved
  (`CloseMoves`, `CloseEnds`, `QueueServed`, `DrainEnds`); that fair scheduling takes
  them is TLC's part.
* that the programs of the 218 tasks are well-formed and in the order the theorems
  rest on: an evaluation, of `ExceptionsSuffice` and of the assumption of `TaskRun`, on every
  run of them.

Every other property of a passing run is stated by a theorem. In the theorems about tasks
programs, stores, limits, bounds, configurations and clients are any, and a filter lets
any set of items through.

## 5. What holds only as the code is used, and who is exempt

* `Apply` with a Recreate option and two callers could install a client it never
  built (the second look at the configuration decides again whether to replace).
  Only kubernetes has the option and `Registry.mu` admits one caller, so the
  agent cannot get there and the model leaves the case out.
* Not runs, but read off the same models: main registers unconfigured providers
  with their capabilities, so they are offered until the first update (main.go:76);
  a provider hidden by the whitelist still triggers the callback (registry.go:269);
  the os provider advertises capabilities without a task (main.go:195); a command
  id sent again is executed again (client.go:464).
* With `EffectiveMayChange = TRUE` `ManifestFresh` fails (`client_stale_manifest`);
  `client_safety` checks it with a control plane whose effective configs leave the
  manifest alone.
* `internal/task/task.go:24` says that the control plane validates input against
  the schema before dispatch. The models do not rely on it: any class of value
  arrives, and `SchemaHonoured` compares the two.

Tasks exempt from a property, by name, in `ProviderTasks`. Each one is needed: its steps are
in no order that would do (`ExceptionsNeeded`), and without its name in the property
TLC shows an execution that breaks it.

| property | exempt | because |
|---|---|---|
| `ChecksFirst` | kafka `consumer_group_list`, `topic_list` | compile the pattern after the call |
| | linux `system_environment`, `filesystem_space_consumers`, `cgroup_get`, `cgroup_processes` | check a parameter after the first reading, which two of them need for it |
| `SchemaHonoured` | kafka `consumer_group_list`, `topic_list`, `partition_list` | never read `page_token` |
| | kafka `partition_offsets_get` | refuses the date-time its schema documents, and uses the timestamp for nothing |
| | kafka `topic_config_diff` | refuses the empty list of topics that the schema allows |
| | kafka `logdir_replica_sizes_get` | default and maximum are 100 and 1000, the schema says 1000 and 10000 |
| | postgres `connection_ping` | never reads `timeout` |
| | prometheus `query_instant`, `query_range` | the client appends the guardrail's timeout after the task's, which has no effect (client.go) |
| | linux `journal_query` | `priority`, `since`, `until` have no effect |
| | nine linux tasks (`MinimumUnstated`) | require a pid or limit above zero, the schema does not say so |
| `OneClient` | six kafka tasks of several calls | fetch the client for each call |
| `LimitsInForce` | kafka `cluster_metadata_get` | fetches a client for the limits alone |
| | azure `logs_query_appgw`, `logs_query_vnet_flow` | read configuration and client apart |
| | kubernetes `pod_logs` | keeps the `MaxPodLogLines` it was made with |
| `CompleteAnswer` | kubernetes `pod_describe`, `service_list` | filter what the server has cut already |
| | kubernetes `pod_logs` | a search, too, cuts the answer |
| | log `graylog_fieldstats` | returns the first group only |
| | linux `process_tree` | a process of another user hides those below it |
| | twelve linux tasks (`PassedOver`): `socket_list`, `network_route_list`, `network_neighbor_list`, `network_rule_list`, `firewall_iptables_rules`, `systemd_unit_list`, `systemd_unit_definition`, `systemd_unit_logs`, `journal_query`, `journal_boots`, `service_failed`, `core_dump_list` | a source that cannot be read, or a command that fails, is dropped; the empty or partial answer is a success |
| | postgres `maintenance_progress`, kafka `partition_offsets_compare` (`PassedOver`) | drop the error of one of several calls, likewise |
| `TruncationTold` | prometheus `query_instant`, `query_range` | the server cuts before the task counts |
| `RepeatableAnswer` | prometheus `metadata_get` | answers, and cuts, in the order of a Go map |
| | prometheus `scrape_pools_list`, kafka `partition_logdirs_get` | answer in the order of a Go map |
| `GuardrailsKept` | prometheus `status_tsdb` | no limit unless one is asked for |
| | log `graylog_histogram` | never looks at `LimitBuckets` |
| | linux `package_list` | with dpkg, lists the last package twice, one above the limit |

`MatchShown` names no task but leaves out a limit: `kubernetes_pod_logs` with `tail_lines` 1,
the least its schema admits (pod_logs.go:188), returns the line before the first match, where there is one, because
the context is at least one line on either side and the window is cut from its first line
on (pod_logs.go:123-126). With a limit of two or more the match is among the lines shown.

Of the numbers: a relative range of more than 2^63 ns wraps, an absolute one beyond
the shortest Duration saturates and changes sign into itself, and a float of
exactly 2^63 passes the test against `MaxInt64` (extract.go:253, :264); the properties
leave those arguments out, each in a condition of its own. A configured duration that comes as
a text ("-5s") or a time.Duration may be negative and is accepted as such (extract.go:168-175);
`DurationKept` promises a sign for numbers of seconds only. The jitter is added
after the cap, so a delay may exceed the maximum by half, and be less than twice the one
before; what `BackoffGrows` promises is the floor, the base doubled for each failure.

## 6. Not modelled, and why

* Formats and texts: the lines of `/proc`, `/sys` and `/etc` that linux tasks parse,
  the SQL of postgres, KQL of azure, DNS and ICMP packets. An item can be read or
  cannot; what its fields say is not the models' concern. The same goes for
  the redaction of secrets in environments and command lines.
* What happens inside a call: paging of azure and kubernetes is part of the
  answer; retries of kafka's coordinator requests, statement timeouts of
  postgres and the timeouts of network tasks are part of "answer or error".
* The arithmetic of consumer lags and partition offsets (kafka): sums over
  answers, with no state.
* Sections of the kafka configuration, which an update replaces as a whole
  where other providers merge field by field (kafka/provider.go:88): a
  configuration is two fields here.
* Static configuration (loaded and validated once: it is the arbitrary initial
  configuration of `Registry`), metadata (host facts, read once), call
  credentials and TLS settings (built once).
* The protocol bindings (generated) and the schema generator (a developer's tool
  that prints).

## 7. Plan

Done: `ControlPlaneClient` and `Registry` with their runs and theorems,
the client against `CommandService`, `AutoConfig` against `ConfigCell` with every
provider's options, the tasks of all providers over the cell, the arithmetic, and the theorems of section 4.

1. `Agent`: client and registry composed; `CommandService` extended by what the registry
   decides (which command is executed, the advertised manifest eventually the
   configured one).
2. The coordinator's retries (kafka) and the hop loop of traceroute (network),
   as modules below a call.
3. Parsers of provider configurations on top of the extractors.
