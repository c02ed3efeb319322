# chatter in TLA+

This directory holds a formal model of chatter, an OSPF v2 daemon (`chatterd`)
with a command line client (`chatterc`), written in Go. The modules are
translated from the code under `src/`; `PROJECT.json` maps every definition to
its lines. TLC checks small instances, TLAPS proves theorems for every instance.

    tlc -workers 2 -config Notifier.cfg Notifier      # any run of the table below
    tlapm NotifierProofs.tla                          # Induction or any ...Proofs

## 1. The system

Most of what is hard in chatter is in the daemon: goroutines that talk
through channels and stop each other through contexts. A mutex is a channel of
capacity 1 with the guarded value in it: receiving takes the lock, sending back
releases it.

    UpdateConfig            n.watch lines
         |                        |
    ConfigManager           InterfaceMonitor (scutil, four goroutines)
         | Notifier               | SimpleNotifier
    ServiceManager.Run      ospf.Instance.Run (feeder, updater)
         | Stop / start           | dispatch
    services: api server, interface monitor, ospf instance
         ^                        v
    GetServices (gRPC)      ospf.Interface goroutines

| Component | State it keeps | Operations | Talks to | What makes it correct |
|---|---|---|---|---|
| `sync.Notifier`, `SimpleNotifier` (`sync/notifier.go`) | value, sequence number and waiters, in `n.st`; one signal channel per waiting call | `NotifyChange`, `AwaitChange`, `LastChange` | used by ConfigManager and the monitor | the state is never lost or duplicated; a publisher never blocks on a listener; no lost wake-up; versions are never mixed up or delivered backwards |
| `sync.QueuedNotifier` (`sync/queued_notifier.go`, `sync/queue.go`) | a map of queues, each a list split over two channels | `Register`, `Unregister`, `NotifyChange`, `AwaitChange`; `Put`, `Get` | no user yet | exactly the values of the registration, in order; nobody blocks anybody |
| `config` graph (`config/graph.go`, `config/config.go`) | the services and their dependencies | `addNode`, `topologicalSort`, `Bootstraps` | ServiceManager starts services in its order | dependencies first, each once, terminates on cycles |
| `config` OSPF (`config/ospf.go`) | the parsed tree of areas and interfaces | `parseOSPFConfig`, `InterfaceConfigs` | `ospf.NewInstance` | the verdict and the result do not depend on the order of Go's maps; the nearest setting wins |
| ConfigManager (`config/config_manager.go`) | the configuration, in a Notifier | `UpdateConfig`, `AwaitChange` | ServiceManager | see Notifier |
| ServiceManager (`chatterd/services/service_manager.go`) | controllers of running services, in `s.st`; `confCh` | `Run`, `start`, `Get`, `RunningServices` | all services | generations never overlap, nobody sees half a restart, the newest configuration is applied, shutdown ends |
| API server (`api/server.go`) | the gRPC server | `Run`, `Shutdown`, `GetServices`, ... | `RunningServices` | stops gracefully |
| Interface monitor (`net/netmon`) | a batch, a timer, `events` | four goroutines around `scutil` | publishes to the OSPF instance | an accepted event is heard; a cancelled monitor returns |
| OSPF instance and interfaces (`ospf/ospf.go`, `ospf/interface.go`) | `i.Interfaces`, and the state of each | `Run`, `updateInterfaces`, `handleEvent`, `sendEvent`, `sendEventWait` | follows the monitor, gets it from the ServiceManager | the table follows the network; a stopped instance returns |
| Link-state database (`ospf/lsdb.go`, `packet.go`, `neighbor.go`) | LSAs by key | `Compare`, `SetAge`, `IsChecksumValid`, the Fletcher checksum | nobody yet | routers agree on the more recent of two instances; a checksum verifies until the LSA is damaged, whatever its age |
| `chatterc` commands (`chatterc/commands`) | the command graph | declare, merge, match, complete | the CLI | merging loses and invents no command; an unambiguous line runs the command it names, with arguments its handler can take |
| `chatterc` CLI (`chatterc/cli.go`) | the graph, the last key | `Register`, `Document`, `RegisterAutocomplete`, `Run`, `runLine`, tab, question mark | commands, API client, pager | what is offered leads to commands, every command is offered, and completions are laid out without loss |
| `chatterc` pager (`chatterc/pager.go`) | a buffer, the screen line | `Write`, `paginate` | CLI | output in order and once, no faster than the user asks for, quit is final |
| `rpc`, `api/client.go`, `chatterd/common`, `chatterd/main.go` | none of interest | field copies, gRPC calls, start-up | | |

The hard behaviours are: interleavings of publishers, listeners and
cancellation around a channel used as a mutex; a manager that holds its state
while it waits for services that may need the state; a non-blocking send that
drops events; a timer that fires while the context is cancelled; a state that is
read without synchronisation while its owner changes it; sends to goroutines
that have returned; a map that one goroutine reads while another writes it; Go's
random map order; a pager between a program that writes in pieces and a user who
presses keys; arithmetic with corrections at its edges. `PROJECT.json` lists each under
`hazards` with its line and the properties that watch it.

## 2. Modules

**Broadcast** is the abstract specification of the notifiers: a history of
published versions, and listeners that learn versions, never backwards and never
with another version's value. **Notifier** is `sync/notifier.go`, one action per
channel operation: `stCh` is the buffer of `n.st`, `st[p]` a goroutine's local
copy, `chan[c]` the buffer of a signal channel, `pc[p]` the goroutine's place.
The listeners call it as its two users do: `LastChange` once, then `AwaitChange`
in a loop with the sequence number last returned; any listener's context may be
done at any time. A channel is taken from `Chans` when a call makes it and is
free again when no variable holds it any more (Go's garbage collection).
Notifier implements Broadcast (checked and proved), and ServiceManager uses the
notifier of the ConfigManager only through Broadcast.

**QueuedNotifier** is the unbounded variant: `Put` and `Get` step by step on the
two channels `items` and `empty` of a queue; registration and lookups are one
step each, since nobody can see in between while the map is out of `n.st`.
Versions are numbers, so that "in order and once" is an equation between
sequences.

**ServiceGraph** is `Bootstraps`: the recursion of `visit` is an explicit stack
of frames, and each loop over a map takes any remaining element.

**ServiceManager** has the feeder and the manager goroutine of
`ServiceManager.Run`, every service instance ever started (`inst`, with its
generation and configuration), the API server's pending `RunningServices`
calls, and `UpdateConfig` and `Shutdown` from outside. `ManagerStart` is one
iteration of the start loop, and an error (`ManagerStartError`) returns with the
state still held, as the code does. Composition: the notifier's variables
`hist` and `seen` are changed by Broadcast's own actions, and the order of
`toStart` is any order the sort may return.

**NetMon** is the macOS monitor: writer, reader, batcher and waiter, `scutil`
and its pipes (external, as the code uses them), and a listener. A non-blocking
send succeeds only if the batcher is `parked`. `time.Timer` has the semantics of
the module's Go version: a value stays in its channel after it fired.

**Ospf** is the instance: feeder, updater, one goroutine per interface. The two
loops of `updateInterfaces` run over sets in any order; every event is a send
that the interface must be ready to receive. `stale` is a history variable: this
update has read a `State` whose handler was still to come. The hello timer is
armed or not; expiring sets it again. A goroutine that is started reads
`i.Interfaces` while the updater may be about to write it (`WritesMap`): then the
Go runtime may notice and end the process (`MapRace`), or the two take effect in
one order or the other.

**OspfConfig** is the parser of the OSPF section and its inheritance of
settings; the three nested maps are gone through in any order. YAML decoding and
the syntax of ids are constants (`Documents`, `IdOf`); two names may denote the
same id, as `0` and `0.0.0.0` do.

**Lsdb** has `Compare` as an operator on headers, the Fletcher checksum as the
running sums over octets (`Sums`, a recursive function), and the history of one LSA: originated with check bytes at some
offset, aged by `SetAge`, perhaps damaged on its way. Go's `%` and its sign are
kept (`Rem`).

**Screen** is the pager and `wrap`. Text is a sequence of characters of which
only the newline is special; `Write` goes line by line and may wait at the prompt
in between (`pc`), every read and write of the terminal may fail, and the height
of the screen is asked for at every `Write`. `sent`, `fresh` and `failed` are
history: what the command wrote, how many lines appeared since the last key, and
whether the terminal failed. `wrap` is an operator on the lengths of words, and
Go's truncating division is kept (`Quo`).

**Address** has the two tests by which the question mark recognises an address
that is still being typed. A word is the result of splitting it at colons and
dots. `Begins4` and `Begins6` say, by the forms of whole addresses, what can be
completed to one, and the property compares them with the code's tests.

**CommandGraph** is `commands.go` as operators on a heap of nodes, because the
graph shares nodes and merging changes them in place: what follows a choice is
one node. A declaration is a sequence of elements, an element a sequence of
atoms; a line is a sequence of tokens. The constant `Begins` is
`strings.HasPrefix`, `V4` and `V6` are what `netip.ParseAddr` accepts, `Prefix4`
and `Prefix6` what the two tests of Address accept. **Cli** is the
program on top: any sequence of `Register`, `Document` and
`RegisterAutocomplete` (an error ends the program, as in the `Must` variants
that chatterc uses), then a user who types lines, presses tab, `?`, Enter and
^C. `Registered`, `Expand` and `Meant` say what the declarations mean
without any graph, and `Documented` is the rule of Match's comment applied to the
matches of the graph; the properties compare the code with them. Both modules use
recursion on the graph and are only model-checked.

The proofs are in modules of their own. **NotifierProofs**,
**QueuedNotifierProofs**, **NetMonProofs** and **ServiceManagerProofs** are about
the module they are named after, **OspfProofs** about Ospf and Lsdb,
**ConfigProofs** about ServiceGraph and OspfConfig, **ClientProofs** about Screen
and Address. Each begins with the inductive invariant of its component.
**Induction** has the induction over natural numbers that OspfProofs and
ClientProofs rest on.

`MCServiceGraph`, `MCServiceManager`, `MCOspfConfig` and `MCCli` define finite
constants; the other modules get theirs from the `.cfg` directly. `MCSequential`
puts the sequential parts of the daemon (ServiceGraph, OspfConfig, Lsdb) side by
side, and `MCScreen` those of the client (Screen, Address): they share no state,
and a behaviour of the run is about one of them.
Definitions whose name has a suffix, such as `BatcherFlush_Drop`, are
deliberately wrong variants of the definition that follows them; they occur in
no specification, and `PROJECT.json` names the property that each one breaks.

## 3. Runs

| Run | Shows | Distinct states |
|---|---|---|
| `notifier` | safety of Notifier, liveness, and the refinement of Broadcast (which implies `SeqNeverGoesBack`) | 157 k |
| `queued_notifier` | one owner per queue, nothing missed, publishers return, everything delivered | 24 k |
| `service_manager_safety` | restarts with failing services and builders | 3.8 M |
| `service_manager_live` | newest configuration applied and shutdown ends, unless stuck | 193 k |
| `service_manager_restart` | violation of `ConfigApplied` | 831 k |
| `netmon` | batching, timer and cancellation, with crashes of scutil | 20 k |
| `netmon_heard` | violation of `ChangeIsHeard` | 9 k |
| `ospf` | two interfaces, one perhaps loopback, with failing system calls, the hello timer and the race for the map | 427 k |
| `sequential` | every graph over four services with up to two dependencies, cycles included; every document of the bounded set, in every order; LSAs with octets at every edge and check bytes at every offset, aged and damaged | 456 k |
| `commands` | every sequence of three declarations, then lines typed, completed and run | 358 k |
| `commands_match` | violation of `MatchIsDocumented` | 400 |
| `screen` | output in pieces, keys, resizing and failures of the terminal; completions on every small width; addresses as they are typed | 1.8 M |

What the properties say stands above each of them in the modules. The type
invariants (`TypeOK`, `LsaTypeOK`, `WellFormed`) hold under the same
configurations, and so do the inductive invariants of section 4 (`IInv`,
`GraphInv`, `LsaInv`, `PagerInv`), which are in the modules of the proofs; the
runs leave them out for the properties they serve.

**Bounds.** Notifier: two listeners and one publisher that publishes twice are
the smallest instance in which a listener can wait on a version, miss one, be
cancelled while another is signalled, and reuse a channel; three channels are
one more than the listeners can hold, so a fresh channel is always available.
More publishers only compete for the mutex, and the proofs cover any number.
QueuedNotifier: two publishers (a `Put` may meet a `Get` and the other's `Put`
of the next value), two listeners, two values. ServiceManager: three services
with chatter's own dependencies, two configurations, two generations, one API
call; two generations are one restart, which is all a step of the manager can
see (it forgets the previous generation). NetMon: three changes, so that one can
be batched, one dropped and one be in flight. Ospf: two ids, one of which may
have the loopback flag, and one change after an arbitrary initial network, hence
two updates of which the second meets what the first left. OspfConfig: one
setting that is given at any level or at none, with a value of its own at each
level and, as defects, no integer, 0 and limit + 1, and one that is never given;
three names for two ids plus one that has none, two interfaces. Cli: sixteen
declarations that meet in the words `show` and `clear` (the same choice twice, in
another order, widened, as an atom, with and without parameters), three of them
in any order and repetition, so that a third meets what two made together.
Lsdb: bodies of three octets from 0, 1, 127, 128, 254, 255 beside the check
bytes, so that both sums and both corrections of the check bytes meet 0, 255 and
a negative remainder; ages on both sides of every threshold; one damage, as a
second could undo the first. Screen: heights from 0 to 4 and six characters in
writes of one to three, so that a screen fills up more than once and a line is
cut at either side of its newline; up to four words of lengths 1 to 3 on widths
from 0 to 16, narrower than the indent included. Address: one octet or group at
an edge (leading zero, 199, 249, 255, 256, 260, 300, four digits, five hex
digits, no digit), at any place among others that are `1`, up to eleven parts.

`CHECK_DEADLOCK FALSE` is used everywhere because these systems do stop: bounded
publications end, goroutines return, the sort and the parser finish. Hanging is
checked by the liveness properties instead.

**Fairness.** A goroutine that can go on does so in the end (weak fairness):
the Go scheduler is preemptive. Receiving a mutex from a channel is strongly
fair where several goroutines compete: Go queues the waiting receivers of a
channel first in, first out. A `case <-ctx.Done()` of a select in a loop is
strongly fair because select chooses at random among the ready cases. No
fairness is assumed of the environment: publications, configuration changes,
network changes, cancellation, crashes, API calls, and errors need not happen.
Exceptions, each a promise of the environment the code relies on: an armed timer
fires, and scutil exits once its stdin is closed.

### What the violations show

* **`ConfigApplied`** (`service_manager.go:107`). The manager holds `s.st` while
  it waits for the services it stopped. An OSPF instance that was just started
  waits for `s.st` in `Get`, which does not look at its context. If the
  configuration changes in between, both wait for ever. A shutdown can hang the
  same way: after `ctx` is done, `AwaitChange` returns the configuration once
  more, the select may take it, and the manager then waits for the API server,
  whose `GracefulStop` waits for a `GetServices` call that waits for `s.st`.
  `ShutdownEndsUnlessStuck` and `ConfigAppliedUnlessStuck` show that this wait
  (`Stuck`) is the only way.
* **`ChangeIsHeard`** (`interface_monitor_darwin.go:79`). A line that scutil
  writes while the batcher is outside its select is dropped, and nothing is
  pending that would make up for it. What the batcher accepted is always heard
  (`AcceptedIsHeard`).
* **`MatchIsDocumented`** (`commands.go:701`). Disambiguation looks the surviving
  candidates up by their position in the narrowed list. After
  `show <ipv6|ip> <route|routes>` was declared, `s ip route` runs
  `show ipv6 route`. `MatchIsDocumentedUnlessShifted` and
  `RunsWhatWasTypedUnlessShifted` show that Match, and the command that runs, are
  right whenever no earlier word moved the candidates and left several, as in the
  tests, which have the options in the other order. The second says it without
  the graph: the command is the one that the declarations mean (`Meant`).

### What the exceptions in passing properties say

A property named `...Unless...`, or with a condition such as `Widened`, holds of
the code but for one behaviour, which the condition pins down:

* `stale` (Ospf): `sendEvent` returns when the event is received, not when it is
  handled, so the next update may read the old `State` and skip a change
  (`ospf.go:171`). `AppliedUnlessStale` and `FollowedUnlessStale` show that this
  is the only way to miss one.
* `Stuck` (Ospf, `InstanceStopsUnlessStuck`): the updater sends to an interface
  whose goroutine has returned because the context is done (`interface.go:297`).
* A loopback interface that was added while it was down gets no `InterfaceUp`;
  when it is unlooped it is Point-to-point without a hello timer
  (`HelloRunsUnlessLoopback`, `interface.go:289`). The property leaves out every
  interface that may be a loopback, and says nothing of the other direction: the
  timer of an interface that went down goes on expiring.
* `RacesOnlyIfIdle` (`ospf.go:205`): the goroutine of an interface that is
  neither up nor a loopback when it is added is not waited for, and may read the
  map while the updater stores the next one or, in a later update, deletes one.
  TLC reaches the abort. Where an event is sent there is no race.
* A `Write` that got an error from the terminal at the prompt leaves its text in
  the pager's buffer; the next `Write` shows it and returns more than it was
  given (`failed` in `ShowsWhatWasWritten`, `pager.go:70`).
* `narrow` (`WrapShowsEveryWord`, `cli.go:177`): on a screen narrower than the
  indent of five, `wrap` shows no word or panics.
* `AddressIsFollowed` (`commands.go:957`): the question mark stops offering an
  IPv6 address after `::1:2:3:4:5:6:`, and for `::ffff:` followed by hex groups;
  it goes on offering one after `:1` and after `1::2:3:4:5:6:7:`.
* `RepeatsType`, `Widened` (Cli, `HandlersAreCallable`): a handler is called with
  arguments of the wrong types, and the client panics, if its declaration has a
  parameter of the same type before a choice (`show A.B.C.D <X:X:X::X|all>`), or
  if a description or completion was declared for a word that is not an option
  of one of its choices.
* `SharesNodes` (Cli): after `Register("show ip")`,
  `Document("show <ip|ipv6> route")` and `Register("show ip route")` the line
  `show ipv6 route` runs, though nobody registered it, because the description
  made both words share the node `route`. No registered command is ever lost.

The commands that chatterc itself declares have no choices yet, so it meets none
of the last two.

## 4. Proofs

Eight modules hold theorems, Induction the lemmas they share. Each theorem is
about the specification that TLC runs, for every value of its constants that
meets the named assumptions, so for any number of goroutines, interfaces,
services or documents, texts, words and LSAs of any length, and any bound.

| Module | Theorem | Statement |
|---|---|---|
| NotifierProofs | `Invariance`, `TypeCorrect` | `Spec => []IInv`, `Spec => []TypeOK` |
| | `StateConserved` | `Spec => []OneState` |
| | `PublisherNeverBlocks` | `Spec => []NotifyNeverBlocks` |
| | `ReturnsPublished` | `Spec => []SeenWasPublished` |
| | `NoWakeupIsLost` | `Spec => []NoLostWakeup` |
| | `SeqMonotone` | `Spec => SeqNeverGoesBack` |
| | `ImplementsBroadcast` | `Spec => BroadcastSpec` |
| QueuedNotifierProofs | `QueuedInvariance` | `Spec => []IInv` |
| | `QueueHasOneOwner` | `Spec => []OneOwner` |
| | `NoChangeIsMissed` | `Spec => []NothingMissed` |
| ServiceManagerProofs | `ManagerInvariance` | `Spec => []IInv` |
| | `RestartIsComplete` | `Spec => []OneGeneration` |
| | `NobodySeesHalfARestart` | `Spec => []SnapshotIsOneConfig` |
| | `LookupsFindTheirOwn` | `Spec => []LookupsAreCurrent` |
| NetMonProofs | `MonitorInvariance` | `Spec => []IInv` |
| | `NoEventIsForgotten` | `Spec => []AcceptedIsPending` |
| | `ListenerIsUpToDate` | `Spec => []HeardIsSeen` |
| | `StopIsNotBlocked` | the batcher drains the timer only if nobody has taken its value |
| OspfProofs | `InstanceInvariance` | `Spec => []IInv` |
| | `UpdateIsApplied` | `Spec => []AppliedUnlessStale` |
| | `HelloRuns` | `Spec => []HelloRunsUnlessLoopback` |
| | `RacesAreIdle` | `Spec => []RacesOnlyIfIdle` |
| | `RemovedIsDown` | `Spec => DroppedIsDown` (an action property) |
| | `LsaInvariant` | `LsaSpec => []LsaInv` |
| | `DamageIsTold` | `LsaSpec => []ChecksumTellsDamage` |
| | `CheckBytesVerify` | for sums in 0..254 and any length, both check bytes are in 1..255 and make both sums multiples of 255 |
| | `GeneratedChecksumVerifies` | data of any length with the generated check bytes at any offset has the sums 0 and 0 |
| | `RecencyDecides` | `LsaSpec => []RecencyIsOrder` |
| | `CompareAgrees`, `CompareIsTransitive`, `AgingMakesOlder` | the three parts of it, for headers of any integers |
| ConfigProofs | `GraphInvariance` | `GraphSpec => []GraphInv` |
| | `DependenciesComeFirst` | `GraphSpec => []DependencyOrder` |
| | `SortIsComplete` | `GraphSpec => []Complete` |
| | `ParserInvariance` | `Spec => []IInv` |
| | `VerdictIsTheDocuments` | `Spec => []VerdictIsDocument` |
| | `InterfacesGetTheNearest` | `Spec => []SettingsAreNearest` |
| ClientProofs | `PagerInvariant` | `Spec => []PagerInv` |
| | `OutputIsShown` | `Spec => []ShowsWhatWasWritten` |
| | `LinesStayReadable` | `Spec => NothingScrollsAway` (an action property) |
| | `CompletionsAreShown` | `Spec => []WrapShowsEveryWord` |
| | `IPv4Begins`, `MappedBegins` | the test for IPv4, alone or after `::ffff:`, accepts what can be completed to an address, and nothing else |
| | `IPv6BeginsAreAccepted`, `AcceptedIsIPv6` | so does the test for IPv6, but for the exceptions of section 3 |
| | `AddressesAreFollowed` | `AddressSpec => []AddressIsFollowed` |

**Assumptions.** They are the ASSUMEs of the modules, which TLC evaluates in
every run: different kinds of goroutines are different, a value such as `NoChan`
is none of the things it stands for the absence of, bounds are natural numbers.
The ones with content: `Services` is finite (a Go program registers finitely
many; the ranking of `Acyclic` and the numbering of the list of services need
it), a configuration contains what its services depend on and a service looks
up only what it depends on (ServiceManager; `Bootstraps` adds dependencies, and
`ospf.Instance` depends on the monitor it gets), and a document is one that the
YAML decoder can hand over (`DocumentsAssumption`: maps keyed by names, settings
that are integers or not, no setting called `router-id`).

**Why the properties need more.** None of them is inductive as it stands. The
inductive invariant of a component is at the beginning of its proofs, as a
conjunction of named parts, and was checked by TLC on the run's instance before
it was proved.
Each is proved with a lemma per action or per part, and a step per conjunct the
action can disturb.

* *Notifier.* That a channel to be signalled has room needs that every channel
  in the list of waiters is empty wherever the list currently is (in `n.st` or
  in the hands of its owner), that the list is in one place only, and that a
  channel belongs to one call (`OneState`, `WaitersAreEmpty`, `ChansAreOwned`).
  `IInv` adds that the state carries the newest version unless a publisher is
  about to replace it (`StateIsNewest`), that what a call can still return is
  published and not older than what its caller has (`AnswersAreNewer`), and that
  a blocked call is in the list or about to be signalled (`BlockedIsEnlisted`).
  The refinement maps the begin of a publication to `Publish`, every return to
  `Learn`, and the rest to stuttering.
* *QueuedNotifier.* What was got, followed by what waits, is a run of
  consecutive versions. A value put into a queue has to meet the whole list, and
  a rest that is put back must not cover a newer one: so the invariant says where
  the one list of a queue is (`QueueIsOne`), that only its owner has a list in
  hand (`HeldByOwner`), and that the map cannot change under a `NotifyChange`
  (`OneNotify`).
* *ServiceManager.* What is seen of a restart rests on who changes the
  controllers and when: the manager has the state while it does
  (`StateIsTaken`); it deletes a controller only once `done` is closed, so
  whatever is in `Run` has its controller (`LiveIsControlled`); all controllers
  are of the generation started last (`ControlledAreLast`); those started and
  those to start make up the configuration (`StartIsRight`).
* *ServiceGraph.* `visit` returns when its dependencies have been visited, but
  visited means in the result or still in progress. `CallsDescend` says of every
  ranking of the services by their dependencies that the calls in progress go
  down in it, pairwise, so the service that returns depends on none of them.
  Said of neighbouring calls only it would take an induction over the stack.
* *NetMon.* Between a notification and the reset of the batch the batcher knows
  that nothing new was accepted (`ResetForgetsNothing`). The value of a fired
  timer is only taken on the way to a reset (`DrainNeverBlocks`), which is why a
  stopping batcher finds it.
* *Ospf.* The updater goes on before an event is handled, so no invariant about
  the interfaces' states is inductive. What is, is said of `Settling(id)`, the
  state an interface will be in: the goroutine's own steps never change it.
  Those the loop has passed settle as the network wants them (`DoneUnlessBusy`),
  and the one the updater is busy with is as far as its place in the code says
  (`BusyIsRight`), unless a comparison read a `State` it does not settle in
  (`stale`).
* *OspfConfig.* The verdict and the result are about the whole document, of
  which the parser has seen a part. What it has passed has no defect
  (`PassedIsValid`), a setting is stored as the number it is since conversion
  follows the range check (`SettingsAreParsed`), an area is what one of its names
  says, before or after inheritance (`AreasAreParsed`), and the collected
  interfaces are those of the areas collected (`ConfigsAreCollected`).
* *Lsdb.* That `Compare` is transitive is not obvious, as ages within 900 seconds
  of each other count as equal, which is not transitive; the strict order is
  (`AgesAreOrdered`). Of the checksum, `LsaInv` says that the octets are the age
  and the body, that the sums of the body as originated are 0, and that the body
  is what one change of an octet or one swap of neighbours can leave of it
  (`IsLeftOf`). The rest is arithmetic over any number of octets: if one octet
  changes, the sums of the two texts differ, from there on, by that change and
  its multiples (`Differ`), and sums that are 0 in both force the change to be a
  multiple of 255. The same recurrence gives what check bytes at an offset add
  to the sums.
* *Screen.* What is on the screen is a prefix of what was written, but the screen
  says nothing about what is still in the buffer or was passed by `Write`.
  `TextKept` does: what is shown, followed by the buffer, is what the command has
  sent so far, unless the terminal has failed or the user has quit.
  `LinesCounted` relates the pager's line to the lines shown since the last key,
  and `FlagsOK` says where in `Write` which flag can be set. For `wrap`, every word is
  in one column of one row, although the loop over a row breaks at the first
  word there is not: a later column has a greater number (`ColumnsBefore`). That
  there are rows enough and that they fit is the arithmetic of Go's division and
  its correction (`RowsAndColumns`, `RowsFit`).
* *Address.* The property is about any word, so all the invariant has to say is
  that a word is a nonempty sequence of nonempty parts, as `strings.Split`
  returns it. The work is in comparing two readings of it: the code counts empty
  fields, `Begins6` looks for a whole address of which the word is a beginning.
  `ShapeIs` says where such an address has empty fields and `Begins6Fits` that a
  beginning has them in the same places; the counts of the code then say that
  there is one double colon (`FitsOneGap`) and where (`NineParts`).

**Only model-checked.**

* All liveness: `EveryListenerNotified`, `NotifyReturns`, `EveryChangeDelivered`,
  `Terminates`, `AcceptedIsHeard`, `MonitorStops`, `FollowedUnlessStale` and the
  `...UnlessStuck` properties. The proof system does not support fairness.
* The properties of Cli and CommandGraph. Declaring, merging, matching and
  completing are mutually recursive over a heap of nodes that merging changes in
  place. The prover cannot reason about recursive operators; and a recursive
  function would have to run over the nodes by their distance from the end of
  the graph, which merging changes.

Induction over data is done by hand where the theorems need it: the library's
induction rules take a predicate as a parameter, which the provers cannot
instantiate, so `InductiveSet` and `LeastElement` (Induction) say the same of
sets of numbers, and a proof defines the set it needs: the lengths up to which
the Fletcher sums are as they should be, the numbers of words of which one is the
longest.

## 5. Not modelled

* `packet.go`, `neighbor.go` and the map of the link-state database: types and
  names without operations so far.
* Of the pager: a line longer than the screen is wide, which the terminal wraps,
  and keys typed ahead, which the pager's `bufio.Reader` takes from the terminal
  and drops with the pager. Of the CLI: the cursor inside a line, tables, the
  output of handlers. Of the commands: the scanner of declarations and a choice
  within a choice. `command_spec.go` and `match_spec.go` only build expectations
  for the tests.
* Of addresses: zones, and IPv4 at the end of other IPv6 addresses than
  `::ffff:`, which the tests do not recognise.
* A reader of the monitor that gets a read error because `cmd.Run` closed its
  pipe first (`interface_monitor_darwin.go:125`) is modelled (`ReaderError`), but
  no property asks for a stop without error.
* `rpc` (generated code and field copies), `api/client.go`, `chatterd/common`:
  no state.
* YAML decoding, gRPC, errgroup internals and os/exec are used as their callers
  see them.

## 6. What could come next

A composition of NetMon's publisher, Broadcast and Ospf, so that a change on the
machine is followed to the interface's state; a proof that the publisher's side
of NetMon is a step of Broadcast; and, for Cli, a model of the command graph
whose recursion is on a number, so that its properties could be proved as well.
