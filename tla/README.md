# A TLA+ model of sdk-k8s

sdk-k8s is the Kubernetes part of Network Service Mesh. Its core is a registry
that keeps network services (NS) and network service endpoints (NSE) as custom
resources in the Kubernetes API server, lets clients watch them, and removes the
endpoints nobody refreshes. Around it there are a chain element that creates
pods on demand and a device plugin for the kubelet.

The modules here model the parts of that code in which goroutines, replicas and
the API server interleave. TLC checks them on small instances. TLAPS proves the
safety invariants and the three refinements those runs check for every value of the
constants; liveness is left to TLC.

## 1. Inventory

### Endpoint registry, `pkg/registry/etcd/nse_server.go`

*State*: the NSE objects in the API server (shared by all replicas), the list
`subscribers`, the queue of `subscribersExecutor` that guards it, one buffered
channel and one `lagged` flag per subscriber, the queue of `deleteExecutor`. The
timers of the `expire` element behind it in the chain watch over the
`resourceVersion` that `Register` passes on in the context (`context.go`).

*Operations*: `Register` (Create, on AlreadyExists Get and Update), `Unregister`
(conditional Delete), `Find` (List, then `watch`), `watchRemoteStorage` (reads
the remote watch, broadcasts, queues deletions of expired objects), `sendEvent`,
`subscribeOnEvents`.

*Hard*: four kinds of goroutine touch a subscriber; the send of `sendEvent` never
waits and must leave no silent gap; Create, Get, Update and Delete are separate
requests that other replicas and deletions come between; answers are lost;
replicas restart and forget their timers.

*Correct if*: no send on a closed channel; a watcher is sent a gapless run of
updates and is told when it fell behind; gone watchers are removed and new ones
get in; only the owner of a version, an explicit Unregister or the expiration
time removes an object; expired objects go away.

### Service registry, `pkg/registry/etcd/ns_server.go`

The same shape without expiry, versions and the lagged flag. `sendEvent` waits
for room in every channel, inside the executor. `Register` is Create, then Get and
Update of what is there; `Unregister` deletes whatever version there is. *Hard*:
the remote watch ends every minute, breaks, is refused, and starts anew without a
resourceVersion; `Find` lists before it subscribes; callers see services by name
alone, whatever their namespace. *Correct if*: nothing is dropped for a subscribed
watcher, no send meets a closed channel, subscription and removal make progress;
a caller's view is wrong only about what it had no way to be told; a Register
fails only when somebody else changed the service meanwhile.

### Registry chain, `pkg/registry/chains/registryk8s/registry-k8s.go`

Puts `begin`, `setregistrationtime`, `etcd` and `expire` in a row, routes
interdomain names to a proxy. It keeps no state of its own; the order of the
elements matters: `begin` runs one call at a time for a name, `expire` sits
behind `etcd` and so starts its timer after the write and stops it before the
Delete. The chain of services has no `begin`, so its calls interleave even at one
replica. Options replace the four authorize elements, the last one counts.
*Correct if*: only calls that the authorize element in force admits, and only
local names, reach `etcd`.

### createpod, `pkg/networkservice/common/createpod/server.go`

*State*: pods in the API server, one watch opened at the start. *Operations*:
`Request` (creates a pod from a template), `monitorCompletedPods` (List, then the
events of the watch), `deleteSpawnedCompletedPod` (Delete by name). *Correct if*:
only completed pods this server created are deleted, and all of them are.

### Device plugin, `pkg/tools/deviceplugin`

*State*: the token pool (external), `allocatedTokens` under a lock, `updateCh`
with one place, the socket directory watched by fsnotify, `monitorCh` with one
place. *Operations*: `Allocate`, `ListAndWatch` (one goroutine per stream),
`updateDevices`, `useDevices`, `StartServers` (a loop over the resource names:
`StartDeviceServer`, `RegisterDeviceServer`, `MonitorKubeletRestart`). *Correct
if*: no token a pod uses is freed, every token nobody uses is, what the kubelet
knows is served, a restarted kubelet gets the plugin registered again.

### Generated clients, `pkg/tools/k8s/client`

*State*: none in the typed clients, which turn a call into a request; the informer
factory keeps a map of informers and one of those started, under a lock; an
informer keeps a cache that listers read. *Operations*: Create, Get, Update,
Delete, List, Watch; `InformerFor`, `ForResource`, `Start`, `WaitForCacheSync`,
the listers' List and Get. *Hard*: clients share a factory, ask, start, wait and
stop in any order, each with a stopCh of its own. *Correct if*: a type has one
informer, a lister called synced is complete, one that was started catches up,
waiting ends.

### The rest

API types, clientset constructors and fakes under `pkg/tools/k8s`, the helpers for
configuration, and the test servers `k8stest` hold no logic of this project's own.
Of the socket helpers, `SocketCleanup` is part of `StartDeviceServer`.

PROJECT.json lists every part with its status and, under `hazards`, what is hard
to test in it, line by line.

## 2. Modules

| module | models | kind |
|---|---|---|
| `EventFeed` | what a watch promises its caller | abstract specification |
| `NSEFanout` | the fan-out of `nse_server.go` | detailed, implements `EventFeed` |
| `NSEFanoutProofs` | | proofs about `NSEFanout` |
| `NSFanout` | the fan-out of `ns_server.go` | detailed, implements `EventFeed` |
| `AtomicRegistry` | what a set of replicas promises about entries | abstract specification |
| `NSERegistration` | Register, Unregister, expiry, collection, several replicas | detailed, implements `AtomicRegistry` |
| `NSRegistration` | Register, Unregister, `watchRemoteStorage` and Find of `ns_server.go`, behind the chain | detailed, composes `RegistryChain` and `TypedClient` |
| `RegistryChain` | options and elements of the two chains | operators |
| `TypedClient` | the requests of the typed clients, what the API server makes of them | operators |
| `InformerFactory` | the generated informers and listers | detailed, uses `TypedClient` |
| `CreatePod` | `createpod/server.go`: Request, the monitor of completed pods | detailed |
| `DevicePlugin` | `deviceplugin/server.go`: Allocate, ListAndWatch | detailed |
| `KubeletMonitor` | registration with the kubelet and its renewal | detailed |
| `NSFanoutProofs`, `NSERegistrationProofs`, `NSRegistrationProofs`, `InformerFactoryProofs`, `CreatePodProofs`, `DevicePluginProofs`, `KubeletMonitorProofs` | | proofs about the modules they are named after |
| `MC...` | constants for TLC | |

A definition whose comment begins with "Mutant of" is not part of the model. It
is a plausible mistake in the definition that follows, kept to show that the
properties notice it; PROJECT.json says which property notices which mistake.

### EventFeed

A log of events and, per watcher, a cursor into it. A watcher joins at the end of
the log, then deals with one event after the other: it is sent the event if its
query matches, else skips it. It may be *overrun*, but only when it is more than
`BufferSize` events behind. It can be ended at any time, with outcome `exhausted`
only once it has been overrun.

### NSEFanout

| code | model |
|---|---|
| `subscribersExecutor.AsyncExec(f)` | append a job to `jobs` |
| the executor's worker | `SendEvent`, `PushBack`, `RemoveClose` take the head of `jobs` |
| `subscribers` | the set `subscribers` |
| the loop of `sendEvent` | `StartSendEvent`, then `ServeNode` for each node in `remaining` |
| the default branch of its select | `ServeNode` finds the channel full and sets `marking`, `MarkLagged` stores the flag |
| `node.channel`, `close(ret)`, `node.lagged` | `channel[s]`, `closed[s]`, `lagged[s]` |
| position of the Find goroutine | `pc[s]`, with the update it has in hand in `held[s]` |
| `watchCtx` cancelled | `ctxDone[s]` |
| the goroutine that waits for `ctx.Done()` | `cleaner[s]`, action `Cleanup` |
| an event | its position in `log` |

`joined`, `cursor` and `delivered` are history variables; no action reads them.
The list is a set, and `ServeNode` takes any node of it: the model allows every
order of the walk, the order of the list among them. A reader may take and
deliver updates between the failed send and the store of `lagged`. It may then
empty its channel before it is marked, and there is no next read to bring it the
error before another event comes; `UntoldMissesNewest` says what that costs: the
newest event, and none before it. (The comment at `nse_server.go:167` promises
the error on the next read, which in this case comes with the next event only.)

### NSFanout

As above, but the walk of `sendEvent` waits: `StartSendEvent` takes the job and
remembers the list in `remaining`, `SendToNode` serves the first of them when its
channel has room. The other jobs wait for `remaining` to be empty.

### AtomicRegistry and NSERegistration

A call is identified by a slot `<<replica, name>>`, as `begin` allows one at a
time. The state of `NSERegistration` is the store of the API server (an object
has a version, the replica that wrote it, an expiration time), the placement of the
replicas in namespaces, which never changes, the call in each slot, the timers, what each replica has read of the store and not examined yet
(`observed`), and the queues of `deleteExecutor`. Each request to the API server
is one action that the server decides; with `ApiFaults` the request or its answer
is lost. `Restart` wipes what a replica keeps in memory. Mapped to
`AtomicRegistry`, the three requests of Register become a single `Put`, and an
entry disappears in three ways only: by an Unregister in flight, by the owner of
that very version, or after its expiration time. That a slot stands for a call, and
that `expire` comes behind `etcd`, is an assumption on the elements `RegistryChain`
gives (`RegistrationAssumption`), which TLC evaluates.

### TypedClient and RegistryChain

Operators, no state. A request is a record of verb, resource, namespace, name, the
version it is conditional on and its timeoutSeconds; `Accepted` and `Selected` are
the API server. `RegistryChain` gives the elements a call passes as a sequence of
names, and what the options leave of the authorize elements.

### NSRegistration

| code | model |
|---|---|
| the calls of Register, Unregister | `call[x]` per client, one request to the API server per action |
| what Get returns beside an error, never nil | `Empty`, whose Update has no name and is refused |
| `watchRemoteStorage`: before Watch, in the loop, channel closed, returned | `remote` = opening, open, ended, returned |
| the channel of the watch | `events`; on opening an event for each object (`Replay`) |
| `sleepTime` | `sleep`, in units of `minSleepTime` |
| `Find`: before List, before its subscription, in `watch` | `find[c]` = idle, listed, watching |
| what the caller was sent last of a name | `view[c]` |

A caller *knows* a service when the last event on it that is still pending, or
without one the caller's view, says what is stored (`LastOn`, `Knows`). The options
are folded into `Opts` as `NewServer` does; `OnlyAdmittedLocal` is about the last
option for the authorize element of services, whatever others there are.

`Broadcast` takes an event from the watch and delivers it to all who have
subscribed, since `NSFanout` shows that subscribers are served in order and nothing
is dropped (what it shows to go wrong, a stopped executor, is not repeated here).
`missed[c]` is a history variable: the names whose last change a caller had no way
to be told, because no watch was open, the watch broke, the event fell between its
List and its subscription, or was left over from an ended watch. `interfered` marks
calls whose key somebody else changed. What a caller missed of a *stored* service
is made up for when the watch opens anew (`StoredBecomesKnown`); a *deletion* in the
gap never is, so a caller may keep a service that is gone until it lists again.
Namesakes in several namespaces are one service to callers: `KnowsUnlessMissed` is
stated for replicas of one namespace, `StoredBecomesKnown` for all. The loop of
`nse_server.go` is the same, line by line.

### InformerFactory

`informers[t]` is the number of the informer the factory keeps for a type (a
correct factory makes one), `started` the map of that name, `handed[c]` what a
client was given. `cache[i]` is an informer: whose stopCh it runs with, the version
its reflector has read up to, and per key the last change queued and taken in. The
shared informer of client-go is external and kept as weak as its documentation
allows: a list may be answered with an old version, a watch may be replaced by a
new list at any time, keys are taken in in any order. `called` is a history
variable.

### CreatePod

The pods of the namespace with their `uid`, label `createdBy` and phase (finished
or not), and per server (per value of HOSTNAME) the state of its monitor: the
events not yet read from the watch and the items of the List not yet looked at.
Both are *copies* of pods, `DeleteByName` removes whatever pod bears the name at
that moment. A new watch reports the pods there are or does not: the API server
does, the fake client of the tests does not. A watch that ends leaves the server
`blind`, as nothing opens it again.

### DevicePlugin

| code | model |
|---|---|
| `allocatedTokens[id]` true, false, no entry | `"seen"`, `"unseen"`, `"absent"` |
| `updateCh` | one Boolean |
| a call of `update()` on its way | counted in `updating`; `Update` puts the signal |
| the goroutine of a `ListAndWatch` call | `pc[s]`, its last List in `listed[s]`, what it sent last in `view[s]` |
| `tokenPool` | the sets `marked` and `healthy` |

The kubelet is external: it asks for tokens of no pod, one Allocate at a time, as
it admits one pod at a time, and shows a pod's tokens some time after Allocate has
returned. `List` and `UpdateDevices` are two steps, as the code calls the kubelet
before it takes the lock. `fresh`, `doubted` and `early` are history variables.

### KubeletMonitor

`StartServers` connects to the kubelet's pod resources, then takes one server after
the other: it listens on a new socket of its own (`SocketCleanup` has nothing to
remove there, but may fail), is dialled until it answers, is
registered, and gets its fsnotify watcher. The goroutine of `MonitorKubeletRestart`
takes `events` of the watcher and sends to `monitorCh`, which has one place; the
goroutine of `monitorKubeletRestart` reads `monitorCh` and registers again, where
an error is fatal, as an error of a device server is. A kubelet that stops forgets
its plugins. An error in the loop ends `StartServers`, the servers before it go on.
`watched` is a history variable. `ServerError` takes the error of a server and the end
of the process as one step: that a socket is dead for the moment in which the
goroutine has the error and has not called `Fatalf` yet is left out, and
`RegisteredIsServed` is to be read so.

## 3. Runs

| run | instance | shows |
|---|---|---|
| `nse_fanout_safety` | 2 watchers with different interests, 3 events, buffer of 1 | `NoSendOnClosed`, `ExactDelivery`, `UntoldMissesNewest`, `EventFeed` implemented; no subscription and no removal is lost on the way to the executor (`NobodyForgotten`) |
| `nse_fanout_live` | 2 watchers, one caller may stop reading for good | subscription completes, gone watchers are removed, a reading caller has every event but the newest or is ended |
| `ns_fanout` | 2 watchers, 3 events, buffer of 1 | `NoSendOnClosed`, `NothingDropped`, `EventFeed` implemented; everybody is served while nobody leaves; a stuck `wg.Wait()` has one cause only, a returned watch with a full channel, and that cause lasts (`WedgedForGood`) |
| `ns_fanout_blocked` | as above | **fails**: `wg.Wait()` of a later Find is never released |
| `registration_shared` | 2 replicas in 1 namespace or in 2, 1 name, 2 writes, a restart, lost messages | all registration properties, `AtomicRegistry` implemented |
| `registration_collect` | 2 replicas, no lost messages, a restart | expired objects go away |
| `create_pod` | 2 servers, one of them with failing requests, 2 pods of different names, 3 starts | only finished pods of the server itself are deleted, and the other server overlooks none |
| `create_pod_fixed` | 1 server, 2 pods one after the other under one name | **fails**: a running pod is deleted |
| `device_plugin` | 2 tokens, 1 stream, 2 Allocate calls, 1 change of the pool | no token is freed on looks at the pods from before its last Allocate, none stays taken for good; no change is lost, and until it is sent a signal is due (`StaleViewSignalled`) |
| `kubelet_monitor` | 2 servers, 2 restarts of the kubelet | what is registered is served; each restart under the watcher is answered, and is on its way until then (`RestartOnItsWay`); the end of the context ends the monitor, but for one case |
| `ns_registration` | 3 clients, one of them not admitted, 1 local and 1 interdomain name, 1 caller of Find, 2 writes, 1 break of the watch, lost messages | a conflict has a cause; a caller's view is right but for what it missed; what is stored becomes known; only admitted, local names are stored |
| `informers` | 2 clients, 2 types, 2 keys, 1 change, a factory for 1 namespace or for all | a synced lister is complete, one that has drained its queue shows the store (`DrainedShowsStore`), a started one catches up, waiting ends |

**Bounds.** A buffer of one with three events has every case of a full buffer:
one event waits, one is dropped, one follows the gap. Two watchers are enough to
have one that is stuck while another one subscribes, reads or leaves; the fan-out
knows of no relation between three. The proofs of section 4 remove the bounds for
the safety properties of all modules; for liveness they stand. Two writes and two replicas give a stale version, a conflict
and a refresh through another replica; names are independent of each other, so
one is enough. `MaxJobs` limits the queue of a `deleteExecutor`; a job is queued
on its own, and two replicas already have two. In `CreatePod` two pods are enough
for one to be looked at while the other changes, and three starts let a server
find what its predecessor left. Two tokens make a request that is refused as a
whole; two allocations make a token allocated, aged and allocated anew around a
List. Two servers let one fail after the other is registered; with two restarts
one registration is under way while the next event waits in `monitorCh` or in the
watcher. In `NSRegistration` two writes make a stale version and a replay that is
newer than a view; one break of the watch is enough to lose an event, since every
break is followed by the same replay; callers do not see each other, so one is
enough. In `InformerFactory` the second client wants one type and the first both,
so types are asked for together and one after the other; the factory for all
namespaces is used for one type, where a cache can be filled by half; one change is
listed, watched or missed by a stale list. A client that waits changes nothing for
the others, so one waits. `CHECK_DEADLOCK FALSE` stands in every configuration
but that of `InformerFactory`, since a system whose watchers are served and whose
bounded input is used up may rest; there a client may always call `Start` again.

**Fairness.** Go runs every goroutine that can run, so the executor, the loops of
`watch` and the cleanup goroutines are weakly fair. A `Send` is only assumed to
come back when its stream is cancelled (`ctxDone[s] /\ SendError(s)`), and, for
the callers in `Responsive`, when they read. Nothing makes callers subscribe,
leave or events happen. In `NSERegistration` the clock ticks, the executors run
and every object is read again and again, because the remote watch is opened anew
after `timeoutSeconds` and then reports all objects. `Examine` is strongly fair:
the loop of the code takes one event after another, and the bound `MaxJobs` must
not be a way to pass over one forever. `registration_collect` is run without lost
messages: under them the collection would owe its success to the API server, and
what they do to the objects is checked for safety (`registration_shared`). In `DevicePlugin` calls that have begun and
the loop of a stream go on; the poll timer is no part of the fairness, since
`ViewCatchesUp` is about the signal alone, and `UnusedFreed` names it as its
premise. In `KubeletMonitor` the goroutines and `StartServers` go on; the
kubelet owes nothing. In `NSRegistration` the loop of `watchRemoteStorage` goes on,
the API server answers a Watch in the end and ends it after its timeoutSeconds;
callers and clients owe nothing. In `InformerFactory` some reflector
that can retry its list or its watch, or drain its queue, does, as client-go does
with a back-off; an informer that is waited for is polled.

**Findings.**

- `ns_fanout_blocked`: a watcher of services that leaves, or whose Send fails,
  while its channel is full stops the executor for good. `sendEvent` waits for
  room in a channel nobody reads any more, the job that would remove the channel
  waits behind it, and so does every later subscription. `WedgedForGood`, which is
  also proved, says that no step leads out of it. The endpoint registry
  does not have the problem (`SubscribeCompletes` of `nse_fanout_live`).
- `create_pod_fixed`: the monitor decides on a copy of a pod and deletes by name.
  If the template gives pods a fixed name, as in the test of repeated requests, a
  pod created under the name of a finished one can be deleted while it runs. The
  run shows it for the copy in a List; the event of the monitor's own deletion is
  enough too, because events of type Deleted are handled like all others. With
  names used once (`create_pod`) it cannot happen.

Limits of the code that no comment speaks of, or that no run states:

- `FreedAfterFreshLook` is about how fresh the looks are. A token that Allocate has
  handed out, and whose pod the kubelet does not show yet, is freed after two fresh
  looks all the same.
- With two `ListAndWatch` streams `FreedAfterFreshLook` does not hold: each takes
  its List before the lock; one stream ages a fresh token to "unseen", the other,
  with a List that also predates the Allocate, frees it.
- `updateCh` has one place for all streams: with two of them one takes the signal
  that the other needs, so `StaleViewSignalled` is about one stream.
- The monitor of `MonitorKubeletRestart` stays in its send, its watcher open, if the
  context ends while `monitorCh` is full and its reader has gone
  (`OnlyFullChannelHoldsMonitor` shows that nothing else holds it).
- `StartServers` registers a server (`server.go:109`) and opens its watcher
  afterwards (`server.go:118`). A kubelet that restarts in between creates its
  socket before anybody watches, and the plugin stays unregistered until the next
  restart: `RestartAnswered` is about restarts under the watcher (`watched`).
- A caller of Find with Watch that missed the deletion of a service keeps it:
  `KnowsUnlessMissed` excepts it, no reopening of the watch repairs it.
- The informer of a type runs with the stopCh of the client that started it. When
  that one is closed, the lister of every client stands still, a later `Start` does
  not run it again, and a `WaitForCacheSync` with another stopCh may wait for it
  until that one is closed too (the exceptions of `ListersCatchUp` and
  `WaitReturns`).

## 4. Proofs

Every safety invariant of a passing run, and each of the three refinements, is
stated by a theorem, for all values of the constants that the named assumptions of
the module allow. Each proof has the same shape: an inductive invariant `IInv`, a
lemma per conjunct of it with a step per action, and theorems that draw the
properties from `IInv`. `TypeOK` of each module is a theorem (`TypeCorrect`); TLC
checks it in addition where a hazard depends on it: the size of the channels
(`nse_fanout_safety`), tokens in part taken back (`device_plugin`), one informer for a
type (`informers`). The bounds of the models (`MaxVersion`, `MaxPods`, ...) are
constants like the others.

What the theorems assume beyond "the bounds are numbers, the flags are Booleans":

| module | assumption | where the code grants it |
|---|---|---|
| both fan-outs | a buffer has at least one place | `updateChannelSize` is 64 |
| `NSERegistration` | `begin` before `etcd` before `expire`; every name is non-empty | `NewServer`, by the elements of `RegistryChain`; empty names are left out |
| `NSRegistration` | no `begin` before `etcd`; every name is non-empty; options are records with a known field | `NewServer` |
| `InformerFactory` | a use names its namespaces and, per client, known types | types of Go |
| `CreatePod` | `DeletesOnly` only: the template gives unique names | a hypothesis of the theorem; `create_pod_fixed` shows it is needed |
| `DevicePlugin` | `FreedAfterLook` and `StaleSignalled`: at most one stream | a hypothesis of these theorems; with two they do not hold (section 3) |

### NSEFanoutProofs

`TypeOK` is inductive with two facts: `Hand`, an update in hand is one of the log,
and `Walk`, what `sendEvent` has still to serve or to mark are nodes of the list,
and no node is both. `IInv` adds

- `Stage`: how far each node is; a node is in the list exactly while its cleanup
  goroutine is armed or queued, its channel is closed exactly once that finished.
  `NoSendOnClosed` is not inductive without it: nothing in it says that a closed
  node is never put in the list again;
- `Queue`: a push job is of a Find that waits, a remove job of a queued cleanup,
  no job is there twice. It carries `Stage` over the time a job waits;
- `Window`: a node that has not lagged has in hand and in its channel the updates
  that follow its cursor, up to the newest one it has been served (`Contiguous`;
  `Missing` counts the one that is still on its way or just found no room). An
  update being sent is the next one (`HeldIsNext`). A lagged node with an empty
  channel has dealt with everything but the newest event (`Untold`).
  `ExactDelivery` needs `Window`, because what is sent next comes out of the
  channel;
- `ExactDelivery` itself.

`NeverSendsOnClosed`, `DeliversExactly` and `UntoldBounded` follow. `ForgetsNobody`
adds `Pending` to `IInv`: the push job of a Find in wg.Wait() and the remove job of a
cleanup goroutine that has queued it are in the queue, and a watch that has returned
has cancelled its context. The executor takes a job out of the queue only as it does
it (`InQueue`). With `Stage`, which says of a node of the list where its cleanup goroutine
is, this gives `NobodyForgotten`. `Refinement`:
`Spec => EventFeed`. `StartSendEvent` maps to `Publish`, a `ServeNode` that finds
the channel full to `Overrun` (unless the node has lagged before), `PushBack` to
`Join`, `SkipUpdate` to `Skip`, `SendOk` to `Deliver`, the returns to `End`, all
other steps to stuttering. `Window` gives the guards of `Overrun`, `Skip`,
`Deliver` and of `End("exhausted")`.

### NSFanoutProofs

The same invariant without the lag, but here the list is a sequence that `sendEvent`
walks in order: `Stage` also says that no node is in the list twice (`Distinct`), and
what is left of the walk is a suffix of the list. `Delivery` says that what was sent
is what matched since the node joined, in order, up to the cursor; with `Window` it
gives `DropsNothing`. In the refinement nothing maps to `Overrun`. `StaysWedged` goes
over the actions once more: while `sendEvent` stands before the full channel of a
returned watch no action of the executor is possible, and a returned watch reads
no more.

### NSERegistrationProofs

None of the three invariants is inductive: each is about a version somebody *holds*,
while the store goes on. `IInv` says of each such version that it still describes the
object, *if* the store holds that version:

- `Room`: the calls in flight fit under the bound of versions, so a write never
  runs out of them;
- `Versions`: no two objects share a version and none is of a version yet to come.
  It is why a new write cannot make a held version come back;
- `Seen` for what a replica has read, `Queued` for what its `deleteExecutor` will
  delete (expired), `OwnedByAll` for what a timer holds, on the way to the timer, in
  it, and on the way to the Delete (written by that replica, also after a restart);
- `RelyAll`: between Get and Update the object is the one that was read, or somebody
  interfered. `ConflictHasCause` needs it.

`JobsExpired`, `TimersOwn` and `ConflictsCaused` follow. In `Refinement` the request
that decides a Register maps to `Put`, a Delete that finds its version to `Remove`, a job
of `deleteExecutor` that does to `Collect`, which `Queued` allows: the object is expired.
`OwnedByAll` makes the Delete of a timer one of a version, that of a caller one of any.

### NSRegistrationProofs

`TInv` adds to the types `Room`, `Named` (an object bears the name of its key) and
`Pending` (no watch, no events; only an ended watch holds an error). Then

- `Admitted`: calls under way and objects are of admitted clients and local names.
  `AdmittedOnly` also needs to know what the options do. `ServerOptions` is a fold
  over the options; that the last one for a field decides is the lemma
  `LastOptionCounts`, proved from the recursive function under the fold, with a least
  counterexample in place of an induction (an induction theorem would take an operator
  as its parameter);
- `RelyAll`: as for the endpoints, but a Get may be lost; it gives `ConflictsCaused`;
- `Views`, `Fresh`, `Known`, `Lists`: `KnowsUnlessMissed` is `Known` for replicas of
  one namespace (`Together`). It is not inductive alone. `Broadcast` delivers what is
  pending, so the pending events must be right: `Fresh` says the last one on a service
  in an open watch is what is stored. A Find that subscribes trusts the list it took
  before: `Lists` says that this list is up to date, or that the last event, newer
  than the list, is still pending, or the service counts as missed.

### InformerFactoryProofs

`TypeCorrect` holds the claim that a factory makes one informer for a type, whoever
asks. `IInv` adds `StartedMade` (only informers that were made run), `AllRight` and
`Told`. `Right` of an informer: what it has queued and taken in of a key is a change
of that key in the factory's namespace, and a key it has nothing of, and need not take
in from its first list any more, was absent at some version it has read. `Told`: whoever
was answered "synced" was told the truth, and an informer once synced stays so.
`SyncedComplete` follows. `DrainedShows` adds `Abreast`: an informer has queued, of each
key of its namespace, the last change it has read up to, and nothing only of a key that
has no object by then. That `WithNamespace` leaves one of the known namespaces, again
a fold over options, is `FactoryTyped`.

### CreatePodProofs

Pods are added and removed one by one, so their set is finite: only then has the List a
monitor takes an order, and is a sequence. `DeletesOnly` rests on `CopiesTruthful`: while names are used once, a
copy and the pod that bears its name are the same pod, and a finished copy is of a pod
that has finished. `CompletedKnown` needs no unique names, but `StaysOpen`: the watch
of a server without faults stays open while its monitor needs it.

### DevicePluginProofs

`UpdatesBounded`, one `update()` for each Allocate and each change of the pool, makes
`TypeOK` inductive. `FreedAfterLook` rests on `AgedBefore`: a token that is "unseen" when
a stream is about to use its List was not allocated since that List, as only another
stream could have aged it meanwhile. `StaleSignalled` is inductive with the types: the
stream empties `updateCh` before it reads the pool, and whoever changes the pool calls
`update()` afterwards.

### KubeletMonitorProofs

`EventsBounded` (one event per restart at most) for the types, `StoppedForCause` (only
the end of the context or of the process stops a server) and `ListensFirst` (whoever
registers a server comes after its Listen) for `RegisteredServed`. `RestartNotLost` needs
three more: `OpenedOnce` (a watcher that is open, or has gone, belongs to a server whose
turn in the loop is over), `RunTogether` (while process and context last the two
goroutines of a server run, or neither has been started) and `NoneLost` (a restart seen
is registered, or on its way).

### Checked by TLC only

- All liveness: `SubscribeCompletes`, `GoneIsRemoved`, `CaughtUpOrEnded`,
  `EveryoneCatchesUp`, `OnlyReturnedWatchersWedge`, `ExpiredCollected`,
  `StoredBecomesKnown`, `ViewCatchesUp`, `UnusedFreed`, `RestartAnswered`,
  `OnlyFullChannelHoldsMonitor`, `ListersCatchUp`, `WaitReturns`. The prover has no
  rules for fairness or ENABLED. What of them is a matter of safety is proved: that
  nothing is lost on the way (`ForgetsNobody`, `StaleSignalled`, `RestartNotLost`), that
  having drained is having caught up (`DrainedShows`), and that a wedged executor stays
  so (`StaysWedged`); the fairness is left to the runs.
- The two findings: a proof shows what holds, a counterexample needs TLC.

`TypedClient` and `RegistryChain` have no state; what the proofs need of them is a
lemma where it is used.

## 5. Not modelled, and the plan

No safety property of the runs waits for a proof. What could still be added:

1. Further action properties of `CreatePod` and `DevicePlugin`, and lemmas about
   `TypedClient` that the proofs about both registries now state each on their own.
2. The safety half of the liveness properties that have none yet, such as what a caller
   of `NSRegistration` that has not learned of a stored service is still to be sent.

Four hazards of PROJECT.json have no property, each with its reason: two are limits of
the code (a watch of pods that is opened once, a kubelet that restarts before anybody
watches), one is a property that does not hold with two streams, one concerns tokens
restored at the start, of which the code does not promise when they are freed.

Left out of the models: a Register without a name, which the API server names from
`GenerateName`; the match of a Find's query in `NSRegistration` (it is in
`NSFanout`); the client chain of the proxy; tweaks of list options, label selectors
and resync periods of informers; Patch and DeleteCollection, which nothing calls;
the calls of the device plugin API that return constants.

API types, deep copies, fakes, clientset constructors, configuration helpers and
test servers have no state to model and stay out.
