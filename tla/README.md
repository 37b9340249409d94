# TLA+ models of k8s-explore

This directory holds TLA+ specifications of the program in `src/`, the TLC
configurations that check them on small instances, and proofs of their central
theorems for TLAPS. `PROJECT.json` maps every definition to the lines of the
source it stands for, and lists the hazards, the runs, the mutants that show
each property can fail, and the theorems.

Contents: [the system](#the-system) ·
[modules and code](#modules-and-code) · [runs](#runs-and-bounds) ·
[fairness](#fairness) · [proofs](#what-is-proved) ·
[only model-checked](#what-is-only-model-checked) ·
[disagreements](#where-code-and-words-disagree) ·
[not modelled](#what-is-not-modelled-and-why) · [plan](#plan)

## The system

The repository has two halves that share no code path yet.

**The server** (`main.go`) reads a kubeconfig, makes one client per cluster
context, and serves a browser: REST calls for objects, and one websocket per
browser on which RPC calls (`objects.watch` and its `.cancel`) are multiplexed.

**The tunnel libraries** (`frp/`, `kubefwd/`, `kubetunnel/`) supervise an frp
client that exposes a local port in the cluster, edit the hosts file, and
forward services. `main.go` does not import them; only tests call them.

| Component (source) | State it keeps | Operations | Hard behaviour | Correct when |
|---|---|---|---|---|
| Websocket read loop (`api/stream/stream.go`) | connection context, a reader goroutine per read | `dispatchLoop`, `readMessage` | abandoned readers, the context done while a read blocks | one reader, messages in order, the loop ends once its context does |
| RPC calls (`stream.go`, `rpc/rpc.go`, `objects/watch.go`) | `activeCalls` and `activeLock`, shared by **all** connections; a reply channel and a context per call | `dispatchMessage`, `Handle`, `.cancel`, the watch handler, its informer's listener | three goroutines per message, a lock held over a send, a channel closed under a sender, ids that clients choose | the registry is sound, the lock is never stuck, no reply is lost, calls that ended return |
| Watch events (`watch.go`) | informer store (client-go's) | added/updated/deleted callbacks | late registration and replay, resync, lists after a lost watch, tombstones | only versions that existed are shown, in order; the client ends up with the object unless a deletion was dropped |
| Start-up and pool (`main.go`, `kubeclient/pool.go`) | `ClientPool.contexts`, `current`, the parsed flags | `initKubeClientPoolWithRetry`, `Add`, `SetCurrent` | clusters that come and go between attempts | the user's context is current or start-up is refused |
| Lazy clients (`pool.go`) | a dynamic and a discovery client per context | `DynamicClient`, `DiscoveryClient` | concurrent first use | made once per success |
| REST handlers (`api/rest/...`) | none; the object is the API server's | Get, List, Update, Delete; lists of environments, resources, contexts | concurrent requests, failed calls, deletes that only mark the object, error paths that do not return | answers are true, no update is lost, what was deleted is doomed |
| frp supervision (`frp/manager.go`, `frpc_client.go`) | one client per round, the named result of `Execute` | `RunFRPc`, port watchdog, client goroutine | goroutines of two rounds overlap; a shared `err` variable | clients follow the local service; the old client is closing before a new one starts |
| Cancellation channel (`frp/notify`) | `C`, `Reason`, a `sync.Once` | `Cancel`, `CancelWithReason`, `WaitForCancellation` | two callers at once | closed once, nobody returns before the client was closed |
| Kill signal (`frp/notify/killsignal`) | a flag | `init`'s goroutine, `HasKillSignaled` | the process ends a second later | at most one more client is started |
| Hosts file (`frp/utils/tcphelper.go`, `manager.go`) | lines of the hosts file | `ReplaceAddressForHost`, `HostsCleanup`, `ChangeHostToKubeTunnel` | the library shifts the array the loops range over | the service's host leads to the server; other lines stay |
| Service forwarding (`kubefwd/kubefwd.go`) | registry of forwards and their lines in the hosts file (kubefwd's), channels of the waits | informer handlers, wait for the server, shutdown | update = delete + add, tombstones, the signal in between, two reasons for one `nil` | the forward is the service's current version; the shutdown comes to its end after the last forward |
| KubeTunnel resource (`kubefwd/kube/kube.go`) | a custom resource at the API server | look the service up, GET, then POST or PUT | other writers in between, lost answers, a reused `err` | a creator goes on only if its resource was taken; no update is lost |
| KubeTunnel ports (`kubetunnel/`, `kube/utils.go`) | none | ports codec, local/remote pairing | no port, two local ports for one remote, unmapped ports | what is read back are the service's ports, and each frp pair leads to one of them |

How they interact: REST handlers and the watch handler take clients from the
pool, which is only written before the server listens. Every websocket
connection has its own `MessageDispatcher` (read loop, context, write lock);
all of them call one shared `CallDispatcher`, which calls the `WatchHandler`.
The manager's loop, watchdog and client goroutine share the cancellation
channel of the round and poll the kill flag. The forwarding library runs an
informer whose handlers edit kubefwd's registry, and a wait for the tunnel's
server whose end, for whatever reason, makes its caller edit the hosts file.
REST clients and creators of tunnel resources write the same kind of object at
the same API server.

## Modules and code

### `RpcStream` (core), `MCRpcStream`, `ReplyStream`, `RpcStreamProofs`

Each message `m` has three program counters: `hpc[m]` for the goroutine that
runs `handler.Handle` and then closes `reply`, `wpc[m]` for `dispatchMessage`
draining `reply` into the socket, `lpc[m]` for the informer's listener that
runs the event callbacks.

| State | Code |
|---|---|
| `active` | `CallDispatcher.activeCalls`; the value is the call whose cancel function is stored |
| `lock` | `activeLock`, only while it is held across a step (the `.cancel` branch sends `ok` under it). The two short locked sections around the map write and the delete are one step each |
| `cancelled`, `down` | contexts: a call's own, and its connection's (`d.ctx`) |
| `loop`, `sockErr` | `dispatchLoop`, and a websocket that has failed a write (gorilla keeps its first write error) |
| `sent`, `delivered` | replies that went through the unbuffered `reply`, and the last one written |
| `crashed` | an unrecovered panic of some goroutine |

| Actions | Code |
|---|---|
| `Dispatch`, `CloseReply`, `WriterEnds` | `dispatchMessage` and its two goroutines |
| `WriteOk`, `WriteFail` | `writeMessage`; a failure cancels `d.ctx` |
| `DecodeFails`, `LookupCancel`, `ReplyOk`, `UnknownMethod`, `ReplyKo`, `RegisterCall`, `UnregisterCall` | `CallDispatcher.Handle`, top to bottom |
| `PrepareFails`, `StartInformer`, `CacheSynced`, `SyncAborted`, `WatchEnds` | `WatchHandler.Handle` |
| `ListenerEvent`, `SendEvent`, `SendOnClosed`, `ListenerStops` | the three callbacks, and the client-go listener that runs them (external, as `watch.go` uses it) |
| `LoopBreaks`, `CloseConn` | the end of `dispatchLoop` |

The module is an *open* component: any message may arrive on any open
connection. That is deliberate. As the code stands, `dispatchLoop` never
dispatches a message (see `OnlyJunkIsRefused` below), so that a closed model
would check nothing; what is checked here is the handlers under any client.

`ReplyStream` is the abstract specification: what a client sees of the answers
to its messages. `RpcStream` refines it (`ImplementsReplyStream`) under the
mapping `once` = messages that are not watches, `phase` = the state of the
draining goroutine, `delivered` = `delivered`.

`Requests` is the constant set of what the clients may send: functions from
messages to a connection, an id and a method. The theorems hold for any such
set; `MCRpcStream` names the two scenarios TLC runs.

### `StreamLoop`, `StreamLoopProofs`

One connection's read loop: `readMessage` spawns reader `n` for call `n` and
selects on its result or `ctx.Done()`; `WriterCancels` is a failed write of the
calls' replies. `HandleMessage` decodes as the code does: `json.Unmarshal` gets
a struct, not its address (`TargetIsPointer`).

### `KubeContexts`, `KubeContextsProofs`

`initKubeClientPoolWithRetry`: attempts that walk the kubeconfig's contexts in
any order (`AddContext` or `SkipContext`), choose the current one, and retry.
`flag` is `*flags.Context`, which `main.go:129` points at the loop variable;
in Go 1.20 that is one variable for the whole loop, so the flag ends as the
last name visited. An attempt is one goroutine before the server listens; the
model is sequential for that reason.

### `FrpManager`, `ClientSupply`, `MCFrpManager`, `FrpManagerProofs`

`RunFRPc` (`mgr`), and per round the watchdog `pc[r]["dog"]` and the client's
goroutine `pc[r]["run"]`. Both call `CancelWithReason` on the round's channel,
modelled instruction by instruction: `EnterOnce` (`sync.Once`: the first caller
runs, the others wait), `CloseChan`, `RunCallback` (closes the client), `SetReason`.
`IsAvailable` is what the polls of the local port see. `errVar` is the *named*
result `err` of `Execute`, which the client's goroutine assigns while `Execute`
returns it: `AssignNil` and `ReturnErr` are the two halves of `return cancelChan,
nil`, and `RunEnds` may come between. The kill signal, the exit after it, and the
local port are the environment.

`ClientSupply` is the abstract specification, without goroutines or channels:
clients come one after another, a new one only when all before it are revoked;
each is revoked once, and not told to close before; after the signal there is one
more at most. A client that was told may still take its time to end, beside its
successor: that is as much as the code promises. `FrpManager` refines it
(`ImplementsClientSupply`): `given` is `round`, `client` is `svr`, `revoked` is
`closed`, `signalled` is `killed`, and `extra` is `killed /\ round > killRound`.
`OneClientAfterKill`, a theorem, follows from the refinement, so the run does not
check it again.

### `RestApi`, `TunnelResource`, `MCTunnelResource`, `TunnelResourceProofs`

`RestApi`: concurrent requests about one object, each a small program: decode
the body, find the context, make one API call, answer. The API server is
external: the object is a version number (`object`, and `top`, the last one
given); an update is refused when it names another version; a call may fail
before or *after* it took effect. A delete answered without error removes the
object (`Remove`) or only marks it (`Mark`, `terminating`), as finalizers and
graceful deletion do; a marked object can still be read and replaced, and goes
when its finalizers are done (`Finalize`). `deletedAt` is the history of what
deletes saw. `Dropped` stands for a connection closed
without an answer, which is what a handler's panic gives (the router is
`gin.New()` without recovery, so `net/http` recovers and drops the buffered
answer). `Asked` is the set of requests considered.

`TunnelResource` extends it with creators of a KubeTunnel resource, which is
that same object: `FetchContext`, `FetchLabels`, `ReadResource`,
`CreateResource` or `ReplaceResource` (a `PUT` with the version just read),
`Refused`. What is posted is the version only: nothing in the repository hands
its own resource type to `CreateKubeTunnelResource`, which takes an external
model (`kube.go:10,175`), and nothing joins the look-up of the service to it.

### `TunnelPorts`

Functions without state, evaluated over bounded inputs where the manager first
uses what one of them returns (`TunnelEndsMeet` in `MCFrpManager`, the run
`frp_manager`). `String`, `MarshalJSON`, `Split`, `Trim` and `UnmarshalJSON` are
the codec of `Ports` on a text whose tokens are ports, quotes and commas: decoding
*appends* to what the value holds, and an empty list comes back as one empty port.
`LocalPortByRemote` is the set of inverses that the loop over a Go map may make,
one for each order; `ToFRPClientPairs` pairs the service's ports with it;
`FirstPort` is the manager's `ServicePair[0]`, which panics when there is no pair.
The two ways of the ports are not joined, as nothing in the repository joins them.

### `Informer`, `WatchEvents`, `ObjectView`, `InformerProofs`, `WatchEventsProofs`

`Informer` is the client-go informer as both `watch.go` and `kubefwd.go` build it,
for one object: the cluster's versions, a watch connection that breaks and loses
what was on its way, a new list after it, the resync that tells the handlers of the
stored version again, the store, and the notes for the handlers. A resync may come
between other notes; it leaves the last slot of the bounded queue free, so that it
cannot keep real changes out of it. It is external code and marked so.

`WatchEvents` adds the handlers of `WatchHandler.Handle`: `AddEventHandler`
(after the cache has synced, with the store replayed), `AddFunc`, `UpdateFunc`,
`DeleteFunc`, which drops a tombstone. `view` is the version a client that
applies the events holds. `ObjectView` is the abstract specification, in which
neither store nor connection exists: a client is shown versions that existed,
never an older one after a newer one, and does not see an object vanish while
the version it is shown is the current one. `WatchEvents` implements it under
`shown <- view`; `RpcStream` shows that the replies which carry the events
arrive in order.

### `HostsFile`, `ServiceForward`, `MCServiceForward`, `ServiceForwardProofs`

`HostsFile` holds the edits of the hosts file as operators. A file is an array of
lines and a count, because the loops of `tcphelper.go` range over the array while
the txeh library shifts lines up in it: slot `i` may hold another line by the time
the loop gets there, and slots past the count still hold old ones (`RangeLines`). A
line has an address and a set of host names; the library's search, removal and
insertion are `Lookup`, `RemoveAddress`, `AddHosts`, `RemoveHosts`. Loops are
recursive functions of the round (`Walk`), and the edits are stated with sets of
lines, so that they can be reasoned about.

`ServiceForward` composes `Informer` and `HostsFile`: `Start` is `Execute` up to
its goroutines, with `HostsCleanup`; `AddFunc`, `DeleteFunc`, `UpdateFunc` and
`FinishUpdate` are the handlers (an update deletes, then adds: two steps);
`PodSelector` is the selector the code builds, requirement by requirement;
`Kill`, `RegistryShutdown`, `WatchReturns`, `CleanExit`, `ProcessExit` are the
end (the signal may come before `Start`); `ServerUp`, `WaitInterrupted`,
`ChangeHost`, `ChangeHostPanics` are the wait for the server and what its caller
does then. `ServerUp` only dials by name, which the file on disk or the DNS may
answer: it says nothing of the file in memory.

kubefwd's registry and forwards are external. The registry keeps one forward per
name, takes none after the signal and shuts all down. A forward writes its line
when it has its first Pod (`ListForward`) and takes its hosts out again when its
last Pod goes (`UnlistForward`), and when it is removed, by a deletion, an update
or the shutdown (`DropLines`). `listed` says whose lines are in the file: the
modelled service's own, and those of the other party, its tunnel's server or the
service it is the server of, whose forward comes and goes by itself.

## Runs and bounds

Every run finishes within five minutes on two workers.

| Run | Instance | What it shows |
|---|---|---|
| `rpc_calls` | 2 connections, 2 ids, 2 messages of every pair of methods, 1 event each | What the shared registry guarantees (its entries are live calls of that id, an entry is lost only to a call of the same id, only a cancel of that id cancels, the holder of the lock never waits), that no reply is lost while the socket works, that a crash needs an ended watch with an event in hand, the refinement of `ReplyStream`, and that the lock is released, ended calls return and closed connections leave nothing. Its safety properties are proved for all sizes; two messages are the least in which each can fail |
| `rpc_not_found` | 2 connections, 1 id, 3 messages: a watch, a namesake and a cancel | *Violation*, see below |
| `stream_loop` | 4 messages | One live reader, messages handled in order, the loop ends once its context is done. A stranded reader needs one message before and one after it; four leave room on both sides |
| `stream_decode` | 2 messages | *Violation* |
| `kube_contexts` | 3 context names, 3 attempts | The current context is functional, the first attempt honours the user, start-up fails only for a cause. Every kubeconfig and flag over the three names is an initial state |
| `kube_unknown` | 3 names, 2 attempts | *Violation* |
| `frp_manager` | 2 rounds; 5 services' ports, 5 mappings, up to 2 decodings | Channel closed once, nobody returns from `Cancel` before the client was told to close, an old client that still runs is being closed, a panic after a start means the client had already ended; the refinement of `ClientSupply`, at most one client after the kill signal included; and that clients follow the local service. Rounds only overlap pairwise. Beside that, the functions that make a manager's pairs and encode a tunnel's ports, over services with no, one and several ports (one number twice among them) and mappings that share, swap and miss them |
| `rest_tunnel` | 2 requests of every kind, 2 creators, base versions 0..2 | Success is never claimed falsely, a creator goes on only if its resource was taken, no version is replaced twice (by two requests, two creators, or one of each), what was deleted is gone or doomed however it is written to. Two of each give every pair of writers; versions 1 and 2 are those a REST client can have read. |
| `rest_unknown` | 2 requests | *Violation* |
| `watch_events` | 4 versions, 4 notes | The events sent and due make up the informer's store, the refinement of `ObjectView`, and that the view converges. Four versions allow an object to be created, changed, deleted and created again while the watch is down, seen and lost again |
| `forwarding` | 2 versions, 1 note, 2 services, 4 hosts files | The forward is the service as it is now, none nor its line is left at the clean exit, the server's host is found while its forward has its line, the shutdown completes; `HostsCleanup` and `ReplaceAddressForHost` change only the lines the properties name. Two versions allow an update and a deletion that is only learnt from a list, with the service back by then; three or more are covered by the proofs. One service loses its selector, one, under a kubetunnel name, gains it; the files hold what the user wrote and what an earlier run left, in orders that bring matching lines together and apart |
| `hosts_cleanup` | as `forwarding` | *Violation* |

Every bound is a constant: `MaxReplies` (events per watch), `MaxMsgs`,
`MaxAttempts` (what fits in `maxWait`), `MaxRounds`, `MaxBase`, `Decodes`,
`MaxVersion` (versions of an object) and `MaxNotes` (notes not yet handled; a full
queue only delays the informer, as client-go's pipe does not). Symmetry is used
for requests and creators in `rest_tunnel`, which are only compared and have no
liveness property. Each module states a `TypeOK`. TLC has checked them all on
these instances, and all are proved.

Deadlock is checked everywhere. Each module has a `Finished`, `AllDone` (or
stuttering) disjunct for exactly the states in which the program has ended: any
other state without a step would be reported.

## Fairness

Fairness is assumed only where Go's scheduler or a library gives it.

* `RpcStream`: a runnable goroutine runs (WF). The three sections under
  `activeLock` get SF, because `sync.Mutex` hands over to the longest waiter
  once it has starved for a millisecond. A write to an open socket may block
  for ever, as no deadline is set; on a closed connection it fails. A client
  owes nothing, and a cache may never sync. `ListenerStops` is weakly fair
  because the informer was started with the context's channel.
* `StreamLoop`: the loop and the readers run; neither the client nor the
  network owes anything.
* `FrpManager`: the manager, the watchdogs and the client goroutines run; a
  client returns from `Run` once it was closed, but need not end before. Port
  changes, the signal and the exit have no fairness.

* `WatchEvents`: the informer delivers, lists again after a gap, and its handlers
  run; the cluster owes nothing. `ViewConverges` has the premise `<>[]linked`:
  while the connection keeps breaking nothing can be promised.
* `ServiceForward`: the informer, the handlers, the registry's shutdown, the
  return of the watch, the clean exit and the interrupted wait run. For the
  handlers and the shutdown the formula names what only they do (take a note;
  close the registry's channel), which is enabled exactly when they are. The
  server need not come up, the Pods of the forwards owe nothing, and the exit of
  the process a second after the signal is *not* assumed: `ShutdownCompletes`
  shows that the orderly shutdown does not depend on it.

`RestApi`, `TunnelResource` and `KubeContexts` have safety properties only.

## What is proved

Forty-five theorems in seven modules (`InformerProofs` holds lemmas that two of them
share) cover every safety invariant and every action property the passing runs
check, `TunnelEndsMeet` excepted, and the three refinements. They hold for **every**
value of the constants that the assumptions admit. Each module proves one inductive
invariant, `SafetyInv`, and the theorem `SafetyInvariant == Spec => []SafetyInv`;
the properties follow from it. TLC checked each `SafetyInv` on the instance of the
module's run before it was proved.

| Module | About | Proved for any | Theorems |
|---|---|---|---|
| `RpcStreamProofs` | `Spec` | connections, ids, messages and what they ask, events per watch | `RegistrySound`, `LockHolderCanReply`, `EntryLostOnlyToNamesake`, `CancelledByNamesake`, `CrashNeedsEndedWatch`, `NoReplyLost`, `ImplementsReplyStream`, `TypeOK` |
| `StreamLoopProofs` | `Spec` | number of messages | `OneReader`, `HandledInOrder`, `TypeOK` |
| `KubeContextsProofs` | `Spec` | kubeconfig, flag and number of attempts | `CurrentIsFunctional`, `FirstAttemptHonoursUser`, `FailsOnlyForCause`, `TypeOK` |
| `FrpManagerProofs` | `Spec` | number of clients | `ClosedOnce`, `CancelReturnsLate`, `OldClientIsClosing`, `OneClientAfterKill`, `PanicAfterStart`, `ImplementsClientSupply`, `TypeOK` |
| `TunnelResourceProofs` | `TunnelSpec` | requests, creators, base versions | `SuccessIsTrue`, `CreatedIsTrue`, `NoLostUpdate`, `DeletedIsDoomed`, `TypeOK` |
| `WatchEventsProofs` | `Spec` | number of versions and of pending notes | `EventsMakeUpStore`, `ImplementsObjectView`, `TypeOK` |
| `ServiceForwardProofs` | `Spec` | services, hosts files, versions, pending notes | `ForwardIsCurrent`, `NothingAfterCleanExit`, `ListedServerIsFound`, `CleanupSparesOthers`, `SrcFollowsDst`, `OthersKept`, `TypeOK` |

The assumptions are those the model's modules state, and TLC evaluates each in a
run: `RequestsAssumption`, `NoMsgAssumption` and `RepliesAssumption` (`RpcStream`),
`MaxMsgsAssumption` (`StreamLoop`), `NoCtxAssumption` and `AttemptsAssumption`
(`KubeContexts`), `RoundsAssumption` (`FrpManager`), `RestAssumption` (`RestApi`),
`PortsAssumption` (`TunnelPorts`), `BoundsAssumption` (`Informer`),
`ServicesAssumption` and `HostsAssumption` (`ServiceForward`). They say what sets
the constants are members of and that bounds are natural numbers, positive where the
initial state needs one; `HostsAssumption` adds that the line kubefwd writes for the
server names the server and the one for the service does not. `BoundsAssumption`
asks for `MaxVersion >= 1` because the object may exist before the informer starts;
that was missed until the first step of its proof, as no run has `MaxVersion = 0`.

### RPC calls

None of the properties is inductive alone, so `SafetyInv` adds three conjuncts:

* `Joint(m)`, where the goroutines of one message may be *together*: the
  draining loop lives exactly as long as the handler, a call that has not
  reached `watching` has sent nothing, a call in the registry is a watch, and a
  listener that outlives `watching` belongs to an ended context. It carries
  the crash and reply properties.
* `LockInv`, the lock is held by `m` exactly while `m` is at the `ok` reply.
  With `Joint`, its draining loop is then at the receive, hence
  `LockHolderNeverWaits`.
* `CancelledStarted`, a call cancelled through the registry has left its first
  steps. Without it a call could be registered when it is already cancelled,
  and `RegistrySound` would not be kept by `RegisterCall`.

`StepKinds` sorts the steps into the three locked sections, two groups that
leave the registry alone, and bystanders, so that the registry lemmas do not
repeat twenty cases. One lemma per conjunct then shows it is kept, `InitSafe`
that it holds at first. `Refinement` maps every step to a step of `ReplyStream`
or a stutter (`RefinementStep`); only dispatching, writing and the end of the
draining loop are visible.

### Read loop

`ReadersInv`: every reader but the last is gone, and the last is alive, reading
or offering its result, while the loop is in its `select`. (Once the loop has
ended the last reader may be stranded; no other is spawned.) `InHandInv`: what
the websocket has handed out is what `dispatchLoop` has handled plus at most the
message in the last reader's result or in the loop's hand. `OneReader` follows
from the first, `HandledInOrder` is kept because of the second.

### Start-up

`AddingInv`: while the contexts are walked, a wanted context that the kubeconfig
has is in the pool or still to be visited, and a pool that holds any context has
a current one of them. `FailedInv` carries what a failed attempt leaves: if it
found a functional context, it failed over a wanted one that the kubeconfig
lacks. `FirstInv` keeps what the user asked for as long as the loop variable has
not overwritten it, which is why the theorem on honouring the user is about the
first attempt only; `AttemptInv` keeps the count within its bound.

### frp supervision

`OnceInv` ties a channel's `sync.Once` to its two callers: at most one is
between entering and leaving, the channel is closed exactly from `CloseChan`
on, and `done` means that the client was told. `RoundInv` ties `RunFRPc` to the
goroutines of a round: which of them exist at each place of the manager, that the
channels of earlier rounds are closed, and that an error in the shared `err` is
there only when the client has ended. `OldClientIsClosing` needs both: the
channel of an earlier round is closed, so its `Once` has begun, and a client
that is still up has a caller at the callback. `KillInv` bounds the rounds after
the signal: one, if `RunFRPc` had passed its test.

`Refinement` maps each step to one of `ClientSupply` or to a stutter. A start is
a `Supply` (`SupplyStep`): by `RoundInv` every channel so far is closed, the last
one included, and by `KillInv` no client came after the signal yet. The first
caller's `CloseChan` and `RunCallback` are `Revoke` and `TellToClose`, once and in
this order by `OnceInv`; every other step of a goroutine is a stutter.

### The object at the API server

`RestInv` says that an answer follows the result of the call that was made, and
the result what the call did. `GrowInv` is what `NoLostUpdate` rests on: the
object is gone or has the greatest version ever given, and whatever was replaced
is older, so that no second writer can name it. `CreatorInv` gives each place of
a creator what it has in hand: it posts only when it read no version.
`DeleteInv`: an object that a delete removed, marked or did not find is gone, still
marked, or was created since, by a creator that had read none; no update, of a
request or of a creator, brings it back or takes the mark away. The steps of requests
(`HandleTypes`, `HandleVersions`) and of creators (`CreateTypes`,
`CreateControl`, `CreateVersions`) are separate lemmas, as either leaves the
other's state alone.

### Watches and forwards

`InformerProofs` proves `InformerInv` for the client-go informer once, action by
action: `NotesInv`, the notes still to be handled continue the history of the
store, each from the version the one before left; and `LinkInv`, what is on the
wire leads from the store to the object. `Handled` is the version the handlers
have been told of last; `HandledKept` and `HandledTaken` say that only taking a
note moves it, to the note's new version.

* `WatchEvents` adds `ClientInv`, which relates `view` to the notes before and after
  the handler was registered, and `OrderInv`, in which a version shown, stored,
  noted, on the wire and at the API server never runs backwards.
  `ImplementsObjectView` maps handler calls to steps that show a version or hide
  one, the server's steps to the object's, and all else to stutters.
* `ServiceForward` adds `MadeInv`: until the signal, the registry's forward, or the
  one an update has yet to add, is the one wanted for `Handled`, or a tombstone was
  dropped; and `StopInv`: a registry that is done has nothing and takes nothing, no
  line of a forward is left then, and a clean exit has waited for both of its
  conditions. The rest of the hosts file plays no part in either; it has an
  invariant of its own.

### The hosts file

The edits are loops, and the library's theorems on induction take operators, which
no prover here can instantiate. The proofs go around it: `LeastNat` (a set of
numbers has a least member, from the well-foundedness of `<`) gives `UpTo`,
induction over a *set* of rounds, and `WalkExists` gives the run of any loop whose
rounds are functions on a set of files. `Walk` takes its round as an operator, so
that each of the five loops has a lemma with its rounds (`RemoveWalk`,
`CleanupWalk`, `AddHostsWalk`, `RemoveHostsWalk`, `ReplaceWalk`), and an invariant
of its rounds:

* `Rest`: what is left while the lines of an address are removed one by one. It
  keeps other lines, the part of the array before the first line removed, and the
  slots past the count, and each round that finds a line leaves fewer
  (`RemoveAddressSpec`).
* `Cleaned`: a file that `HostsCleanup` has come to has only lines of the one it
  began with, and every line it lost shares its address with a kubetunnel line of
  that one (`CleanupSpec`).
* Hosts that are taken out one by one leave every other host in the file
  (`RemoveHostsNames`, `DropKeeps`).
* Hosts that no line has come into *one* line together, in whatever order
  (`AddHostsFresh`, from `AttachTwice`), and hosts that are where they shall be stay
  (`AddHostsThere`).
* `Moved`: once `ReplaceAddressForHost` has come to the line of `src`, the lines are
  the other ones and the joined one. Later rounds may meet the joined line again,
  in its old slot or a new one, or an old copy of `src`'s line past the count:
  `MoveAgain` shows that each leaves the same lines. This needs the premise
  `Unshared` of both properties, that the two lines share no host with another and
  the server's address has one line: otherwise hosts of one line end up under
  several addresses, and what `Lookup` finds first decides. The lemmas before it
  need no such premise.

`HostsInv` then says that the file in memory stays a hosts file while lines come
and go with forwards, that the server's host is in it as long as its forward is
listed and nothing has been replaced (no other forward's removal takes it away),
and that a process which panicked is over; hence `ListedServerIsFound`. The three
action properties follow because only `Start` cleans and only `ChangeHost`
replaces (`OnlyStart`, `OnlyChangeHost`).

## What is only model-checked

* Liveness and fairness everywhere (`LockReleased`, `EndedCallsReturn`,
  `NoLeakAfterClose`, `CancelledCloses`, `NoServiceNoClient`, `ClientReplaced`,
  `DogEnds`, `ViewConverges`, `ShutdownCompletes`): TLAPS has no support for
  `ENABLED`.
* `TunnelEndsMeet`: its functions are folds over sequences, and what they give for
  every sequence is induction over data.
* Where hosts lead after `ReplaceAddressForHost` in files that violate `Unshared`: the
  run explores some, but only `CleanupSparesOthers` and `ListedServerIsFound`, which
  have no such premise, say anything of them.

## Where code and words disagree

Five runs expect a violation; TLC's counterexample is the evidence.

* `NotFoundMeansNotActive`: `rpc.go:72` says "active rpc call not found -
  nothing to cancel." of a call that is being served. The registry is keyed by
  an id the clients choose and shared by all connections: a second call under
  the id overwrites the entry (`rpc.go:88`), and the first of the two to return
  deletes it (`rpc.go:94`).
* `OnlyJunkIsRefused`: `stream.go:87` says "can not decode websocket message"
  of every message, since line 86 passes a struct to `json.Unmarshal` where a
  pointer is needed.
* `UnknownContextIsRefused`: `main.go:129` overwrites the user's `--context`
  flag, so that a retry no longer knows it, and the server starts although
  `SetCurrent` refused the context as unknown.
* `UnknownContextIs404`: `kubeClient` in `objects.go:33` writes a 404 but does
  not return, and the nil context panics before the answer is sent.
* `CleanupRemovesAll`: `tcphelper.go:59` says "cleaning up all entries containing
  .kubetunnel host", but the loop (line 61) ranges over the array in which
  `RemoveAddress` (line 67) moves later lines up: of two kubetunnel lines next to each
  other the second moves into the slot the loop has left, and stays. That rests
  on how txeh removes lines, which is external.

Other behaviours a reader may not expect are stated as they are:

* `ForwardIsCurrent`: `kubefwd.go:255` says "WARNING: No Pod selector for service
  %s.%s, skipping", but the requirement that keeps kubetunnel's own agent out is
  added at line 246, before the selector is tested for being empty at line 254. Only
  a service named `kubetunnel...` can be skipped (`Wanted`, `SkippedWhen`); any
  other without selector is forwarded to whatever Pod is no agent of it.
* `CleanupSparesOthers`: the cleanup removes by address, so that the user's own
  lines go with a kubetunnel line that shares theirs, `localhost` among them.
* `OthersKept`: `RemoveAddress` drops *every* line of the address, while only the
  hosts of the line that was found are added again.
* `EventsMakeUpStore`, `ViewConverges`, `ForwardIsCurrent`: both informers' delete
  handlers drop tombstones, so that a deletion during a lost watch is never
  reported, and the forward of a service that came back meanwhile is refused as a
  duplicate.
* `ListedServerIsFound`: the panic over an unknown host (`tcphelper.go:34`) needs no
  kill signal. The dial may succeed by way of the file on disk or the DNS, and the
  server's forward may be torn down between the dial and the edit. After the signal
  it is likely, as the wait for the server reports its interruption as success.
* The line that `ChangeHostToKubeTunnel` redirects is undone when the service's
  forward is made anew, and a `src` host of the user's that was moved to the
  server's address stays there after a clean exit.
* `DeletedIsDoomed`: a creator's `PUT` on a resource that is being deleted succeeds,
  and the resource then goes.
* `TunnelEndsMeet`: no mapped port gives no pair, over which the manager panics, and
  an empty list of ports is read back as one empty port.
* An update for an unchanged service (a list after a gap) tears its forward down and
  makes it anew.

## What is not modelled, and why

* Websocket upgrade, HTTP routing, TLS, logging, request ids, flag parsing: I/O
  and wording without state that the properties depend on.
* The frp configuration's way through TOML into frp's structures: a conversion by
  two libraries.
* In `kubefwd/kube/kube.go`, `PortForward`, the connectivity and RBAC checks and
  `New`: single sequences of library calls without state of their own. (`New`
  ignores the error of `mustCreateOutOfClusterKubeClient` at line 53 and panics
  instead.)
* The mutex of each `kubeclient.Context`: `RestApi` uses what it guarantees, that
  a client is made once per success.
* The race on `ClientPool.current` (written under a read lock): `SetCurrent` is
  called only before the server listens.
* `CancellationChannel.Reason` as a value: no code reads it.
* The cancel function of an RPC call that returns by itself is never called
  (`rpc.go:85`): its context stays with the connection's, memory that no behaviour
  depends on.
* In the hosts file: letter case, comments, IP families, the save after each line;
  and kubefwd's own concurrent edits under a lock that `ChangeHostToKubeTunnel`
  does not take, as its code is not in the repository.
* kubefwd's own background sync of a forward's Pods, which is debounced: that a
  removed forward writes no line later is assumed.
* Other programs' edits of the hosts file between reading and saving it.
* In the ports: what frp does with two pairs of one name, which a service port of
  two protocols gives; and the label that `ToKubeTunnelResourceSpec` writes, which
  panics on a Pod whose label map is nil.
* A failed conversion of an environment (`environment.go:114`), which is ignored,
  and the nil client after an ignored error of `GetRESTClient`
  (`kubefwd.go:118,131`), which is one of the ways in which `Start` ends the
  process.
* The inside of kubefwd's registry, txeh, client-go and the Kubernetes API server:
  external, modelled only as the code here uses them.

## Plan

All modules exist, and every safety property within the provers' reach is a
theorem. What is left, in order:

1. An abstract specification of the versioned object that REST requests and
   creators share, with its refinement.
2. The parts listed above as not modelled, should they gain state.
