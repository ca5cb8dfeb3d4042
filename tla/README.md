# CMXsafe: a TLA+ model of the gateway layer

CMXsafe puts IoT devices and servers behind SSH proxy sessions that end in a
Kubernetes cluster.  An agent logs in on a gateway Pod; the login runs a forced
command; a client in the cluster sees the command run and makes the user
reachable at that Pod under a name of its own.  This directory holds the
specifications of that mechanism, what TLC checks of them and what TLAPS proves.

## 1. Inventory

### Components

| Component | Source | State | Operations | Modules |
|---|---|---|---|---|
| Kubernetes client | `cluster/k8s-client/main.go` | `podIPCache`, `serviceCache`, the event in hand | informer handlers (Pod, Service), `handleNSService`, `patchEndpointSlice`/`createEndpointSlice`, `handleEWService`, the main loop | `K8sClient`, `RouteRegister` |
| Cluster (API server, MetalLB, Pods) | outside the repository, met through `main.go` | Services, EndpointSlices, Pods, watch streams | writes by name, watches, list on start | `KubeAPI` |
| Forced command | `cluster/cmxsafe-gw/createservice.sh` | none | one call of `logger`, which Tetragon reports; then it sleeps | `K8sClient`, `RemoteForward`, `Delivery` |
| Gateway sessions | `cluster/cmxsafe-gw/` (`sshd_config`, manifests), sshd | sessions, listeners, unauthenticated children | accept, limit, restart, forward, probe, end | `Startups`, `RemoteForward`, `Keepalive` |
| Server agent | `endpoints/iot_server/start.sh`, `endpoints/ssh_config`, ssh | its session | connect, reverse forward, retry | `RemoteForward`, `Delivery`, `Keepalive` |
| Device agents | `endpoints/iot_device_{1,2}/start.sh` | their sessions | connect (through a jump host), direct forward, retry | `Devices` |
| Forwarded connections | `channels.c`, `nchan.c` of both OpenSSH copies | `Channel` structures, windows, buffers | open, read, write, half-close, free | `Channel`, `Stream`, `FlowControl` |
| DNS | `external-dns.yaml`, `metallb.yaml`, `bind9/` | records, address pool | follow the annotated Services | - |
| Scripts | `setup.ps1`, `testing_setup_3.ps1` | none | installation, measurement | - |

OpenSSH is vendored twice (the gateway's and the server agent's); the sshd side
is read in the gateway's copy and the ssh side in the agent's.

### How they interact

The agent's login reaches any Pod of `cmxsafe-gw` (a LoadBalancer Service with
ClientIP affinity).  The listening sshd forks a child for the connection unless
too many are unauthenticated.  The child listens on the server's virtual address
for the reverse forward, then runs `createservice.sh`; Tetragon turns its
`logger` call into an exec event on a gRPC stream.  The client's main loop takes
the events one at a time, looks the Pod's address up in the cache its Pod
informer fills, retires other Services that announce the user's hostname (those
its Service informer has listed in `serviceCache`), creates the user's own
Service, and writes the two routes: the EndpointSlice `<user>-slice`
(North-South) and the ExternalName Service `<user>` (East-West).  MetalLB and
ExternalDNS follow the Service; devices connect to its hostname, or jump to the
East-West name, and forward connections to the server's virtual address.  Each
connection is a channel of the device's session and, from the listener on, a
channel of the server's session.

Two things are hard.  In the client two goroutines and the main loop share two
maps; every cache operation is a load followed by a store; an event takes up to
half a dozen API calls, each of which may fail; the watches lag; Pods are
replaced and their addresses reused; the process ends on a closed stream and
starts again with empty caches, and nothing is retried.  In the sessions a cut
connection, a crash and a timeout may each be known at one end and not at the
other: a listener of a session that is gone stands in the way of the next one, a
request of an earlier session may be executed late, a half-closed channel waits
for what may not come, and a device may hold on to a session that no longer
leads anywhere.

### What makes each component correct

* Client: a route leads to the Pod of a login of its own user and never goes
  back; the two routes of a user agree; a user's hostname is announced by the
  user's own Service alone and the client does not take it away; the cache
  knows every announcing Service; an accepted login is published.
* Gateway and agents: the forced command runs only where the forward is up; the
  latest login is on the Pod that serves; a session that is gone releases its
  listener; the limits of sshd are kept and lock no source out, but for the
  entries a failed socketpair leaves in the table; an end that has gone is left,
  and one that has not is not, unless ssh is told to ask nobody.
* Forwarded connections: what is read is delivered, in order and whole, until
  the receiver aborts; the window is never exceeded or forgotten; the channel is
  freed at both ends, and no message comes for a channel that has been freed or
  could not be opened.
* All together: a route that has not missed its server's latest login leads for
  good to the Pod that listens for it, and a device meets it there.

The hazards, with their lines, are in `PROJECT.json`.

## 2. Plan

Done: `KubeAPI`, `K8sClient` and `RouteRegister` (the client); `RemoteForward`
(sessions and listeners through faults); `Startups`; `Keepalive`; `Channel` with
`Stream` and `FlowControl`; `Delivery` (sessions and routes composed); `Devices`
(with the devices).  Every invariant, action property and refinement that a
passing run checks is also proved.

Left: `CacheText`, the operations of `serviceCache` on the text itself, when
references are suffixes of each other; `Names`, MetalLB and ExternalDNS as an
environment that lags behind the Services; key re-exchange between packets of
the channels (`packet.c`, `kex.c`); the requests the monitor allows during
authentication (`monitor.c`).

## 3. Modules

Modules called `MC...` name the sets the configurations choose from.  Operators
called "...Variant" are not used by a specification: each is a wrong version of
the definition below it, put in its place to see that a property notices.

### The client

`KubeAPI` is the cluster as `main.go` meets it.  A Service is named by a
reference; the primary Service of user `u` (`dynamic-service-<u>`) has the
reference `u`, and everything else that may carry a hostname is in `Foreign`.
Of a Service only its hostname (`key`) and what `isManaged` says of it are kept:
`Absent`, `Plain` (no user's hostname), `Announcing(u)` (managed, u's hostname),
`Tagged(u)` (u's hostname, but of another type or without the suffix, which
`isManaged` refuses and `UpdateFunc` does not look at).  Each object has a
watch queue; objects are not ordered among each other, because the informer's
queue merges what it holds per object.  A Pod is created, gets an address no
running Pod has, and is deleted; its name is never used again and its address
may be.

`K8sClient` is `main.go`.

| Model | Code |
|---|---|
| `HandlePod` | the three handlers of `startPodInformer` |
| `AddFunc`, `UpdateFunc`, `DeleteFunc`, `HandleService` | the handlers of `startServiceInformer`; they yield a list of cache operations |
| `CacheLoad(g)`, `CacheStore(g)` | `serviceCache.Load` and `.Store`/`.Delete` in `appendToServiceCache` and `removeFromServiceCache`, run by goroutine `g` |
| `DropEvent`, `AcceptEvent` | `stream.Recv`, `lookupPodIP`, `extractUsername` |
| `Snapshot` | `serviceCache.LoadOrStore` and the split of the text |
| `Retire(r)` | one round of the loop with `removeNSServiceAnnotation` |
| `GiveUp` | `return ""` and `continue` |
| `CreateService` | `createNSService` and the append that follows |
| `PatchSlice`, `CreateSlice`, `PatchEW`, `CreateEW` | the four calls that write the routes |
| `Restart` | `log.Fatalf` on a closed stream, or a panic; the container is started again |

An API call succeeds, answers the NotFound or AlreadyExists its target's state
asks for, or fails for another reason (`Fault`) with or without having had its
effect.  `serviceCache[u]` is `[ok, refs]`: whether there is a text, and the
references it lists.  The history variables `logins`, `nsLogin`, `ewLogin`
(which login a route was written for), `fresh` (the snapshot in use was taken
when the informer had caught up, and nothing was edited since) and `raced` (a
Store has overwritten what another goroutine stored since the Load) take part in
no guard.

Left out of the client: `patchNSService`, `containsSSH` and `removeSliceLabel`,
which no execution reaches (the entries that would lead to `patchNSService` have
lost the primary in the loop before it); ports, labels and other constant
contents of the objects; the namespace, which is `default` for the Pods
selected; the order of the entries in a text.

`RouteRegister` is what the client promises: per user two routes, each of them
naming a login and an address; a step moves one route to a later login of its
user, at the address of the Pod of that login.  `K8sClient` implements it with
`ns <- Route(nsLogin, slice)` and `ew <- Route(ewLogin, ew)`.

### The sessions

`RemoteForward` has an agent per server, Pods, and a session per slot: an ssh, an
sshd, and the two directions of a TCP connection that is up, cut or gone.

| Model | Code |
|---|---|
| `Connect` | one turn of the loop of `start.sh` up to the requests of `ssh_session2` |
| `ForwardConfirmed`, `ForwardRefused` | `ssh_confirm_remote_forward` with `exitonforwardfailure yes` |
| `ChannelConfirmed`, `ShellStarted` | `ssh_session2_setup`, `channel_input_status_confirm` |
| `ServerAliveCheck` | `server_alive_check` with `serveralivecountmax 0`: an idle ssh ends, too |
| `AnswerProbe`, `ServerClosed` | `client_input_channel_req`/`client_process_net_input` |
| `SetUpForward` | `server_input_global_request`, `channel_setup_fwd_listener_tcpip` |
| `OpenSession`, `DisallowSessions`, `RunForcedCommand` | `server_input_channel_open`, `no-more-sessions`, `server_input_channel_req` |
| `ProbeClient`, `ProbeAnswered`, `ClientClosed` | `client_alive_check` with `clientalivecountmax 0`, `process_input` |
| `GiveUp`, `Lose`, `Abandon`, `Cut`, `Heal`, `HostCrash`, `PodCrash`, `PodStart`, `AffinityExpires` | kernel, network, hosts, kubelet, kube-proxy |

A timeout may fire whenever the wait it bounds can last that long.  A slot is
used again when both its processes have gone.  Authentication succeeds.  What is
read from code outside the repository is that TCP delivers in order what it
delivers, and that affinity lasts longer than anything stays unread.

`Delivery` puts `RemoteForward` together with `RouteRegister`, which stands for
the client: running the forced command is the login.  The client deals with the
logins of an agent in their order, and for each with the North-South route
before the East-West one: it publishes the login (`PublishNS`, `PublishEW`) or
the route misses it (`MissNS`, `MissEW`).  Both miss a login on a Pod whose
address is not cached yet, one on which a Service could not be un-annotated, and
one that is reported while the client is down; one misses a login whose writing
calls fail.  `nsDone` and `ewDone` say which login was dealt with last; a login
that was missed is not tried again.

`Devices` adds the devices: `Joins` is a turn of the loop of
`iot_device_1` (by the North-South route) or of `iot_device_2` (by any jump host
and the East-West route), `Leaves` the end of its ssh, and a session is lost
with a Pod it passes through.  A connection gets through when the session ends
on the Pod on which the server is served; otherwise sshd refuses it, and the
refusal is input to the device's ssh.

`Startups` is the listening sshd: `server_accept_loop` with `startup_pipes`,
`startup_flags`, `startups` and `listening`, the table of `srclimit.c`, the
children with their pipes, and SIGHUP.  `leaks` counts the failed socketpairs
since the listener was executed; no guard reads it.

| Model | Code |
|---|---|
| `Drop`, `Fork`, `ForkFails`, `SocketpairFails` | accept: `should_drop_connection`, `srclimit_check_allow`, `socketpair`, `fork` |
| `ChildReady`, `ChildDone` | the byte and the end of file on a startup pipe |
| `ReceiveHup`, `StopListening`, `Restart` | `sighup_handler`, `lameduck`, `sighup_restart` |
| `Configured`, `Authenticate`, `Give` | the child: the byte, `close(startup_pipe)`, `grace_alarm_handler` or any exit |
| `ReexecFails` | the child goes on after a failed `execv`, and never sends its byte |

`Keepalive` has both probe mechanisms against one clock in ticks, of which the
programs see whole seconds: `ServerTimesOut` is `wait_until_can_do_something` of
sshd when `ppoll` times out, `ServerAliveCheck` the check of ssh, and `Tick`
lets no process run later than `Jitter` and no message take longer than
`MaxDelay`.  The two counts are variables that keep the value they begin with,
so that one run covers the deployed 0 and others.

### The forwarded connections

`Channel` is one connection between two ends that run the same code.

| Model | Code |
|---|---|
| `RcvdEof`, `RcvdClose`, `ReadFailed`, `InputEmpty`, `OutputEmpty`, `WriteFailed`, `Dead` | the functions of `nchan.c`, from record to record |
| `Input...` | the handlers of the messages in `channels.c` |
| `Prepare` | `channel_output_poll` and the pre handlers |
| `AcceptConnection`, `PostConnecting`, `PostOpen` | the post handlers, with `HandleRead`, `HandleWrite`, `CheckWindow` |
| `Collect`, `Free` | `channel_garbage_collect`, `channel_free` |
| `Finish`, `Reset` | the application shuts down its side, or aborts |

`Stream` is what one direction promises, and `FlowControl` the accounting of its
window in numbers; `Channel` implements two of each (`ToStream`, `ToFlow`).  In
`FlowControl` a written byte always counts as consumed, and only `Discard`, which
closes the output (`chan_write_failed`), takes bytes that never will.
Left out: extended data, X11, agents, mux and datagram channels; the failing
reads and writes that are tried again (EAGAIN).

## 4. Runs

| Run | Question | Answer |
|---|---|---|
| `routes` | Two users, two Pods that share one address, one failed call and one restart: does the client implement `RouteRegister`, and when do a user's two routes differ (`RoutesAgree`)? | It does; they differ for at most one user per failed call or restart. |
| `hostnames` | Two users and a foreign Service put by hand into any state, primaries edited too, one restart: `TypeOK`, `CacheComplete`, `DuplicatesRemovedUnlessRaced`, `PrimaryKeepsHostname`. | All hold. |
| `published` | Is a login that was accepted published, when nothing is deleted and nothing fails? | Yes, through all races on the cache. |
| `race` | Are duplicates removed with no excuse for races? | No: a lost update between `appendToServiceCache` calls hides one. |
| `stale_entry` | Is an accepted login published when Services may be deleted and everything has settled? | No: an entry of a deleted Service blocks the user for good. |
| `late_address` | Is every login on a Pod that stays published? | No: one that is reported before the Pod's address is cached is dropped. |
| `lost_service` | Is there a Service for every routed slice? | No: the error of `createNSService` is discarded. |
| `delivery` | Agent, gateway, routes and a device through a fault: does the forced command run only where the forward is up (`LoginOnlyWhereListening`), is the latest login where the agent is served (`RouteLeadsToListener`), does a route that has followed the logins lead there (`RouteLeadsToServer`), is a stale listener released, does every route that does not miss the latest login come to the right Pod in the end, does a device whose sessions end then meet its server again? | Yes, all. |
| `stuck_device` | Do device and server meet again and again, whatever the faults? | No: a device whose session lives on stays at the Pod its server has left. |
| `channel` | Does a connection with data both ways, half-closes and aborts implement `Stream` and `FlowControl` in both directions, drop no data (`ArrivingDataFits`), look up no channel that was freed or could not be opened, and get freed? | Yes, but for one case, which `ChannelFreed` names. |
| `keepalive` | Is an end that has gone left within a bound, and one that can be reached never (`NoFalseTimeout`)? | The first, yes, for any count of ssh and for every count of sshd but 0, which turns the probe off. The second, yes for sshd, and for ssh with any count but 0; with 0, as deployed, ssh leaves a server that is merely idle, though not before it has heard nothing for the interval, less the second the clock rounds off. |
| `startups` | Are `MaxStartups` and `PerSourceMaxStartups` kept, does the table of sources stay in step with the pipes (`TableInStep`), is no child's configuration cut off by a SIGHUP, is every source admitted again and again (`NeverLockedOut`), and is the SIGHUP obeyed? | Yes, through failing calls and any order of the children's messages, but for the sources that stale entries shut out. |

What the violations mean.  `race`, `stale_entry`, `late_address` and
`lost_service` are cases in which `main.go` does not do what its comments, its
README or its names say; `stuck_device` is one of the system: the README counts
on affinity to keep device and server on one Pod, while the affinity that holds
the server there expires.  Each is described, with the lines, in `PROJECT.json`.

`ChannelFreed` excepts `Unnoticed`: both applications have aborted, and both
windows were used up by data that `chan_write_failed` discarded without giving
it back.  Neither `channel_pre_open` then asks for input, so that neither end
ever sees that its connection is gone, and the channel stays as long as the
session.

`NeverLockedOut` excepts `ShutOut`.  A socketpair that fails after
`srclimit_check_allow` leaves an entry for a descriptor that is closed at once
(`sshd.c:1273`).  When that descriptor is used again, `srclimit_done` clears the
first entry that carries it, so that one more entry than there are pipes remains.
As many of them as `PerSourceMaxStartups` shut their source out, and as many as
`MaxStartups` shut everybody out, until the listener is executed again.  The
deployed `sshd_config` does not set `PerSourceMaxStartups`, and then the table
refuses nobody.  The property says that nothing else locks a source out, and
`TableInStep` that no more entries are left behind than socketpairs have failed.

### Bounds

*Client.*  One foreign Service and two edits give every pair of states it can go
through, so that it appears, changes hands and disappears around a login; two
users let one user's entries be confused with another's; two logins are the
least for a route to move, for a text to be raced on and read again, and for two
events to wait in the stream; two Pods with one address are the least for reuse.
One failed call and one restart fall between any two steps.  `StaleEntry` needs
three edits: announce, tag, delete.

*Sessions.*  One agent, since agents share nothing but Pods and each has its own
address and user (the proofs are for any number); two Pods, for a session to
move; two slots, for a session that is gone at one end and its successor.  One
fault (crash of a Pod or the host, cut, idle timeout) is the least that separates
the two ends; healing, the kernel's giving up and the expiry of the affinity are
not bounded.  The safety properties of this run are proved for any number of
faults.  The device is one with a jump host, which has two Pods to lose; the
violation run has a device without.  How many logins are missed is not bounded.

*Channel.*  A window of 2 with packets of 1 makes every window fill, run out and
fall due at the second threshold of `channel_check_window`, half a window; the
first, more than three packets, is never met with these sizes, and it is the
theorems that cover it, with every other size.  Three bytes one
way and two the other are more than a window, so that half-close, CLOSE and
abort meet data that is buffered at either end, on its way, and not yet read.
`MaxQueue` is 2, so that `channel_output_poll` is skipped at times.

*Keepalive.*  Two ticks a second, so that the programs' seconds hide a tick;
intervals of two seconds; at either end a count of 0, as deployed, 1 or 2; and a
clock of 40 ticks, longer than the bounds for both counts of 2.  A message takes
a tick, a process may be a tick late, and one packet of data or event on another
descriptor disturbs the timeouts.

*Startups.*  Two slots and three clients from two hosts, random drops from the
first slot, one connection per source.  Three failing calls are one more than
the table of sources has places, so that stale entries can shut out one source
and all; two SIGHUPs let a restart be followed by another.

The specifications of the client, `Devices`, `Keepalive` and `Startups` may stop
when every bound is used up (or when all is well), so deadlock is not checked in
them; it is in `channel`, where the loops turn for ever.

### Fairness

*Client* (`FairSpec`): the main loop, each informer and the two goroutines'
cache operations are weakly fair; Go runs every goroutine and the API server
answers.  Nothing makes people, Pods or users act, and neither calls nor the
process have to fail.

*Sessions* (`RemoteForward!Fairness`): the loop of `start.sh` turns, the
ReplicaSet starts Pods, both processes handle what arrives, time passes for a
timeout whose condition stays, and a kernel gives up what stays unacknowledged.
Nothing makes a cut heal or an affinity expire.  `Delivery` adds that a login is
published or missed in the end: the client does not stand still, but no login
has to reach a route.  So the two liveness properties excuse a route for as long
as it misses its server's latest login (`late_address` and `stale_entry` show
that this happens); a later login brings it back.  `Devices` adds that the loop
of a device turns and that its ssh leaves a host that has gone (the bound of
`SilentServerLeft`); nothing makes it leave one that answers, and
`DeviceServedAgain` therefore assumes that its sessions end again and again.

*Channel*: both main loops turn (weak); what has arrived is handled though
buffers are prepared in between, a connection attempt ends, and an application
that has not aborted reads what is written to it (strong, since each is enabled
only in one phase of the loop).

*Startups*: the listener deals with what its children send, closes its sockets
and executes itself again when it may, and a child comes to an end of its
preliminaries and its authentication, by the grace time if by nothing else (all
weak).  No client has to come or to stay away, and nothing is assumed of the
chance by which `should_drop_connection` drops.

## 5. Proofs

All theorems are proved for every value of the constants the named assumptions
allow.  Type correctness is never inductive alone; what it needs is said below.

**`K8sClientProofs`** (from `KubeAssumption` and
`ClientAssumption`: the sets are disjoint where the code's names are, and nobody
announces one user's hostname on another user's primary).

* `TypeCorrect`: with `WorkInHand`, that a Store finds an operation to finish
  and a publication a user to work for.
* `PrimaryHostnameKept`: with `PrimariesKeptApart`, that of all primaries only
  that of `u` can be listed for `u`, in the cache, in what a goroutine has
  loaded, in an operation still to come and in the watches; the entry list
  skips it.
* `ClientImplementsRouteRegister`, a refinement: with `RegisterInv`, that a Pod
  is known by its own address or by none, events are handled in the order of the
  logins, and the event in hand is later than all that has been published.
* `RoutesStayTogether`: `AgreeInv` counts, between the two writes of a
  publication, the user in hand as differing unless the slice was written; each
  further user needs a fault or a restart of its own.
* `CacheCompleteness`: `CacheInv`, that the latest event of a watch tells the
  state of the Service, that an append is the last of the operations of one
  handler (so no remove follows it), and that what the informer has handled is
  in the text or still to be appended.
* `DuplicatesGone`: on top of that `RetireInv`, that what still announces the
  hostname is still to be retired or has made the client give up.

**`RemoteForwardProofs`** (from `NoneAssumption`).  `SessionInv` says what the
order of requests and answers gives in one session: before ssh reads that its
channel is open it has read the answer to its forward, and a shell request on
its way means that the listener is up.  `RouteInv` says that an agent has one
ssh, that every session which may still log in is on the Pod of the affinity,
and so that a shell request left over from an earlier session is on the Pod of
the session being served.  From these: `TypeCorrect`, `LoginCorrect`,
`RouteCorrect`.

**`DeliveryProofs`** (from `NoneAssumption` and `DeviceAssumption`).
`SessionsUnaltered`: every behaviour of `Devices` is one of `Delivery` and of
`RemoteForward`, so that the theorems above hold of the whole path
(`WholePathCorrect`).  `LoginInv` ties the three together: the latest login that
was reported for an agent took place on its `lastLogin`, and a route is none or
that to the Pod of one of its logins.  A route that has caught up therefore leads
to `lastLogin`, which `RouteInv` puts where the listener is: `RoutesLead`.  That the client only writes such routes is `ClientImplementsRouteRegister`.

**`StartupsProofs`** (from `LimitAssumption`).  `IInv` matches pipes with slots
one to one, the counters with the cardinalities of the open and the flagged
slots, the children in their preliminaries with flagged slots, and, where
the sources are limited, the source table with the open pipes: every pipe that a
child still holds has an entry, there are as many entries as pipes and failed
socketpairs, and no source has more entries than the limit.
From it: `TypeCorrect`, `CountExact`, `SourcesLimited`, `TableStays`,
and `ChildrenSpared`, since `listening = 0` leaves no flagged slot.

**`KeepaliveProofs`** (from `IntervalAssumption`).  `ServerWatched` bounds the
next check by the rounds since the server was heard.  `ClientWatched` does so for
sshd, where a timeout need not be due: it distinguishes whether the next one
must be.  From them: `SilentServerIsLeft`, `SilentClientIsLeft`.
`NobodyGivenUp` needs `Patient` (two delays fit into sshd's interval, and two and
a second into ssh's), and no assumption on the counts: `Reached`
says that an unanswered probe, or the message that answers it, is on its way and
will be read before the next check; `Rested` says, for a count of 0, that the first
check is an interval later than what was heard last.  The run's constants satisfy `Patient`.

**`FlowControl`** (assuming `Sizes`, which `Channel` assumes of itself).
`Spendable` and `Accounted`: every byte of the window is with the sender, on its
way, or with the receiver, which may have discarded some, once, when it closed
its output.  From them `TypeCorrect`, `DataFits`,
`SenderNotForgotten`.

**`ChannelProofs`** (from `SizeAssumption`).  `IInv` says which of the six stages
of its handshake a channel is in, and once it is `Established`, for each
`Direction`: CLOSE is the last message its sender ever sends, and an end that has
received it has nothing more on its way.  What keeps it is that both directions of
an end that sent CLOSE are closed, so that nothing in the main loop sends for it
again (`Allowed`), and that `chan_is_dead` waits for both.  It says nothing of
how much is sent.  From it: `FreedUndisturbed`, that `NoMessageForFreed` holds:
no message looks up a channel that does not exist, has been freed, or could not
be opened and is a zombie, the types `channel_lookup` does not list.

**`ChannelRefinements`** (from `SizeAssumption`) adds the quantities, in two
invariants on top of that `IInv`.

* `WindowInv`, for each direction: what the sender may send, the data on its way
  and the window on its way back are together what the receiver has left
  (`Balance`), as long as the direction is open; afterwards there are bounds, since an
  end that has been freed does not follow what still arrives.  A record of a
  channel that is not open yet is as it was made (`Fresh`).  From it: `TypeCorrect`,
  the bounds of `Channel`'s `TypeOK`; `DataAccepted`; and step by step
  `AcceptorFlow` and `OpenerFlow`, that each direction implements `FlowControl`.
  What `FlowControl` proves of itself is then carried back (`WindowComesBack`).
* `StreamInv`, for each direction: what was read and not yet delivered is the
  receiver's output, then the data in the queue, message by message, then the
  sender's input (`Stretch`, `Chain`); EOF and CLOSE come after all data
  (`EndsLast`); a receiver whose output drains or has closed has heard of an
  end, and the sender's input was empty by then.  From it: `StreamCorrect`,
  `AcceptorStream`, `OpenerStream`, that each direction implements `Stream`.

Both speak of queues of any length.  `Total` is a recursive function, and in place
of an induction the proofs take a least counterexample (`Smallest`, from the
well-foundedness of `<`): there is a table of partial sums, so that the total of
a queue is that of its parts (`SumsOfParts`).  `Chain` names the byte each message
begins at and needs none.

Only model-checked: the liveness properties `AcceptedLoginPublished`,
`StaleListenerReleased`, `DeliveredInTheEnd`, `DeviceServedAgain`, `ChannelFreed`,
`NeverLockedOut` and `HupObeyed`.  They rest on fairness, and with it on ENABLED,
which the provers do not treat.

## 6. Not modelled

* Authentication, its monitor and privilege separation, key exchange and
  re-exchange, ciphers: a session begins when it is authenticated, and its
  messages arrive whole.  That a user may only listen on the virtual address of
  its own is configuration (`PermitListen` in the `Match` blocks of
  `sshd_config`), and taken as done.
* The configuration parsers, key files, the agent, sftp, scp, multiplexing, X11
  and the other tools of OpenSSH, which CMXsafe does not use.
* The forced command that sleeps on after its session: sshd neither waits for
  it nor kills it, and how many there are is not counted.
* ExternalDNS, MetalLB, bind9 and the resolvers: manifests of third-party
  services.  `Devices` takes a name for what the route says.
* The text of `serviceCache` (see the plan): the model has sets of references.
* The relist of an informer after a missed deletion, whose tombstone `main.go`
  asserts to be a Pod or Service; the panic is a `Restart`.
* The deployment scripts, which are run once by hand.
