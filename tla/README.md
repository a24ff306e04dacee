# redis-admin in TLA+

redis-admin is a Go service beside a Redis Sentinel cluster. It exposes the
topology, connections, keys, memory and replication of the cluster over HTTP,
listens to the sentinels' events and streams them to clients, and runs
operations: a graceful failover, CONFIG SET with an audit log, chaos commands.

This directory holds specifications of the parts of it that have state or
concurrency, the TLC models that check them, and proofs checked by TLAPS.
`PROJECT.json` lists every run, property, theorem, hazard and finding, and which
source lines each definition stands for.

    tlc -workers 2 -config MCEventBus.cfg MCEventBus.tla
    tlapm PubSubProofs.tla

## 1. The system

### Process

`cmd/server/main.go` loads the configuration, starts goroutines for the
listeners (one per sentinel address, all feeding one event bus), the optional
Kubernetes informer and the metrics exporter, then serves HTTP until a signal
arrives. It cancels the goroutines' context, gives the HTTP server ten seconds to
drain and returns; it waits for nothing else. Apart from the event bus, the
audit log, the flapping windows, the lag rings, the eviction baseline, the pod
cache and the gauges, nothing is kept between requests. Every request makes
its own calls to the sentinels and the nodes.

### Components

| Component | State it keeps | Operations | Hard part | Correct means | Module |
|---|---|---|---|---|---|
| Event bus (`sentinel/pubsub.go`) | map of subscriber channels, RWMutex | Subscribe, Unsubscribe, publish | publish ranges over the map while streams come and go; the channel is closed outside the lock; full buffers | no send on a closed channel; lossy fan-out in order; a slow client harms nobody else | EventBus, LossyFanout |
| Event stream (`handlers/events.go`) | one channel per request | forward events, leave | a client that stalls or goes away | its subscription ends | EventBus |
| Listener (`sentinel/pubsub.go`) | flapping windows, backoff | subscribe, parse, detect flapping, publish, retry, stop | disconnects, lost and late messages, the edge of the window, cancellation anywhere | flapping is marked exactly when it should be; it stops; it comes back | PubSubListener |
| Graceful failover (`operations/failover.go`, `handlers/operations.go`) | the request's progress | resolve, quorum, lag, command, poll, notify | concurrent elections, sentinels that disagree, lost replies, resends, cancellation | what is started was justified, what is reported happened, it ends | Failover |
| Address resolution (`sentinel/topology.go`) | none | GetNodeAddresses | two queries, an election between them | master and replicas of one sentinel's view | Failover, NodeReports |
| Webhook (`operations/notify.go`) | a goroutine per notification | post | runs after the request | a failover the request saw is notified | Failover |
| Config set and audit log (`operations/configdiff.go`, `audit.go`) | the last 500 changes | SetConfig, record, GetAuditLog | read and write without a lock; lost replies; the ring at its limit | the log tells what was changed, from what | ConfigAudit |
| Stale lock scan (`diagnostics/locks.go`) | a map of seen keys per request | SCAN, TTL, report | SCAN's guarantees, keys that change, nodes that fail | no lock twice, none missed | KeyScans |
| Chaos failover (`chaos/trigger.go`) | none | SENTINEL FAILOVER, or delete a pod | runs beside a graceful failover | does not corrupt its report | Failover (mode sentinel) |
| Pod cache (`k8s/informer.go`) | pods by IP | add, update, delete events | an IP that is reused before the old pod's delete arrives; a watch that breaks | a lookup never names a pod that did not have the address; what is left over can be explained | PodCache, PodDirectory |
| Connections (`connection/*`) | none | CLIENT LIST on every node, name by pod, classify | one node fails; the cache changes between lookups | no leak overlooked, none blamed on another pod | Connections, NodeReports (distribution) |
| Memory and evictions (`diagnostics/memory.go`) | a baseline per node | report, rate | concurrent requests replace the baseline | a rate is of evictions that happened in its interval | NodeReports |
| Lag tracker, resyncs (`replication/*`) | a ring of samples per replica | record, trend, count | requests and exporter append; two offsets read one after the other | a lag is not overstated, a trend has no gap | LagTracker, NodeReports (resyncs) |
| Exporter (`metrics/*`) | gauges | a ticker loop | stale gauges, partial failure, its stop | gauges are of one poll, the quorum was there | LagTracker, LifeCycle |
| Key scans (`keys/*`) | none | SCAN for big keys, TTLs, hot keys | repeated keys, several replicas, keys that change | no key that stays is missed | KeyScans |
| Config diff (`operations/configdiff.go`) | none | CONFIG GET on every node, compare | empty values | a drift that is shown is one, and none between two values is missed | NodeReports |
| Chaos seed and flush (`chaos/seeder.go`) | none | pipelines, SCAN and DEL | lost replies, resends, refused commands, elections, cancellation | counts are what happened | ChaosData |
| Server and life cycle (`api/*`, `cmd/server`) | open requests | serve, shut down | streams that stay open, goroutines nobody waits for | shutdown ends | LifeCycle |
| Topology, quorum (`sentinel/topology.go`, `quorum.go`) | none | read INFO and flags, CKQUORUM | sentinels that change while they are asked | a quorum shown was there, every node is listed once | LifeCycle, NodeReports |
| Slowlog, pipeline reports (`diagnostics/*`) | none | ask every node, parse | one node fails, an election | every node is in the answer or among the errors | NodeReports |
| Configuration (`config/config.go`) | none | defaults, once at start | - | - | not modelled |
| Swagger documents, DTOs | none | generated code and plain types | - | - | not modelled |

### How they interact

* A listener calls `publish` synchronously. `publish` and the event streams share
  the bus's RWMutex and the buffered channels: that is EventBus. The listener's
  own loop is PubSubListener, where `publish` is one step: EventBus's
  `PublishReturns` is what justifies it.
* The failover, the connection monitor, the scans and the reports all start
  with `GetNodeAddresses`, which asks the first sentinel that answers.
* Requests for the memory share the baselines of the eviction rate and a mutex: that is
  NodeReports. The other reports share nothing but the cluster.
* A seed and a flush meet in the master's keys, and only there: that is ChaosData.
* The failover's and the chaos failover's only common ground are the sentinels.
* A config set and a reader of the audit log share the log and its mutex.
* The connection monitor looks each client up in the pod cache, one read lock per
  lookup. PodDirectory is what the two modules share: PodCache implements it, and
  Connections reads it.
* The exporter measures the lag with the same service as the requests for it, and so
  appends to the same rings: that is LagTracker. Its poll begins with the topology, and
  it is one of the goroutines main does not wait for: that is LifeCycle.
* An event stream is an open request to the server. EventBus has the handler's side of it,
  LifeCycle the server's: nothing connects the stream's context with the signal.

## 2. Modules

| Module | Models | Composed with |
|---|---|---|
| `LossyFanout` | what the bus promises: offers to members, in order, lost exactly when full | abstract specification of EventBus |
| `EventBus` | the bus, its lock, the publishers and the event streams | implements LossyFanout |
| `PubSubListener` | one listener, its sentinel, subscription and clock | uses EventBus's guarantee |
| `PubSubProofs` | theorems about EventBus and PubSubListener | |
| `Failover` | failover requests, the sentinels, chaos failovers, the webhook | |
| `FailoverProofs` | theorems about Failover | |
| `ConfigAudit` | config set requests, the nodes' values, the audit log | |
| `ConfigAuditProofs` | theorems about ConfigAudit | |
| `KeyScans` | one scan for stale locks, big keys, TTLs or hot keys, over nodes whose keys change | |
| `KeyScansProofs` | theorems about KeyScans | |
| `ChaosData` | a seed and a flush, over a master whose keys change and that may be replaced | |
| `ChaosDataProofs` | theorems about ChaosData | |
| `NodeReports` | requests for the reports that ask node after node, and the eviction baselines | |
| `NodeReportsProofs` | theorems about NodeReports and Connections | |
| `PodDirectory` | what a reader of the pod cache may rely on | abstract specification of PodCache |
| `PodCache` | the informer's handlers and the map, over a cluster and a watch | implements PodDirectory |
| `PodCacheProofs` | theorems about PodCache | |
| `Connections` | one connections or analysis request | extends PodDirectory |
| `LagTracker` | lag requests and the exporter's loop, their rings and gauges | |
| `LifeCycle` | main, the HTTP server, open requests, the exporter's goroutine | |
| `ExporterProofs` | theorems about LagTracker and LifeCycle | |
| `MC*` | instances for TLC | extend the module they are named after |

Three modules of proofs extend two components each, which share no state; one component of each such pair
names its specification, its actions and its types after itself (`ListenerSpec`, `LifeSpec`,
`MonitorSpec`).

A definition whose comment starts with "Wrong variant" is not part of a
specification. It is the definition below it with a plausible mistake, kept to
show that the properties would notice: with the variant in the place of the
definition TLC reports the property that `PROJECT.json` pairs with it.

Variables marked "history" are no state of the program. They record what
happened, so that a property can speak of it, and no guard reads them.

### EventBus

`writer` and `ppc` are the RWMutex: a goroutine in `Lock` keeps new readers out
(`RLock` puts them in "waiting") and waits for those inside (`HoldsWriteLock`);
`Unlock` lets the waiting readers in. `subs` is `b.subs`, `buf` and `closed` are
the channels. `publish` is `PublishCall`, `PublishRange`, one `Send` per channel in
any order (a Go map has none) and `PublishReturn`, so a stream can come or go at any
point of the range. The handler is `Connect`, `Lock`, `Subscribe`, the loop of
`Receive` and `Written`, `Return` when its context is done, and the deferred
`Unsubscribe` and `Close` - two steps, because `close(ch)` runs after the unlock.

Fairness: goroutines run; a writer that waits is let in (strong fairness, because
readers come and go; `sync.RWMutex` lets a waiting writer block new readers, and
`sync.Mutex` hands itself over to a starved waiter); `select` picks at random, so
a done context cannot be passed over for ever; a write to a connection whose
client is gone returns. A write to a client that is connected and stalled need
not, and no message, connection or disconnection need happen.

### PubSubListener

`pc` follows `listenSentinel`: "top", "reading" inside `subscribe`, "waiting" for the
backoff, "stopped". `ReceiveMessage` is `parseEvent`, `detectFlapping` and `publish` of one
message. `tracker` is `flapTracker`. A payload is the sequence of its fields, and
`NodeAddr` takes the same two fields the code takes, whatever the channel. The clock
ticks at any time; a delivered message waits in `inbox` for any time.
With go-redis v9.5.1 the subscription reconnects by itself, so its channel closes
rarely; the model lets it close at any time, which is what the code is written for.

Fairness: the goroutine runs, timers fire, and `select` does not pass over a done
context for ever. The environment owes nothing.

### Failover

The sentinels elect masters (`masters` is the history of the elections, the last
one is in force) and hear of each other's elections late (`heard`). They may run a
failover for a request, for a chaos failover or on their own. A request's `pc` is
the step of the operation it has come to: the handler's check of `confirm`, the two
queries of `GetNodeAddresses`, the quorum, the lag of each replica, the choice of a
sentinel, SENTINEL FAILOVER, and the poll for a master other than the old one.
Every step has its error return, and cancellation may come between any two.
`CommandUnanswered` is a command whose reply is lost, taken up or not: go-redis
sends it again up to `MaxRetries` times. The deadline of the wait is counted in poll
intervals, of which a slow query uses more than one.

Fairness: a handler that runs goes on, because every call it makes has a timeout.
Nothing is assumed of the sentinels.

### ConfigAudit

`config` is what the nodes hold. A request reads the old value (`GetOld`, which may
get "<unknown>" when CONFIG GET fails, and an empty one when the reply has no such key: the node
lacks it, and CONFIG SET will be refused, or spells it in another way), sends CONFIG SET (answered, refused, or applied without an
answer and sent again or given up), and records. Other clients and node restarts
change values too (`OthersSet`). `entries` is the log, `log` the history of every entry. `held` is
history: the values that were in force from a request's reading to its change.

### KeyScans

One request, of one of four jobs, walks over its targets with a SCAN loop. `due` is what SCAN
still owes the iteration on the current target (the keys that were there when it began and
have stayed); it may return other keys, repeat some and return none. A change to any key of a
node that will still be read can come between any two steps.

* "locks" is `GetStaleLocks`: `seen` is shared by the targets, `result` is dropped when a target
  fails (`Kept`), and a failed request without a result is an error.
* "bigkeys" is `ScanBigKeys`, whose reports go to the client at once, and "ttl" `GetTTLReport`:
  what a target gave outlives its failure, and the request succeeds.
* "hotkeys" is `GetHotkeys`: `PolicyFails` is all that can happen on a node, see below. The rest
  of `collectHotkeys` is not modelled because it is never reached.

A reply of -1 or -2 to TTL becomes so many nanoseconds in go-redis (`Duration`), zero seconds in
`scanLocks` (`TTLSeconds`), and is not -1 second in `collectTTLStats` (`IsNoTTL`). Namespaces are
not told apart: the statistics are kept by key (`result`, `all`, `noTTL`). MATCH is in what `Keys`
are.

### ChaosData

`key` is what the master has of the keys the prefix and the pattern name. `seed` follows `SeedData`
and `Seed`: `QueueKey` is one turn of the loop, `Close` its end, by the count or by
cancellation, and a pipeline is `Send`, then one `Execute` per command - the server takes other
clients' commands in between - and `Executed`, or `SeedBreaks`. `flush` follows `FlushData` and
`Flush`: `Scan`, `Delete`, of which the reply may be lost and which is then sent again, or
`DeleteFails`, and `Continued` for the end of a turn.

An election gives the keys as a new master has them that missed any of the changes; go-redis'
failover client dials it, and a SCAN goes on there with the old master's cursor, so it is owed
nothing. The values and types of keys are left out, but for the one difference that matters:
SET takes an expiry away, and the writes of the other types do not. `created` is int64 and counts to
100 000 at most.

### NodeReports

Every request resolves the addresses, asks one node after the other, keeps the errors and
answers. `req[r].kind` says which report it is; what differs is which nodes are asked and in
which order (`Asked`), what a node may tell (`RepliesTo`), whether a failure is an error
(`NodeFails`; topology calls the node unhealthy instead), what the answer points out (`FlagsOf`) and
when it is an error (`IsNothing`). One parameter stands for all of `CONFIG GET *`, and a number of
reads for `INFO commandstats`.

A request for the memory takes three steps for each node: INFO is answered (`ReadMemory`),
`evictionRate` takes the time (`Stamp`), and takes and replaces the baseline under the lock
(`Swap`). Nodes evict and restart, and time passes, between any two. `total` and `boots` are
history, and so are the fields of a sample other than its count and time.

### PodCache

`cache` is `ipToPod`, `Handle` one call of AddFunc, UpdateFunc or DeleteFunc, `Stored` and
`Removed` what `set` and `delete` do to the map. client-go is external and modelled from what
the handlers see of it: it holds the changes of one pod back under the pod's name
(`deltas`), hands names out first in, first out (`queue`), queues the calls for the handlers
(`calls`), and lists again after a break, when a pod that has gone is
deleted as it was last known. Two pods may be listed in any order; that they are
listed by name is not modelled. The cluster reuses addresses and names, and a pod that
has finished keeps its address in its status. No pod uses the host's network. `held` and
`moved` are history.

### Connections

One request (`request`) asks node after node for CLIENT LIST, the master first: `Resolve` or
`Unresolved`, `Fetch` or `FetchFails`, `Enrich` for each client, `NodeDone`, `Respond`. Between any two
steps, and between two lookups of one node, the directory may change in any way PodDirectory allows. A
listing is a set of groups of connections; the parsing of its lines, with `sourceIP` that cuts the port
off, is in what a group is. (`sourceIP` is applied twice, to an address without a port the second time,
which changes nothing for IPv4; IPv6 is not modelled.) `Severity` and `Suspicious` are the rules and the
filter of admin tools, `Merged` the clients over all nodes. The top lists, their order and the
recommendations' wording are left out. A client is hidden because of the pod it was looked up as,
which may be another one on the next node: `TakenForAdmin` says that it was looked up as an admin tool
that has had the address, and nothing else excuses a leak or an idle time that is not shown. An election between the two queries of `GetNodeAddresses` can make
a node master and replica: it is then read twice.

### LagTracker

A caller is a request for the lag or the exporter, each in its own walk through
`GetReplicationLag`: addresses, the master's offset, then replica after replica (`Measure` or
`MeasureFails`, `RecordSample`, `GetTrend`), and then `Answer`, or, for the exporter, `TakeLags`, one
`SetLagGauge` after the other in any order (the replicas are walked in any), and `GaugesSet`. `/metrics`
is served by other goroutines, so what the gauges show must be right between any two of them. `samples` is the map of
rings; recording and reading the trend lock the mutex one after the other, so they are two
steps. The cluster is external: the master writes, a replica follows, an election makes another
node master. A sentinel's view is the master of now or the one before, and the replicas may
be walked in any order. A sample's time is taken under the lock; what it tells is the order of
the samples, which is `no`. The gauge of the promotion score, set beside each lag and computed from
it, is left out. So is a scrape as a sequence of reads: it reads one gauge after the other itself, and one
that takes long enough can mix polls that the gauges never show at the same moment.

### LifeCycle

`main` is where main is: in the select, in `Shutdown`, or returned. `drained` counts the seconds
`Shutdown` has run, up to its `Deadline`. net/http is external: `Shutdown` closes the
listener, closes connections that send nothing, lets handlers go on, and returns when none is
open or its context is done (`Drained`). A request may never end; a stream of events does only
when its client leaves. `Exit` cuts off what is open and whatever the exporter does.

The exporter waits in its select, which after a signal may still take a tick; reads
the topology; asks the sentinels for their quorum (`AskQuorum`) until one has it; and
sets the gauge. CKQUORUM without an answer counts as no. The lag that follows is LagTracker; the
gauges of clients and memory are left out.

Fairness: main goes on and time passes. Requests, clients, signals, sentinels and the exporter
owe nothing.

## 3. What is checked

| Run | Instance | Shows |
|---|---|---|
| `event_bus` | 2 listeners (2 events and 1), 2 streams, capacity 1 | no send on a closed channel, lossy fan-out, publish returns, streams of gone clients end |
| `listener` | 1 node, threshold 3, window 3 ticks, 4 ticks, 5 messages | flapping marked exactly, backoff bounded, stops, reconnects |
| `failover` | 3 nodes, 2 sentinels, 1 request, 2 elections, 2 sends, wait of 2 polls | the command is justified, a reported switch is real, the request ends |
| `config_audit` | 3 requests for 1 parameter of 2 values, ring of 2 | the log keeps the newest changes, 200 means recorded once, an old value is unknown, or was in force between its reading and the change |
| `pod_cache` | 2 pods, 2 addresses, 4 changes or breaks | implements PodDirectory; a pod that shares its address with none is found; leftovers come from pods that moved |
| `connections` | 2 nodes, 2 addresses, 2 pods of which 1 is an admin tool, 2 listings | a leak or a long idle time is shown on its node, or taken for an admin tool that has had the address |
| `lag_tracker` | 3 nodes, 1 request beside 2 polls, ring of 2, offsets to 1, 1 election | a lag is not overstated, a trend is the newest samples without a gap, the gauges are of one poll and, while it sets them, the one under way |
| `life_cycle` | 2 requests, 2 sentinels, a shutdown of 2 steps | shutdown ends, the gauge shows only a quorum that was there |
| `key_scans` | 2 replicas and the master, 2 keys, 2 batches per node, 2 changes | no lock twice, lasting locks and keys found |
| `chaos_data` | a seed of 1 to 3 keys in pipelines of 2, or a flush of 3 keys; 2 sends, 2 events | success means written, once, with its expiry; counts of removed keys; nothing left behind |
| `node_reports` | 2 memory requests over 2 nodes, or 1 other over 3 nodes; 4 events | rates are of real evictions; every node once; a drift that is shown is one, and an overloaded replica has the share it is called so for |

Why these bounds are enough for the cases that matter:

* Event bus: with one slot a second event already overflows. Two publishers hold
  the read lock together, two streams let one stall while the other leaves, and a
  publisher can meet either at every point of its range. A third of a kind
  adds no new pair of steps, and the proofs cover any number.
* Listener: three +sdown of one node need two -sdown between them, which are the five
  messages. A window of three ticks in a life of four puts timestamps inside, outside
  and exactly at the cutoff. The backoff takes every value it can.
* Failover: three nodes leave a replica to select and another to be promoted instead;
  two elections let the master come back to the old one between two polls. A second
  request would reach the first only through the sentinels, which is what
  `ChaosFailover` and `SpontaneousFailover` do.
* Config audit: three requests fill a ring of two past its limit, and one can slip between
  the read and the write of another. Requests for other parameters meet only in the
  log.
* Pod cache: the start is a cluster in any state. Four changes are a break and a pod that
  is deleted, created and started before the next list. Two pods can take each
  other's address, and a third could only do the same to either.
* Connections: a leak of two kinds of connections that no group shows by itself, idle times on
  both sides of each limit, clients on one node and on both, every role of each
  node, and a directory that may change before every lookup.
* Lag tracker: three samples of a replica fill a ring of two past its limit, and either caller can
  record between the other's append and read. An offset of one tells a replica that is behind
  from one that has passed what was read of the master. Two polls leave gauges of the first
  beside those of the second, and the election between them changes whose they are.
* Life cycle: one request can end while another stays open to the end; one sentinel
  can lose its quorum while the other, asked later, gets it; a deadline of two steps has a state
  before, in and at it. A poll is repeated without a bound.
* Key scans: two replicas that fail, differ or list in either order; two keys, one reported
  while the other is not; TTLs and sizes at and over the threshold; two changes, so a
  key can disappear and come back, on one node or on the other.
* Chaos data: three keys in pipelines of two are a full and an incomplete one, two keys a full and
  an empty one, and one key is the default. Counts of -1, 0 and 4 are below and above what is
  accepted. A flush meets any three keys in any batches. Two events are a change and
  an election that loses it, or a key deleted and written again. A seed beside a flush is
  not an instance of its own: each sees of the other what it sees of other clients.
* Node reports: four events are an eviction, a restart, an eviction and a tick between
  two readings, in any order, which is what a baseline that is overtaken needs. The baselines
  start empty or not. Three nodes are two replicas whose shares are compared, and three values
  of which one is empty; the reads 0, 1, 4 and 5 make shares of 0, 80 and more than 80 percent.

The type invariants of Connections (`MonitorTypeOK`), KeyScans, LagTracker, LifeCycle (`LifeTypeOK`) and
NodeReports are in no run's list, because they state types and bounds only. They are theorems.

Deadlock is checked in every run. A state in which everything has ended is given
an explicit stuttering action (`Quiescent` and its like), so any other stop is reported.

### Where the code and its documents disagree

The run `lock_persistent` checks what the code's comments and the API's documents say, and ends in
a counterexample: a lock without a TTL is stale, and a key without one is counted as such; but its
TTL of -1 becomes nanoseconds, and neither is ever reported (`locks.go:121`, `ttl.go:115`).

Others have no run. The modules follow the code, and the passing properties state what it does
keep, with what it does not keep as an exception of theirs:

* A node is marked flapping at its third +sdown in 60 seconds (`pubsub.go:218`), as
  `REDIS_COMMANDS.md:891` says, where the function's own comment says more than three
  (`pubsub.go:192`) and `redis-patterns.md:89` more than N (`FlappingExactly` in PubSubListener is
  about the code's reading, and does not hold of the other at exactly three).
* A node that fails in the middle of a stale lock scan leaves its locks marked as seen, its reports
  are dropped, and the next node skips them, where `locks.go:34` says that only the node is
  skipped (`Kept` and `Skip` in KeyScans; `StaleIsReported` has to except them as `dropped`).
* The pod cache is not "up to date via watch events" (`informer.go:93`). A pod that has finished keeps
  its address in its status, and takes the entry of the one that has it now (`informer.go:68`). A pod
  that is deleted removes that entry, if it finished with the address, or if its deletion is handed
  out after the other one's address (`informer.go:74`). The running pod is then found wrong, or not at
  all, once the informer has caught up (`UnsharedIsFound` in PodCache excepts addresses that were shared).
* No hot key is ever found: CONFIG GET's reply is a map with one entry, and `hotkey.go:83` asks for
  two (`PolicyFails` in KeyScans).
* Big keys and TTLs are counted once per replica and for each time SCAN returns them
  (`scanner.go:197`, `ttl.go:113`), and a report is answered 200, or ends with "done", though nodes
  failed (`Answer` in KeyScans).
* A flush succeeds though a DEL failed or its client is gone (`seeder.go:187`, `seeder.go:173`), and a
  seed that is cancelled between two pipelines succeeds with fewer keys (`seeder.go:106`).
* A replica is called overloaded by its share among the replicas that answered, where
  `distribution.go:64` speaks of the results of all replicas (`Overloaded` in NodeReports; a replica that
  answers alone is flagged if it has any reads).
* A parameter drifts when two nodes disagree (`configdiff.go:21`), but one that is empty on one node and
  set on another is a drift that is shown or not, by the order in which Go walks over the map
  (`configdiff.go:88`; `DriftFlags` in NodeReports; `DriftsAreReal` excepts the empty value).
* `repl_backlog_active` is 0 or 1 in Redis, not a size as `resync.go:65` says, so the alert is never
  raised (`IsBacklogFull` in NodeReports).
* When the list of replicas cannot be had, the reports are of the master alone, without an error
  (`topology.go:236`); after an election between the two queries they have one node twice and the
  new master not at all, where `configdiff.go:28` speaks of every node (`EachNodeOnce` excepts both as
  `split`).
* A +switch-master event gets an address made of the old port and the new IP
  (`pubsub.go:187`; `NodeAddr` in PubSubListener).
* A failover that comes about after its request has failed or was cancelled, or whose command was taken up
  and not answered, is not notified, where `PHASES.md:77` speaks of a webhook on failover events
  (`failover.go:124`, `:137`; `PostWebhook` in Failover).
* A CONFIG SET whose reply is lost for good is applied and not recorded (`configdiff.go:149`;
  `SetUnanswered` in ConfigAudit), where `handlers/config.go:48` says that the change is recorded. The old
  value in the log is another one than was replaced if somebody set the parameter in between
  (`configdiff.go:134`; `OldValueIsHonest` then says that both were in force in between). The
  entries are in the order in which the requests came to the log, not in that of the changes.
* `monitor.go:145` says that connections flagged S or M are skipped, where line 179 skips S
  only (`Counted` in Connections).
* The quorum gauge keeps its last value while no sentinel can be reached, and shows 0 when the
  sentinels were only asked too late (`exporter.go:113`; `TopologyFails` and `AskQuorum` in LifeCycle).
* The gauges of the lag keep their last values when any one replica fails (`exporter.go:132`;
  `TakeLags` in LagTracker).

## 4. What is proved

TLC checks the instances above; the theorems hold for every value of the constants,
under the `ASSUME`s of the module, which TLC evaluates in the runs.

**PubSubProofs**, of EventBus. `TypeCorrect`, `NoSendOnClosed` and `BusImplementsFanout`, from one
inductive invariant, `IInv`. `NeverSendOnClosed` alone is not inductive: a stream may close
its channel after it has left the lock, and that this is safe depends on where every
publisher is. `IInv` adds `WriterIsInside` (who is in the critical section is the
`writer`), `MapFollowsHandlers` (the map and the closed channels are a function of where the
handlers are) and `RangeSeesTheMap` (what a range has left to visit is still in the map,
and it has something left only under the read lock). Then a delete from the map needs
the write lock, under which no range has anything left (`NoRangeUnderWriteLock`), and
a channel is closed only when it is out of the map. `PublishedBeforeSent` is there for
the refinement: an offer that is pending belongs to an event that was published. The
refinement maps each action: `Subscribe` to Join, `Unsubscribe` to Leave, `PublishRange` to
Publish, `Send` to Offer, `Receive` to Read, and every other action to a stutter.

**PubSubProofs**, of PubSubListener. `ListenerTypesHold`, and `FlappingIsExact`: for any nodes, threshold
and window an event is published as flapping exactly if it tells of a node going down and such messages
about it have been received in the window as often as the threshold says. The property counts all
receipts; the tracker has forgotten most of them. `IsTracked` says that it holds a suffix of them, and
that those it has dropped had left the window, which they never enter again because the clock only goes
forward. Receipts are in order (`Ascending`), so any cutoff cuts them in two (`CutExists`), and the
filter leaves what is behind the cut (`RecentIsSuffix`). The filter is a recursive function. Induction
over data is out of the provers' reach as a rule, but not as a least counterexample: `LeastNumber`, that
a set of naturals has a least element, has no operator among its parameters, and applied to the set of
places where the filter is wrong it leaves the induction step. The lemmas on sums below are proved alike.

**ConfigAuditProofs.** `TypeCorrect`; `KeepsTheLast`: for any size of the ring the log is exactly
the newest part of the history, from the lemma that trimming after an append commutes
with taking the tail of the history (`AppendThenTrim`); and `OldValuesAreHonest`: for any
number of requests, the old value of a change is unknown, or was in force between its reading and
the change, as the value that was replaced was. The last needs `HeldIsKept`: while a request has read and
not changed the parameter, `held` has the value that is in force, and the one it has read if it has read
any.
`OksAreRecordedOnce` says that a change answered 200 took effect and has one entry. `OkIsRecordedOnce`
does not speak of running requests; `RecordedAtTheEnd` adds that none of them has an answer or an
entry yet, and that only a change that took effect is about to get one.

**FailoverProofs.** `TypeCorrect`, `CommandsAreJustified` (`CommandIsJustified` always) and
`SwitchesAreReal` (`SwitchIsReal` always), for any nodes, sentinels, requests and lags. Neither
property is inductive: the one speaks of requests that have sent a command, the other of reports.
`Justified` follows a request to that point: at each step it has what the step needs,
and what it had when it sent the command stays with it. `Grounded` says that what a request
has read is still a prefix of the history of elections at the sentinel it was read from,
because `masters` and `heard` only grow; an old and a new master that one sentinel named
are then two elections in order. `WithinBound`, that the elections held and the
failovers running together stay within the bound, types `masters`; it counts sentinels,
so the set of sentinels is assumed finite.

**PodCacheProofs.** `TypeCorrect`, and `CacheImplementsDirectory`: for any pods, addresses and number
of changes every step of PodCache is a step of PodDirectory or a stutter.
The refinement is not inductive by itself, because a call is handled long after the
pod had the address. `OnlyHeld` adds that every address of the cluster, of the calls held back
and of the calls that are due is one the pod has had. `Handle` is then Learn, Forget or a
stutter, and a change of the cluster Gain. The set of pods is assumed finite,
for the order in which the informer lists them.

`UnsharedAreFound` and `LeftoversHaveMoved` speak of the map once every call has been made
(`Settled`), and so say nothing in any state before. `CatchUpInv` says what the calls that are due will
make of the map: `InTheEnd("set", p, i)` that the last of them that concerns the entry of i and names p
is the "set", or that none does and the entry is p's; `InTheEnd("delete", p, i)` the opposite. Of every
pod, the address the informer knows is coming, unless it is shared (`KnownIsComing`), and every
other one is going, unless the pod has moved (`OthersAreGoing`). Both rest on `InformerKeepsUp`: what is
known is the cluster as long as the watch holds, and what is held back is in the queue under its
pod's name. When nothing is due `InTheEnd` is the entry itself.

**KeyScansProofs.** For any finite set of replicas, any keys, and any number of batches and changes.
`TypeCorrect` comes with `WalkInv`: no node is visited twice, SCAN ends owing nothing, and between nodes
nothing is pending. `LocksAreReportedOnce`: `NoKeyTwice` is about what nodes have reported, and
becomes inductive with `OnceInv`, that whatever was counted, by a finished node or by this one, is in
`seen`, and by this one only if by none before. `StaleLocksAreReported` follows a lock that stays over
the threshold: SCAN still owes it or it is marked (`OverIsComing`), a marked one is reported or excused
(`OverIsKept`), and after the first node that was scanned to its end they all are marked; if there is
none the request fails (`OverIsMarked`). `LastingKeysAreCounted` is the same walk for the jobs that share
no map (`SteadyIsComing`).

**ChaosDataProofs.** For any limit, size of a pipeline, number of resends, changes and elections.
`SeedsAreWritten` and `SeedsExpire` are about a seed that has succeeded. `WrittenInOrder` and
`ExpiringInOrder` say which of the keys of the current pipeline are written, and have an expiry, by the
number of its commands the server has executed (`Sent`, `ExpireSent`): two per key with a TTL, and one
otherwise. That `created` is a multiple of the batch when a seed was cancelled comes from `PipelinesAreFull`.
A pipeline that is sent again starts from its first command, and what was written stays written.
`DeletionsAreCounted` needs only `RepliesAreCounted`, what was removed against what was counted, and the
cardinality of the keys one DEL finds. `NothingIsLeft` needs `StayedIsComing`: a key that has stayed
is owed by SCAN or in the batch, as long as nothing spoilt the flush.

**NodeReportsProofs.** For any nodes, any number of requests of every kind, and any number of events.
`TypeCorrect` types the reports by the kind of the request, and needs `Course`, what is known at each
step; the order in which a report asks the nodes is an injection of 1..n into n nodes, so it names
each of them (`FS_Injection` and its like in FiniteSetTheorems).
`RatesAreOfEvictions`: the property speaks of the reports, whose rates come from two samples taken at
any time before, by any two requests. `SamplesAgree`
says of all samples in play for a node - its baseline, and what requests have read of it and not
swapped in yet - that each is true to the node's history (`StillTrue`) and each two to each other
(`Agree`): of one boot, their counts differ as the totals do; of two, the later count is at most what was
evicted since the earlier. So it does not matter in which order they replace each other.
`DriftsAreDifferences`: the code compares against the first value that is not empty, in the map's order.
The lemma `DriftsInAnyOrder` says of any order that names every node what is found and what cannot be
missed; `DriftInv` carries it from the end of a request. `EachNodeIsToldOnce`: `EachNodeInv` says that the
nodes told of, those among the errors and those still to be asked are apart, each without a
repetition, and together all the nodes expected; before the second query, that the master read is
still one, unless the request is `split`. That the number of places is one is then a singleton's
cardinality.

`OverloadsAreOverloads`: what is summed is a fold with CHOOSE, of which nothing is known but its
equation. A sum over the parts of a finite set exists (`SumExists`), and every element can be taken out
of it first, whichever CHOOSE takes (`SumInAnyOrder`); so two shares are no more than the whole
(`SumOfTwo`), and one of more than 80 percent leaves less than a quarter of itself to any other.
`OverloadInv` adds that a distribution asks each replica once, without which a node could be flagged for
the reads of its double.

**NodeReportsProofs**, of Connections. For any pods, addresses, admin tools and finite listings, whatever
the pod cache learns and forgets between any two lookups. `MonitorInv` has four parts. `DirectoryInv` is
what PodDirectory promises: a lookup finds a pod that has had the address, and `held` only grows, so that
stays true of a pod that was found long ago. `IsFaithful` says that a node's clients are its listing's,
with their sums and maxima. `MonitorCourse` says that each node resolved is to be read, has failed or has
a result, and that an analysis is answered only with none of the first two. `RequestForConnections` types
the request; `MonitorTypesHold` follows. `LeaksAreShown`: the leak is of application connections, and the
rules see all but the links of replicas; a sum over a set is no less than that over a part of it
(`CountsOfPart`, from `SumsAgree` and `SumOfPart`), and the longest idle time no shorter
(`MaxIsLargest`), so the rules see at least as bad a client. It is hidden only if what was looked up is an
admin tool, and `OnlyAdminsAreTaken` says that that pod has had the address. `LongIdleTimesAreShown`: a maximum over the
nodes is reached on one of them, and the rule about idle times alone is enough there.

**ExporterProofs**, of LagTracker. For any nodes, requests beside the exporter, size of the rings and bounds.
`LagsAreNotExaggerated` proves an action property. Its invariant, `OffsetsInv`, is that no node is ahead
of the master, and that a caller that is `steady` measures other nodes than the master, against an
offset the master has had. `GaugesAreOfOnePoll` speaks of every state, those between two `SetLagGauge`s
too. It needs `Course`, that what a caller returns is, unless a replica failed, exactly what was listed, and
`GaugesInv`: from the beginning of a poll on, the gauges it has not set yet are of an earlier one. `TrendsAreTheLatest`:
`TrendInv` says that a ring is the newest samples of its replica, numbered without a gap, and that a
caller that has recorded and not yet read the trend finds its sample there, or as many newer
ones. The lemma `RingOfOneMore` says what appending and trimming does to such a ring.

**ExporterProofs**, of LifeCycle. For any requests, sentinels and deadline. `LifeTypesHold`, and
`QuorumGaugesWereTrue`: when the gauge shows a quorum there was one during the poll that set it. The
sentinels are asked one after the other while they change, so the quorum need not be there when the gauge
is set. `QuorumInv` says that a poll has noted (`hadQuorum`) any quorum there is while it runs, and one
that a sentinel has told it of.

### What is only model-checked

* Liveness: `PublishReturns`, `GoneStreamEnds`, `ListenerStops`, `Reconnects`, `RequestEnds` and
  `ShutdownEnds` rest on fairness and so on ENABLED, which the prover does not handle.
* `lock_persistent` is a counterexample, and nothing to prove.

Every other property of a passing run, invariants and action properties and the two refinements, is a
theorem. The theorems rest on the named `ASSUME`s of the modules, which say that bounds are natural
numbers, that some sets are finite or not empty, and what the inputs look like; on nothing about the
sizes of the instances.

## 5. What could come next

* The top lists and recommendations of the connections, with `Merged` as their source.
* The gauges of clients and memory of the exporter, when they are set from more than one reply.
* A proof of liveness, should the prover come to handle ENABLED: the measures would be the
  publishers' pending channels, the listener's inbox and the steps a failover's wait has left.

## 6. Not modelled, and why

* What a report only copies from one reply, sorts or cuts off: the entries of the slow log, most
  fields of INFO, the list of peer sentinels, namespaces.
* Configuration loading runs once, before anything else.
* The text of events, reports and JSON, logging, and the swagger documents.
* Chaos failover in mode pod: one call to the Kubernetes API. What it causes, an
  election by the sentinels, is `SpontaneousFailover`.
* A restart of the process: everything it keeps is in memory, so a restart is `Init`.
