# egressd: a TLA+ verification project

egressd measures the network traffic of Kubernetes pods. On every node a
**collector** reads the kernel's connection tracking table and keeps traffic
counters per (pod address, destination, protocol). One **exporter** per cluster
fetches those counters from all collectors, finds out which pods the addresses
belong to, and pushes the result to sinks. This directory holds TLA+ models of
these programs, the TLC runs that check them, and TLAPS proofs about all of them: every
invariant and every action property that a passing run checks is also proved, for every
value of the constants (`BooksBalance` for groups of up to two connections, see section 6).
Liveness is left to the runs.

## 1. The system

| Part | Code | State | Operations |
|---|---|---|---|
| Collector | `collector/collector.go` | `entriesCache`, `podMetrics`, `firstCollectDone`, all under `mu` | `collect`, `cleanup` (loop of `Start`), `GetRawNetworkMetricsHandler` |
| Conntrack clients | `conntrack/*.go` | none | `ListEntries` |
| Kernel clock | `conntrack/time.go`, `kernel_hz.go` | `hertz`, set once | conversion of kernel timestamps, guess of CONFIG_HZ |
| RunningPodsCache | `kube/watcher.go` | `pods` by UID | `onAddOrUpdate`, `onDelete`, `Get` |
| PodByIPCache | `kube/podbyipcache.go` | `indexer` by name, `deletedPods` by UID | `onAddOrUpdate`, `onDelete`, `Get`, the cleanup loop |
| Node caches | `kube/watcher.go` | none of their own | `Get` |
| Exporter | `exporter/exporter.go` | a round's channel and goroutines | `Start`, `export`, `buildPodNetworkMetric` |
| Exporter DNS storage | `exporter/ip2dns.go` | address to name, expiring | `Fill`, `Lookup` |
| Sinks | `exporter/sinks/*.go` | none (HTTP), a client (Prometheus) | `Push` |
| DNS records | `dns/resolutions.go` | `ipToName`, `cnameToName`, expiring | `Start`, `Records` |
| DNS tracer | `ebpf/*` | the event queue | `Run`, the packet filter |
| Programs | `cmd/*` | the error channel, contexts | start-up, signal handling |

How they interact:

- `RunningPodsCache.Get` tells `collect` whose connections to list.
- The handler's response (counters and DNS records) is what `export` fetches. In
  delta mode the handler zeroes what it has written, so a response that gets lost
  takes its bytes with it.
- `export` attributes each metric with `PodByIPCache.Get`, which *changes* that
  cache (a terminated pod is dropped once used).
- A response carries the names `IP2DNS` learned from DNS packets; `export` stores them
  and looks up the destination of a metric that belongs to no pod or node.

What makes this hard:

- The kernel's counters restart, expire and are prolonged on their own. Collect
  only samples them, and lists them before it takes the lock.
- A handler holds the lock while it writes to the network; a write that returned
  without an error need not have arrived.
- Pods reuse addresses and names, notifications lag behind, and a broken watch
  turns deletions into tombstones.
- A round has a bounded channel between bounded groups of goroutines, is cancelled at
  any point, and nobody waits for it when the process ends.
- A flow is seen on several nodes, translated on some of them, and the two conntrack
  clients show it in different shapes.
- Goroutines of the collector's `run` share one unbuffered channel that each closes.

`PROJECT.json` lists the hazards with their lines.

## 2. Modules

    TrafficLedger <--implements-- CollectorHistory --extends--> Collector
        MCCollector; CollectorStepProofs <-- CollectorProofs
    PodInformer <--extends-- PodByIPCache, RunningPodsCache
        MCPodByIPCache; PodInformerProofs <-- PodByIPCacheProofs, WatcherProofs
    ExportRound <--extends and implements-- ExporterProgram
        MCExporterProgram; ExportRoundProofs
    DomainNames
        MCDomainNames; DomainNamesProofs
    CollectorProgram, NodeTraffic, KernelClock, with RunningPodsCache
        MCCollectorParts; CollectorPartsProofs
    Attribution, with PodByIPCache
        MCExporterCaches; WatcherProofs

**Collector.** The `Start` goroutine (`pc`), the handler that holds the lock
(`hpc`), the mutex, the two maps, and as environment the conntrack table `ct`, the
clock and the pods. `collect` is `CollectPods`, `CollectList` (or
`CollectListFails`), `CollectLock`, one `MergeEntry` per loop iteration and
`CollectDone`. `Cleanup` is one step, since all of it runs under the lock.
The handler is `HandlerMarshal`, followed by `HandlerFails` or `HandlerWrites`.
`Restart` is the process dying at any point. Abstractions:

- The four counters of an entry go through the same code independently; one stands
  for all.
- Map keys are the hashed tuples, so the 64-bit hash is taken as injective.
- `ct` is a table of *entries* as `ListEntries` returns them. The netfilter client
  makes two entries of a session, which here change independently of each other
  (more behaviours, not fewer). That two sessions may yield entries with the *same*
  key is not covered here; `NodeTraffic` shows when they do.
- `getNodePods` cannot fail, because `RunningPodsCache.Get` does not.

**CollectorHistory** conjoins bookkeeping to each action: bytes carried by the
kernel, counted, used as a baseline only, forgotten (and so counted again),
received by a client, lost. It restricts the collector only by the bounds
`MaxTraffic` and `MaxRecount`. `HDelivered` and `HNotDelivered` are the two fates of
a write that returned no error.

**TrafficLedger** is what delta mode promises: a collected byte waits, then goes to
one response or is lost, and never comes back.

**PodInformer** (not under `src/`: API server and client-go) creates, starts,
terminates and deletes pods, queues notifications, resyncs, and breaks and
re-establishes its watch, after which the notifications of the new list come in any order,
tombstones last. The informer's store follows the API server at once; the notifications its
handler gets may lag behind it.

**PodByIPCache.** `Get` is three steps (`GetLookup`, `GetDelete`, `GetMark`) because
it takes three locks in turn. A cleanup round is `CleanupStart`, then `CleanupDrop`
per timed-out pod in any order (Go's map range), and `CleanupBreak` or `CleanupDone`.
A round over an empty map and a `Get` that finds nothing change nothing and are left
out.

**RunningPodsCache.** Each handler is one step under the mutex.

**NodeTraffic.** The flows of a cluster and what each node's collector lists of them. The
kernel's side is external: translation of service addresses, masquerading, the session
netfilter has on every node a flow passes, Cilium's record for each end. `sessionEntries`,
`netfilterEntries` and `ciliumEntries` are the clients; a session without counters and an
unused record are skipped. `InitNetfilterAccounting` is what `runInit` does. An item of a
listing remembers its flow, so that equal entries of two flows stay two. A client opens a flow
from one of its ports (`Ports`) with some protocol (`Protos`) to a server's port; the node that
masquerades it keeps the port unless the server has such a flow already. `PodIPs` are the
addresses of pods that have one of their own: a pod of the host network has its node's.

**KernelClock.** `init` measures `hertz` by two readings of the kernel's counter
(`getKernelHZ`, or `noTimestamp` with the fallback 1), then `ListRecord` converts what an
entry has left. Integers stand for the code's floats: `interpolate` rounds to the nearest.
`closer` is an iteration of the loop in `nearest`, which always has the same four values.

**CollectorProgram.** `run` up to `return <-errc`, the signal goroutine, the three
components' goroutines (`comp`), `errc`, `ctx`, and of the collector only what `mu` is about:
where its loop is (`loop`: in the select, waiting for `mu` in `collect` or `cleanup`, holding
it) and where a request is (`req`). Between its `Lock` and its deferred `Unlock` the handler
calls `Records`, which panics as long as `IP2DNS.Start` has not made the caches. A second close and a send after a close are the panic they are in Go. When `run` has
returned, `Exit` ends the process; until then the other goroutines go on.

**Attribution.** `buildPodNetworkMetric` lookup by lookup, with informers changing pods and
nodes in between. The ghost variable `during` keeps the caches' contents since the build
began. `kube.ErrToManyObjects` is tested for in the code but returned nowhere, so it has no
case here. Which pod is found for an address is `PodByIPCache`'s business; here any is.

**ExportRound.** The `Start` goroutine, the producer, one fetch goroutine per
collector, the channel, one push goroutine per sink, cancellation, and the end of the
process at any point (`ProcessEnds`). A batch is a token that exists once; its items are
attributed, or skipped, together. `cut` holds what a process took with it.

**ExporterProgram.** `main` and `run` around the rounds: start-up that may fail, the signal
goroutine, `ListenAndServe`, which is all `run` waits for, and the restart.

**DomainNames.** The way of a name from a DNS packet to a metric: the filter
(`cgroup_skb_generic`), `Tracer.Run` (`tpc`) with its bounded queue, `IP2DNS.Start`
(`spc`, one `Select...` action per case and one `HandleAnswer` per answer), a request
that calls `Records` key by key, `Fill` and `Lookup`. Abstractions:

- Caches keep what is left of each lifetime, in ticks; an expired item stays, unfound,
  until the janitor takes it. The cache library is not under `src/`.
- A packet is a record of what filter and parser look at. The perf buffer is left
  out: it only delays or loses packets, which the environment may do anyway.
- One collector. `MaxWait` bounds how long a fetched batch waits for the export loop.
- `Records` before `Start` has made the caches panics in the code; here that request
  only fails, which is what the exporter sees. What the panic does to the collector's
  mutex is in `CollectorProgram`.
- The case `!ok` of the select never happens: nobody closes the tracer's channel.

**MCCollectorParts** and **MCExporterCaches** put parts that share no state side by side in
one run: a variable `part` names the one that moves, the others stay in an initial state in
which none of their fair actions is enabled. Nothing is interleaved, so each part is checked
just as if it had a run of its own.

Definitions commented `Mutant` are wrong variants of the definition after them.
No specification uses them; each shows that some property would notice that mistake.

## 3. Runs

| Run | Shows |
|---|---|
| `collector_delta` | One connection, delta mode, with restarting counters, slow and failing requests, cleanup and process restarts: counters never wrap (`TypeOK`), nothing is counted twice (`NoOvercount`), nothing seen is missed (`ExactOnFirstLife`), and the collector implements `TrafficLedger` |
| `collector_group` | Two connections of one group, one of them without a timeout: what of the group was received, waits or was lost is what the kernel's counters of both were at the last listing, with what was counted again and without the baselines (`BooksBalance`), and a metric outlives the connections that fed it (`MetricOutlivesEntries`) |
| `collector_counter` | Counter mode, one process life, two connections of one group: the counter shown is the sum of theirs (`BooksBalance`), the values sent grow until cleanup drops the metric (`GrowsUntilDropped`), and collect gets the lock and catches up (`CollectCompletes`, `EventuallySeen`) |
| `exporter_caches` | Pod cache: no deleted pod stays resolvable without something that will remove it (`GhostsAreTracked`), and none is dropped before `podTimeout` (`RetainsDeleted`). Build of a metric: it is dropped only for an unknown source or an ambiguous node (`KnownSourceKept`), `cross_zone` is true only of two known zones (`CrossZoneSound`), and a destination that stays where it is is found (`DestinationFound`) |
| `podcache_live` | Deleted pods leave (`GhostsLeave`); what is removed from a namesake comes back (`ResyncRepairs`), across a broken watch too |
| `collector_parts` | The pod set keeps no deleted pod (`NoLeak`), and a running pod reaches it (`RunningIsSeen`). Either client lists each tracked pod's end of a flow once in the cluster, with its own bytes (`EachEndOnce`), under a key of its own (`KeysDiffer`). CONFIG_HZ is measured (`HertzMeasured`) and lifetimes are right to the second (`ExpirySound`). The program ends when a component or a signal ends it (`ProgramEnds`), never as if told to when a component failed (`EndsForAReason`), and `collect` and `cleanup` return whatever requests come, also after one that panicked (`CollectReturnsAlways`) |
| `export` | No send to the closed channel (`NoSendOnClosed`), every batch accounted for between rounds (`Accounted`), no sink is pushed what it has, after a push that timed out or a restart either (`PushedOnce`), at most one batch per collector lost with a process (`OneBatchCut`); a round ends (`RoundEnds`), except in the case below, and a signal ends the program in every case (`SignalEndsProgram`) |
| `domain_names` | A metric is given no name older than the lifetimes of both caches and a request together (`FreshNames`); an empty domain replaces a stored name only if no answer named the address for the TTL (`EmptyOnlyWhenStale`); `Start` returns when its context is done, whatever arrives (`StartStops`), and an answer the tracer has queued is filed, whatever precedes it (`AnswersFiled`) |

What some of them do *not* say:

- `NoOvercount` allows `recounted`: bytes of a live connection whose baseline cleanup
  or a restart forgot. `collector_only_deltas` shows that this does happen.
- `GrowsUntilDropped` stops at the first dropped metric. After it a group that comes
  back starts from its new connection's counter, so a client of counter mode does see
  a smaller value, for all that `collector.go:48-49` calls it "constantly growing".
- `FreshNames` says nothing of *which* of an address's names is used: an address
  record is filed one CNAME back, so at the end of a chain it gets an alias.
- `RetainsDeleted` is about pods that have not terminated and have no namesake around;
  `Get` drops a terminated pod after its first use, and a reused name replaces the
  old entry at once.
- `GhostsAreTracked`, `GhostsLeave` and `NoLeak` speak of the time before the watch
  first breaks. After it deleted pods may stay for ever (`podcache_tombstone`).
- `RoundEnds` excepts a producer that returned because its context was done: it does not
  close the channel (`exporter.go:115-119`), and `export` then waits for ever. The program
  ends all the same, because `run` does not wait for it.
- `SignalEndsProgram` begins when the caches are in sync. A signal before that shuts down a
  server that does not listen yet, and `run` waits for the informers, without end if they
  never sync.
- `BooksBalance` speaks of groups whose connections the kernel never dropped; after that the
  bytes between the last listing and the drop are gone, and `NoOvercount` is what is left.
- `KeysDiffer` excepts a client port with two flows to one backend, by the service's address
  and by the backend's own: both are remapped to the same entry key, and the collector then
  takes one's counter as the other's baseline. `EachEndOnce` excepts sessions older than
  accounting, which have no counters. The other end's address in an
  entry may be the translated one (`seen`), where the node sees no other.
- `EndsForAReason` counts the panic of a second `close(errc)` as an end: after a signal it
  is a possible one, and then the exit status is not 0.
- `HertzMeasured` holds for readings less than 24 ticks a second off (`SteadyAssumption`).
  One tick, which two readings at any phase may be off, is within that for every wait the
  code can have; two ticks are not for the shortest ones: at 106 ms they can make 300 Hz
  look like 250. `ExpirySound` says nothing of the precision when `hertz` is the fallback 1.
- `KnownSourceKept` describes what a metric is dropped for, an address of two nodes among it:
  that is the code's choice (the error is not `ErrNotFound`), which the property records and
  does not question.
- `AnswersFiled` begins when an answer is queued: a full queue drops events
  (`tracer_linux.go:110-115`). It ends when the address is given a name, by this answer or
  another one.
- `DestinationFound` needs the destination to stay: a pod that appears while its node's
  address moves may be missed by both lookups.

### Where the code and its documentation disagree

| Run | The text | The code |
|---|---|---|
| `collector_only_deltas` | "delta of 2 consecutive conntrack entries" (`collector.go:48`) | cleanup drops the baseline of a connection the kernel has prolonged since; its whole counter is counted again |
| `podcache_newest` | test "prefers newest running" (`podbyipcache_test.go:81`) | the earliest created pod wins, terminated or not |
| `podcache_namesake` | test "cleanup deleted pods" | removal by name evicts a recreated pod, until the next resync |
| `podcache_tombstone` | test "cleanup deleted pods" | tombstones are ignored; the pod is never removed |

Two comments in the cleanup loop (`podbyipcache.go:145-147`) are not borne out by the
model either, without consequence for the properties above: the loop's map has no
order, so a round that breaks may leave timed-out pods for a later one, and `Get`
files terminated pods that have no deletion timestamp.

## 4. Bounds

- Collector: clock to 3 with timeouts 0 and 1, so that an entry can expire, be
  prolonged after a listing, and be cleaned up while alive; three bytes, enough for a
  counter that restarts below its baseline and grows past it. Two connections need
  smaller counters (delta mode: 1 byte, clock to 2; counter mode: 2 bytes, one of the two
  connections without a timeout).
- Pod caches: two pods over two names and one address, so that every start reuses an
  address; `PodTimeout` 1, and a clock that runs past the timeout of the last possible
  deletion (`LastChange` stops the cluster early enough for that). In
  `podcache_live` the timeout is less than a tick (`PodTimeout` 0), and grace periods of 0 and 1 give two deleted pods different dates, so that a round meets one that has
  timed out and one that has not, in either order. `podcache_live` and
  `podcache_tombstone` use one name, so that the second pod is a namesake of the
  first. Names are symmetric in `exporter_caches`, which checks no liveness. The watch
  breaks at most once, in `podcache_live`, `podcache_tombstone` and `collector_parts`.
- Attribution: two nodes, so that an address can be ambiguous, two zones, every initial
  content of the caches, and two changes, so that both ends can change in one build.
- Flows: two at a time among two pods of one node and one of another, a service, an outside
  address and the nodes' own; one byte tells the directions apart. Two client ports, so that
  two flows of a pair can differ by the port only; one protocol (with two TLC has three times
  the states, and the theorems hold for any). One pod is not tracked.
- Clock: every CONFIG_HZ, every wait from 100 to 130 ms, where rounding leaves the least
  room, and some up to a second, a tick off either way; lifetimes from -5 to 5 units.
- Exporter: two collectors with a URL and a fetch limit of 1, which is also
  the channel's capacity, so that a fetch waits to send to a full channel while the group is
  at its limit; two sinks and a push limit of 1; two batches in all, over any number of
  rounds and processes. Two fetches at a time are left to the proofs, which hold for every
  limit: with three collectors and a limit of 2 TLC does not finish in useful time. A third
  collector, without a URL (`WithoutURL = {c3}`), takes TLC about three minutes and finds no
  violation either; the run leaves it out, and the proofs hold for any `WithoutURL`.
- DNS: one address with a host name and an alias, so that it changes names; every
  lifetime is one tick, so that each can end between any two steps, and a queue of one
  event. Packets: a response with a CNAME, its address and another record, a packet to
  port 53 that does not parse, and two packets the filter rejects. A query, an event without
  answers, is left to the proofs, which hold for any packets: with it TLC has half as many
  states again and finds no violation either.

Deadlock is checked for the collector, the exporter and the DNS path. It is not for the
runs of pod caches, where clock and cluster may have come to their bounds, and with them
the other parts of `collector_parts` and `exporter_caches`, where a program ends for good.

## 5. Fairness

- Collector: the ticker keeps firing; `CollectLock` is strongly fair because Go's
  mutex hands itself to a waiter after 1 ms; a listing does not fail for ever; a
  handler ends because its client, the exporter, has a fetch timeout, after which
  the write fails. The server itself has no write timeout, so the last one is an
  assumption about the client. One life of the process.
- Pod caches: time passes, a broken watch comes back, the informer resyncs every
  object (30 s in both programs), waiters get the mutex, and the cleanup ticker fires.
- Exporter: every goroutine goes on, fetches and pushes end by their timeouts, and so does
  `Shutdown`. Nothing makes a round begin, a signal come or the caches get in sync.
- Collector program: every goroutine goes on, and a handler that holds `mu` ends (as above, by
  its client's timeout); `CollectLock` is strongly fair as above. Nothing makes a component
  fail, or a signal or a request come.
- DNS: both goroutines go on, and Go's select chooses among ready cases at random, so
  it does not pass over a done context for ever (strong fairness of
  `SelectCancelled`). No packet need ever arrive.

## 6. Proofs

### The collector

Two modules hold the proofs: `CollectorStepProofs` (types, the lock, what each step
does to the values the ledgers read, and that every step keeps the ledgers) and
`CollectorProofs` (lifetimes, the invariant, the theorems, counter mode). Proved for all connections, pods, timeouts, flags and bounds:

| Theorem | States |
|---|---|
| `TypeCorrect` | `Spec => []TypeOK` |
| `Invariance` | `HSpec => []IInv` |
| `NeverOvercounts`, `ExactAccounting`, `MetricsLastLongEnough` | `NoOvercount`, `ExactOnFirstLife`, `MetricOutlivesEntries` |
| `GroupsBalance` | `HSpec => []SmallBooksBalance`: `BooksBalance` for groups of one or two connections |
| `DeltaModeImplementsLedger` | delta mode refines `TrafficLedger` |
| `CountersGrow` | `HSpec => GrowsUntilDropped` |

Assumptions: the tuples are 5-tuples, the two options are Booleans, times and bounds
are naturals.

`NoOvercount` is not inductive: it says nothing of what the next merge will add. The
invariant `IInv` adds

- `AheadInv`: what is *still to be counted*, seen from the cache and from a listing
  that waits for the lock, is covered by traffic as well. The second half is needed
  because the kernel moves on between the listing and the merge;
- `FirstLifeInv`: on a connection the kernel never dropped, cache, listing and
  counter are readings of one growing counter, in that order;
- `LockInv`, `BatchInv`: who holds the lock, and that the batch being written is what
  `podMetrics` holds, so that the reset covers exactly what was sent;
- `Conservation`: what was collected for a group waits, was received or was lost;
- `FreshInv`: before its first collect is done, delta mode has merged nothing.

One lemma per kind of step (packet, quiet step, merge, forgetting, write) and part
of the invariant; `InvStep` combines them. For the refinement, a merge is
`Collect`, a write `Deliver` or `Lose`, cleanup and restart `Lose`, and every other
step a stutter. `GroupsBalance` adds `CountedInv`: what was collected for a group is what was
counted for its connections. The sum over a group of any size is out of reach here, as it needs
induction over the set; one and two connections, among any others on the node, are what the
provers can write out, and the runs check the sum itself. `CountersGrow` needs `SentInv` besides: no client was sent more than
was collected.

### The DNS path

`DomainNamesProofs` proves the types and then that names are fresh, for all addresses,
names, packets, queue sizes and lifetimes:

| Theorem | States |
|---|---|
| `NamesTypeCorrect` | `Spec => []TypeOK`, the queue's capacity included |
| `AgesInvariance` | the inductive invariant |
| `NamesAreFresh` | `Spec => []FreshNames` |
| `EmptyDomainsAreStale` | `Spec => EmptyOnlyWhenStale` |
| `StartGoesOn` | `Spec => []StartNeverStuck /\ FullQueueAdvances` |
| `AnswersNotForgotten` | `Spec => NoneForgotten` |

Assumptions: the empty string is no name, the packets have their fields, the queue and
the lifetimes are positive. The invariant `AgesInv` follows a name through the places
it is kept in. In the collector's cache its age and what is left of its lifetime add
up to the TTL (`CacheAges`). A key that leaves the cache while `Records` runs had
expired (`KeysAges`); this is what a removal between `Keys` and `Get` needs. In a batch
a name's age is at most the TTL and the time since the request began (`ItemsAges`), and
in the storage age and remaining lifetime add up to at most `MaxAge` (`StorageAges`).

`StartGoesOn` and `AnswersNotForgotten` are the part of `AnswersFiled` and `StartStops` that is
not about fairness. An answer that waits in the queue or in the event at hand goes on waiting
until its address is given a name or the process ends (`NoneForgotten`). With an event in the queue or the context done, a guard of `Start` holds (`StartReady` spells
them out). This needs that the loop over the answers is left with the last one (`LoopInv`). While the
queue is full, each step of `Start` makes room, returns, or leaves fewer answers to handle,
and no other goroutine's step takes that back.

### The exporter's rounds

`ExportRoundProofs`, for any finite sets of collectors and sinks, any positive limits, with
cancellation and the end of the process at any point:

| Theorem | States |
|---|---|
| `RoundTypes` | `Spec => []TypeOK`, the limits of channel and groups included |
| `RoundSendsOpen`, `RoundSafe` | `NoSendOnClosed`, `Accounted` |
| `RoundPushesOnce`, `RoundCutsOne` | `PushedOnce`, `OneBatchCut` |
| `ProgramImplementsRounds` | `ProgramSpec => Spec`: the program refines the rounds |
| `ProgramSafe` | so all of the above holds in the program |
| `RoundNeverStuck` | `Spec => []NeverStuck` |
| `RoundsAdvance`, `RoundsAreBounded` | `Spec => RoundAdvances`, `Spec => []RoundBounded` |
| `ProgramAdvances` | so these three hold in the program |

The invariant `IInv` says where the goroutines are relative to each other (`Shape`), that a
batch of the current round is the last one its collector gave away and that this collector
is not fetched again in the round (`LastOfRound`), that no sink has what is still to be
pushed to it (`Fresh`), and where each batch is (`Placed`). `LastOfRound` is what makes a
batch countable by its collector: without it a process could take two batches of one
collector with it, and a batch in the channel could be one that a sink already has.

The last three are the part of `RoundEnds` that is not about fairness. In a round one of the
guards of `Work` holds (`Ready` spells them out), whatever the limits of the two groups and
of the channel are; the one exception is a producer that quit at a done ctx and leaves its
channel open, where `export` may wait for ever. Each step of `Work` makes `StepsLeft` smaller, and `StepsLeft` is at most
5 for each collector, 2 for each sink and 3. What is left to TLC is the step from there to
`~>` under `WF`.

### The pod caches

`PodInformerProofs` is about the informer both caches listen to, `PodByIPCacheProofs` and
the first part of `WatcherProofs` about the caches, for any names, addresses, timeouts
and numbers of pods, events and breaks:

| Theorem | States |
|---|---|
| `CacheTypes`, `CacheSafe` | `TypeOK` and `GhostsAreTracked` of `PodByIPCache` |
| `DeletedPodsAreRetained` | `Spec => RetainsDeleted`, broken watches included |
| `RunningPodsTypes`, `RunningPodsSafe` | `TypeOK` and `NoLeak` of `RunningPodsCache` |
| `RunningPodsSeen` | `Spec => [](SeenOrQueued /\ CaughtUp)` of `RunningPodsCache`, broken watches included |

Assumptions: finitely many names, times and bounds are naturals. `GhostsAreTracked` and
`NoLeak` are not inductive: a pod may be added by a notification that was queued before the
pod was deleted. `InformerInv` supplies what is missing: while the watch holds, the store is
the API server's state, and every queued notification is about a pod that is still there or
is followed by its deletion (`Concludes`). `PodByIPCache` needs one thing more, since its
cleanup finds pods by UID and removes them by name: all who know a UID agree on its name
(`Agree`, over everything the cluster, the informer, the cache and a `Get` under way hold).

`RetainsDeleted` is about dates. Cleanup goes by the DeletionTimestamp in `deletedPods`, the
property by the one in the indexer, and the two copies come from different notifications, so
the proof has to show that they cannot differ. It has two halves.

- Versions of a pod come in order (`InOrder`, in `PodInformerProofs`): from what a cache has,
  over the queue from first to last and the informer's store, to the API server, a
  DeletionTimestamp that is set stays as it is and a terminated pod stays terminated
  (`Later`). Each of the cluster's steps keeps this, a new list after a broken watch too,
  although it skips versions.
- The handler sees the request before the deletion (`AllStamped`): ahead of a queued deletion
  there is a notification with the date, or there is none about the pod and the indexer has
  the date. The same holds of the end of the queue for every dated pod in the store, which is
  what the next deletion needs.

From these follow `DatesAgree` (an entry of `deletedPods` has the date of the indexer's entry,
unless that pod has terminated) and `GetTerminated` (what `Get` is about to remove has
terminated, also in the version a resync has put back meanwhile). `RInv` joins them to `IInv`.
A cleanup round uses a `now` from its start, which only makes it drop less (`cleanupNow <=
now`).

`RunningPodsSeen` is the part of `RunningIsSeen` that is not about fairness: a running pod in
the informer's store is in `Get`, or a notification of it waits; with the watch established and
the queue empty, `Get` has every running pod of the API server. For the induction it is not
enough that a notification waits, since a deletion or an older version behind it would undo it.
`Current` says that the notifications about the pod end with its present version, and that
`pods` has this version if there are none. A new list keeps this because a namesake has another UID,
so its tombstone or update is not about the pod (`Agree`).

### The build of a metric

The second part of `WatcherProofs`, for any nodes, zones, addresses and numbers of changes:

| Theorem | States |
|---|---|
| `SourcesAreKept` | `AttrSpec => []KnownSourceKept` |
| `CrossZoneIsSound` | `AttrSpec => []CrossZoneSound` |
| `DestinationsAreFound` | `AttrSpec => []DestinationFound` |

Assumptions: "no zone", "no node" and "no address" are none. The invariant `AttrInv` ties each
value the build has read to a moment of the build at which the caches said so (a member of
`during`); the present content of the caches is such a moment too, which is what the next
lookup needs.

### The parts of the collector

`CollectorPartsProofs`:

| Theorem | States |
|---|---|
| `CollectorEndsForAReason` | `ProgramSpec => []EndsForAReason` |
| `CollectorGoesToItsEnd` | `ProgramSpec => [](NeverHangs /\ EndLeft \in 0..14) /\ EndAdvances` |
| `FrequencyIsFound`, `ExpiryIsSound` | `HertzMeasured`, `ExpirySound`, for all waits, errors of the readings within `SteadyAssumption`, and lifetimes |
| `EndsAreListedOnce`, `EntriesHaveTheirKeys` | `EachEndOnce`, `KeysDiffer`, for all pods, nodes, services, ports, protocols and numbers of flows |

- Program: `ProgramInv` says of everything that lets `run` return, a component stop or `errc`
  be closed that a signal or an error `run` received came before it. `CollectorGoesToItsEnd` is
  the part of `ProgramEnds` that is not about fairness: once a signal came or a component has
  ended, a goroutine can go on without `mu` and without the caches (a send to `errc` is received or
  panics), and every step but the start and those of `mu` makes `EndLeft` smaller.
- Clock: the measured frequency is at most 24 above CONFIG_HZ and at most 25 below it, and
  275, halfway between 250 and 300, is taken for 300 (`InterpolateFacts`, `NearestFacts`). For `ExpirySound` the inductive fact is that
  `expire` is the conversion of `left` by the present `hertz`, which is set once.
- Traffic: `FlowsInv` has that two flows to one server are seen there as different clients
  (the kernel's port allocation, external), and that an address a server sees is the client's
  or a node's. What a node lists is a function of the flows, so the rest is about one state:
  a listing holds one item for each end of a flow that is a tracked pod of the node
  (`Listing`), and items with the addresses of an end are of one flow (`SameFlow`, `OneItem`).
  This needs that no node's address is a pod's or an outside one, an assumption of the module.

### Only model-checked

Liveness and `ENABLED` are out of the prover's reach: `RoundEnds`, `SignalEndsProgram`,
`ProgramEnds`, `CollectReturnsAlways`, `RunningIsSeen`, `GhostsLeave`, `ResyncRepairs`,
`CollectCompletes`, `EventuallySeen`, `StartStops`, `AnswersFiled`. Of `RoundEnds`,
`ProgramEnds`, `RunningIsSeen`, `StartStops` and `AnswersFiled` the safety they rest on is proved
(`RoundNeverStuck` and `RoundsAdvance`, `CollectorGoesToItsEnd`, `RunningPodsSeen`,
`StartGoesOn` and `AnswersNotForgotten`); in these theorems guards are written out where `ENABLED` is meant. The proofs of an
inductive invariant say nothing of bounds that keep a case from happening; that the cases do
happen is what the runs show.

## 7. Not modelled

- Compositions. Collector, fetch and sinks in one model, for an end-to-end statement that no
  byte is delivered twice, and DNS records that keep a response from being marshalled, are
  not attempted: each part alone has some hundred thousand states at its bounds. The parts
  meet at their interfaces only: a batch a collector gives away (`HandlerWrites`) is a token of `ExportRound`, a
  fetch that was lost is `HNotDelivered`, any answer of `PodByIPCache` is possible in
  `Attribution`.
- Sinks: compression, headers, and labels other than `cross_zone`. A push to Prometheus is
  two writes side by side, for sent and for received bytes, of which one may fail; a push here
  is one, taken in whole or not at all.
- Sessions of protocols without ports, which the netfilter client skips
  (`nf_conntrack.go:69-75`).
- An A answer whose address is not one: `HandleA` takes a parsed address, while the code
  ignores the error of the conversion (`resolutions.go:80`) and panics on the empty address.
  What follows is a restart of the process at that point, which `Restart` allows anyway.
- eBPF: loading and attaching the program is one step that may fail; the verifier, maps and
  mounting cgroup2 are left out. Most of the repository's C is vendored headers of libbpf;
  of its own C, `egressd.c`, the whole filter is modelled.
- Configuration, flags and kubeconfig: parsing and defaults, present only as a start-up that
  may fail.
- HTTP and protobuf encoding, gauges, generated bindings, the dump of the conntrack table,
  the debugging tracer and the end-to-end tests.
