------------------------------ MODULE Collector ------------------------------
(***************************************************************************)
(* The node collector, collector/collector.go: one goroutine (Start) that  *)
(* runs collect and cleanup in turn, HTTP handler goroutines that serve    *)
(* GetRawNetworkMetricsHandler, and the mutex c.mu between them, against a *)
(* kernel conntrack table and a set of pods that change on their own.      *)
(*                                                                         *)
(* The four counters of an entry (tx/rx bytes/packets) go through the same *)
(* code independently of each other; "bytes" stands for any one of them.   *)
(* Map keys are the hashed tuples themselves: the 64-bit maphash is taken  *)
(* to be injective.                                                        *)
(***************************************************************************)
EXTENDS Integers, Functions

CONSTANTS
    Conns,              \* conntrack tuples <<src IP, src port, dst IP, dst port, proto>>
    Pods,               \* pods of this node
    PodIP,              \* pod.Status.PodIP of each, "" when it has none yet
    HostNetworkPods,    \* those with Spec.HostNetwork
    ExcludedPods,       \* those in a namespace of cfg.ExcludeNamespaces
    PrivateIPs,         \* the addresses isPrivateNetwork accepts
    GroupPublicIPs,     \* cfg.GroupPublicIPs
    SendTrafficDelta,   \* cfg.SendTrafficDelta
    Untimed,            \* tuples the kernel reports without a timeout
    Timeouts,           \* timeouts the kernel gives a connection
    SentLifetime,       \* the "2 minutes" of the handler
    MaxTime,            \* bound on the clock
    MaxBytes            \* bound on a kernel counter

ASSUME ConnsAssumption ==
    \A c \in Conns : c = <<c[1], c[2], c[3], c[4], c[5]>>

ASSUME FlagsAssumption == GroupPublicIPs \in BOOLEAN /\ SendTrafficDelta \in BOOLEAN

ASSUME TimeAssumption ==
    /\ Timeouts \subseteq Nat /\ SentLifetime \in Nat
    /\ MaxTime \in Nat /\ MaxBytes \in Nat

VARIABLES
    now,                \* wall clock, in units of the model; 0 is Go's zero time
    ct,                 \* kernel conntrack table: tuple -> [bytes, expires]
    running,            \* what podsWatcher.Get() returns
    pc,                 \* where the Start goroutine is
    podIPs,             \* collect's local getPodIPs(pods)
    conns,              \* collect's local conns, less the iterations already made
    mu,                 \* holder of c.mu
    hpc,                \* where the handler that holds c.mu is
    batch,              \* its marshalled items: group -> bytes
    entriesCache,       \* c.entriesCache: connection key -> [bytes, lifetime]
    podMetrics,         \* c.podMetrics: group key -> [bytes, lifetime]
    firstCollectDone    \* c.firstCollectDone

kernel == <<now, ct, running>>
loop   == <<pc, podIPs, conns>>
state  == <<entriesCache, podMetrics, firstCollectDone>>
http   == <<hpc, batch>>
vars   == <<kernel, loop, mu, http, state>>

ZeroTime == 0

-----------------------------------------------------------------------------
(* Go maps: assignment m[k] = v. *)
Put(m, k, v) == [x \in DOMAIN m \cup {k} |-> IF x = k THEN v ELSE m[x]]

EmptyMap == [x \in {} |-> x]

-----------------------------------------------------------------------------
(* Keys. *)

SrcIP(c)   == c[1]
SrcPort(c) == c[2]
DstIP(c)   == c[3]
DstPort(c) == c[4]
Proto(c)   == c[5]

\* Mutant: the ports and the destination are left out of the key.
KeyBySource(c) == <<SrcIP(c), Proto(c)>>

conntrackEntryKey(c) == <<SrcIP(c), SrcPort(c), DstIP(c), DstPort(c), Proto(c)>>

isPrivateNetwork(ip) == ip \in PrivateIPs

\* The destination of a connection after "conn.Dst = 0.0.0.0:0".
GroupDst(c) == IF GroupPublicIPs /\ ~isPrivateNetwork(DstIP(c)) THEN "0.0.0.0" ELSE DstIP(c)

entryGroupKey(c) == <<SrcIP(c), GroupDst(c), Proto(c)>>

Keys   == {conntrackEntryKey(c) : c \in Conns}
Groups == {entryGroupKey(c) : c \in Conns}

-----------------------------------------------------------------------------
(* Arithmetic of collect on one entry. *)

\* Mutant: the difference without the REP-243 test.
PlainDelta(current, cached) == current - cached

\* lo.Ternary(current < cached, 0, current - cached).
ClampedDelta(current, cached) == IF current < cached THEN 0 ELSE current - cached

\* What the entry conns[c] adds to its group.
Delta(c) ==
    LET key == conntrackEntryKey(c)
    IN  IF key \in DOMAIN entriesCache
        THEN ClampedDelta(conns[c].bytes, entriesCache[key].bytes)
        ELSE conns[c].bytes

\* Mutant: a metric keeps the lifetime it was created with.
Unextended(a, b) == b

Later(a, b) == IF a > b THEN a ELSE b

Earlier(a, b) == IF a > b THEN b ELSE a

-----------------------------------------------------------------------------
Init ==
    /\ now = 1
    /\ ct = EmptyMap
    /\ running \in SUBSET Pods
    /\ pc = "idle" /\ podIPs = {} /\ conns = EmptyMap
    /\ mu = "free" /\ hpc = "idle" /\ batch = EmptyMap
    /\ entriesCache = EmptyMap /\ podMetrics = EmptyMap /\ firstCollectDone = FALSE

-----------------------------------------------------------------------------
(* The environment: the kernel, the clock, the pods of the node. *)

\* A packet creates the tuple's entry or adds to it, and sets its timeout anew.
Packet(c, t) ==
    LET bytes == IF c \in DOMAIN ct THEN ct[c].bytes ELSE 0
    IN  /\ bytes < MaxBytes
        /\ ct' = Put(ct, c, [bytes |-> bytes + 1, expires |-> now + t])
        /\ UNCHANGED <<now, running, loop, mu, http, state>>

\* The kernel drops an entry before its timeout; a later packet starts from zero.
Destroy(c) ==
    /\ c \in DOMAIN ct
    /\ ct' = Restrict(ct, DOMAIN ct \ {c})
    /\ UNCHANGED <<now, running, loop, mu, http, state>>

\* Time passes; entries past their timeout leave the table.
Tick ==
    /\ now < MaxTime
    /\ now' = now + 1
    /\ ct' = Restrict(ct, {c \in DOMAIN ct : ct[c].expires >= now'})
    /\ UNCHANGED <<running, loop, mu, http, state>>

PodsChange(S) ==
    /\ running' = S
    /\ UNCHANGED <<now, ct, loop, mu, http, state>>

-----------------------------------------------------------------------------
(* c.mu. *)

Lock(p) == mu = "free" /\ mu' = p

Unlock == mu' = "free"

-----------------------------------------------------------------------------
(* collect, on the Start goroutine. *)

\* The pods collect tracks.
getNodePods ==
    {p \in running : PodIP[p] # "" /\ p \notin HostNetworkPods /\ p \notin ExcludedPods}

getPodIPs(pods) == {PodIP[p] : p \in pods}

\* The read ticker fires: collect reads the pods of the node.
CollectPods ==
    /\ pc = "idle"
    /\ pc' = "pods"
    /\ podIPs' = getPodIPs(getNodePods)
    /\ UNCHANGED <<kernel, conns, mu, http, state>>

\* conntracker.ListEntries(FilterBySrcIP(podIPs)), before the lock is taken.
ListEntries ==
    [c \in {x \in DOMAIN ct : SrcIP(x) \in podIPs} |->
        [bytes    |-> ct[c].bytes,
         lifetime |-> IF c \in Untimed THEN ZeroTime ELSE ct[c].expires]]

CollectList ==
    /\ pc = "pods"
    /\ pc' = "listed"
    /\ conns' = ListEntries
    /\ UNCHANGED <<kernel, podIPs, mu, http, state>>

\* ListEntries returns an error: collect returns early, the loop logs it and goes on.
CollectListFails ==
    /\ pc = "pods"
    /\ pc' = "idle"
    /\ podIPs' = {}
    /\ UNCHANGED <<kernel, conns, mu, http, state>>

CollectLock ==
    /\ pc = "listed"
    /\ Lock("collect")
    /\ pc' = "merging"
    /\ UNCHANGED <<kernel, podIPs, conns, http, state>>

\* Mutant: no baseline at all.
NoBaseline == FALSE

\* "In delta mode we need to have initial conntrack connections".
BaselineOnly == SendTrafficDelta /\ ~firstCollectDone

\* Mutant: the last entry of a group replaces the others.
Overwritten(g, delta, lifetime) == [bytes |-> delta, lifetime |-> lifetime]

\* The group's metric after an entry with these counters is added to it.
Merged(g, delta, lifetime) ==
    IF g \in DOMAIN podMetrics
    THEN [bytes    |-> podMetrics[g].bytes + delta,
          lifetime |-> Later(lifetime, podMetrics[g].lifetime)]
    ELSE [bytes |-> delta, lifetime |-> lifetime]

\* One iteration of the loop over conns, c.mu held.
MergeEntry(c) ==
    /\ pc = "merging"
    /\ c \in DOMAIN conns
    /\ entriesCache' = Put(entriesCache, conntrackEntryKey(c), conns[c])
    /\ podMetrics' =
         IF BaselineOnly
         THEN podMetrics
         ELSE Put(podMetrics, entryGroupKey(c),
                  Merged(entryGroupKey(c), Delta(c), conns[c].lifetime))
    /\ conns' = Restrict(conns, DOMAIN conns \ {c})
    /\ UNCHANGED <<kernel, pc, podIPs, mu, http, firstCollectDone>>

\* Mutant: collect returns with the mutex held.
DoneLocked ==
    /\ pc = "merging"
    /\ conns = EmptyMap
    /\ firstCollectDone' = TRUE
    /\ pc' = "idle"
    /\ podIPs' = {}
    /\ UNCHANGED <<kernel, mu, conns, http, entriesCache, podMetrics>>

\* The loop is over: firstCollectDone, and the deferred unlock.
CollectDone ==
    /\ pc = "merging"
    /\ conns = EmptyMap
    /\ firstCollectDone' = TRUE
    /\ Unlock
    /\ pc' = "idle"
    /\ podIPs' = {}
    /\ UNCHANGED <<kernel, conns, http, entriesCache, podMetrics>>

-----------------------------------------------------------------------------
(* cleanup, on the Start goroutine: the whole of it under c.mu. *)

\* now.After(lifetime).
Expired(r) == now > r.lifetime

Cleanup ==
    /\ pc = "idle"
    /\ mu = "free"
    /\ entriesCache' = Restrict(entriesCache, {k \in DOMAIN entriesCache : ~Expired(entriesCache[k])})
    /\ podMetrics' = Restrict(podMetrics, {g \in DOMAIN podMetrics : ~Expired(podMetrics[g])})
    /\ UNCHANGED <<kernel, loop, mu, http, firstCollectDone>>

\* <-ctx.Done(): the loop ends. The HTTP server may still be serving.
Stop ==
    /\ pc = "idle"
    /\ pc' = "stopped"
    /\ UNCHANGED <<kernel, podIPs, conns, mu, http, state>>

-----------------------------------------------------------------------------
(* GetRawNetworkMetricsHandler, on an HTTP goroutine; other requests wait   *)
(* for c.mu.                                                                *)

\* Lock and build the batch.
HandlerMarshal ==
    /\ hpc = "idle"
    /\ Lock("handler")
    /\ hpc' = "writing"
    /\ batch' = [g \in DOMAIN podMetrics |-> podMetrics[g].bytes]
    /\ UNCHANGED <<kernel, loop, state>>

\* Mutants: an early return without the unlock; a reset before the write.
FailsLocked ==
    /\ hpc = "writing"
    /\ hpc' = "idle"
    /\ batch' = EmptyMap
    /\ UNCHANGED <<kernel, mu, loop, state>>

FailsAfterReset ==
    /\ hpc = "writing"
    /\ hpc' = "idle"
    /\ batch' = EmptyMap
    /\ podMetrics' = [g \in DOMAIN podMetrics |-> [podMetrics[g] EXCEPT !.bytes = 0]]
    /\ Unlock
    /\ UNCHANGED <<kernel, loop, entriesCache, firstCollectDone>>

\* Marshalling or writing failed: return, nothing reset.
HandlerFails ==
    /\ hpc = "writing"
    /\ hpc' = "idle"
    /\ batch' = EmptyMap
    /\ Unlock
    /\ UNCHANGED <<kernel, loop, state>>

\* A metric once it was written: counters to zero, lifetime cut.
ResetMetric(m) ==
    [bytes |-> 0, lifetime |-> Earlier(m.lifetime, now + SentLifetime)]

\* Mutant: the reset in counter mode too.
WritesAndResets ==
    /\ hpc = "writing"
    /\ hpc' = "idle"
    /\ batch' = EmptyMap
    /\ podMetrics' = [g \in DOMAIN podMetrics |-> ResetMetric(podMetrics[g])]
    /\ Unlock
    /\ UNCHANGED <<kernel, loop, entriesCache, firstCollectDone>>

\* The write returned without an error; in delta mode the metrics are reset.
HandlerWrites ==
    /\ hpc = "writing"
    /\ hpc' = "idle"
    /\ batch' = EmptyMap
    /\ podMetrics' = IF SendTrafficDelta
                     THEN [g \in DOMAIN podMetrics |-> ResetMetric(podMetrics[g])]
                     ELSE podMetrics
    /\ Unlock
    /\ UNCHANGED <<kernel, loop, entriesCache, firstCollectDone>>

-----------------------------------------------------------------------------
\* The process dies and the DaemonSet starts it again: New, with empty maps.
Restart ==
    /\ pc' = "idle" /\ podIPs' = {} /\ conns' = EmptyMap
    /\ mu' = "free" /\ hpc' = "idle" /\ batch' = EmptyMap
    /\ entriesCache' = EmptyMap /\ podMetrics' = EmptyMap /\ firstCollectDone' = FALSE
    /\ UNCHANGED kernel

Environment ==
    \/ \E c \in Conns, t \in Timeouts : Packet(c, t)
    \/ \E c \in Conns : Destroy(c)
    \/ Tick
    \/ \E S \in SUBSET Pods : PodsChange(S)

CollectSteps ==
    \/ CollectPods \/ CollectList \/ CollectLock
    \/ \E c \in Conns : MergeEntry(c)
    \/ CollectDone

\* One life of the process.
Run ==
    \/ Environment
    \/ CollectSteps \/ CollectListFails \/ Cleanup \/ Stop
    \/ HandlerMarshal \/ HandlerFails \/ HandlerWrites

Next == Run \/ Restart

Spec == Init /\ [][Next]_vars

(***************************************************************************)
(* Fairness.  The Start goroutine keeps running and its ticker keeps       *)
(* firing.  CollectLock is strongly fair: Go's mutex hands itself to a     *)
(* waiter that has starved for 1ms.  CollectList is: a conntrack listing   *)
(* does not fail for ever.  A handler ends: its client, the exporter, has  *)
(* a fetch timeout, after which the write returns with an error.           *)
(***************************************************************************)
Fairness ==
    /\ WF_vars(CollectPods)
    /\ SF_vars(CollectList)
    /\ WF_vars(CollectListFails)
    /\ SF_vars(CollectLock)
    /\ WF_vars(\E c \in Conns : MergeEntry(c))
    /\ WF_vars(CollectDone)
    /\ WF_vars(HandlerFails \/ HandlerWrites)

-----------------------------------------------------------------------------
Entry  == [bytes : Nat, lifetime : Nat]
Metric == [bytes : Nat, lifetime : Nat]

(* Types: every map is keyed by what its Go map is keyed by, and no counter *)
(* wraps below zero, whatever the kernel's counters do ("random values for  *)
(* uint64" in collect's REP-243 note).                                      *)
TypeOK ==
    /\ now \in Nat
    /\ DOMAIN ct \subseteq Conns /\ \A c \in DOMAIN ct : ct[c] \in [bytes : Nat, expires : Nat]
    /\ running \subseteq Pods
    /\ pc \in {"idle", "pods", "listed", "merging", "stopped"}
    /\ DOMAIN conns \subseteq Conns /\ \A c \in DOMAIN conns : conns[c] \in Entry
    /\ mu \in {"free", "collect", "handler"}
    /\ hpc \in {"idle", "writing"}
    /\ DOMAIN batch \subseteq Groups /\ \A g \in DOMAIN batch : batch[g] \in Nat
    /\ DOMAIN entriesCache \subseteq Keys
    /\ \A k \in DOMAIN entriesCache : entriesCache[k] \in Entry
    /\ DOMAIN podMetrics \subseteq Groups
    /\ \A g \in DOMAIN podMetrics : podMetrics[g] \in Metric
    /\ firstCollectDone \in BOOLEAN

\* Whether the collector follows the tuple, and whether it is up to date on it.
Tracked(c) == c \in DOMAIN ct /\ SrcIP(c) \in getPodIPs(getNodePods)

CaughtUp(c) ==
    /\ c \in DOMAIN ct
    /\ conntrackEntryKey(c) \in DOMAIN entriesCache
    /\ entriesCache[conntrackEntryKey(c)].bytes = ct[c].bytes

(* collect gets through: requests to the handler, slow or failing ones      *)
(* included, do not keep the Start goroutine from merging what it listed.   *)
CollectCompletes == []<>(pc \notin {"listed", "merging"})

(* The traffic of a connection of a tracked pod is eventually seen by       *)
(* collect, unless the connection ends, the pod goes or the loop is         *)
(* stopped first.                                                           *)
EventuallySeen ==
    \A c \in Conns : []<>(Tracked(c) => CaughtUp(c) \/ pc = "stopped")
=============================================================================
