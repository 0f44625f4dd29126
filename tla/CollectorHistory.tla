--------------------------- MODULE CollectorHistory ---------------------------
(***************************************************************************)
(* The collector with history variables: what the kernel really carried,   *)
(* what collect made of it, and where the bytes of each group went.  Every *)
(* action is one of Collector with the bookkeeping conjoined; nothing here *)
(* restricts the collector except the two named bounds.                    *)
(***************************************************************************)
EXTENDS Collector

CONSTANTS
    MaxTraffic,     \* bound on the traffic of one tuple
    MaxRecount      \* bound on recounted

ASSUME HistoryAssumption == MaxTraffic \in Nat /\ MaxRecount \in Nat

VARIABLES
    traffic,    \* per tuple: bytes the kernel carried, over all its connections
    skipped,    \* per tuple: bytes that served only as a baseline (BaselineOnly)
    counted,    \* per tuple: bytes collect added to the tuple's group
    recounted,  \* per tuple: bytes of a live counter whose baseline was forgotten
    fresh,      \* tuples merged into their group since the group was last sent
    collected,  \* per group: bytes collect added to the group
    received,   \* per group: the total a client knows (delta: sum, counter: last value)
    lost        \* per group: bytes that left podMetrics and reached no client

perConn  == <<traffic, skipped, counted, recounted, fresh>>
perGroup == <<collected, received, lost>>
hvars    == <<vars, perConn, perGroup>>

-----------------------------------------------------------------------------
\* The kernel's counter of a tuple, and the cached baseline of it.
KernelBytes(c) == IF c \in DOMAIN ct THEN ct[c].bytes ELSE 0

CachedBytes(c) ==
    IF conntrackEntryKey(c) \in DOMAIN entriesCache
    THEN entriesCache[conntrackEntryKey(c)].bytes ELSE 0

\* Bytes of a group that wait to be sent.
Pending(g) == IF g \in DOMAIN podMetrics THEN podMetrics[g].bytes ELSE 0

-----------------------------------------------------------------------------
HInit ==
    /\ Init
    /\ traffic = [c \in Conns |-> 0] /\ skipped = [c \in Conns |-> 0]
    /\ counted = [c \in Conns |-> 0] /\ recounted = [c \in Conns |-> 0]
    /\ fresh = {}
    /\ collected = [g \in Groups |-> 0] /\ received = [g \in Groups |-> 0]
    /\ lost = [g \in Groups |-> 0]

HPacket(c, t) ==
    /\ traffic[c] < MaxTraffic
    /\ Packet(c, t)
    /\ traffic' = [traffic EXCEPT ![c] = @ + 1]
    /\ UNCHANGED <<skipped, counted, recounted, fresh, perGroup>>

\* Actions that move no byte between ledgers.
HQuiet ==
    /\ \/ \E c \in Conns : Destroy(c)
       \/ Tick
       \/ \E S \in SUBSET Pods : PodsChange(S)
       \/ CollectPods \/ CollectList \/ CollectListFails \/ CollectLock \/ CollectDone
       \/ Stop
       \/ HandlerMarshal \/ HandlerFails
    /\ UNCHANGED <<perConn, perGroup>>

\* What MergeEntry(c) is seen to add to the group of c.
Added(c) == Pending(entryGroupKey(c))' - Pending(entryGroupKey(c))

HMergeEntry(c) ==
    /\ MergeEntry(c)
    /\ counted' = [counted EXCEPT ![c] = @ + Added(c)]
    /\ collected' = [collected EXCEPT ![entryGroupKey(c)] = @ + Added(c)]
    /\ IF SendTrafficDelta /\ ~firstCollectDone
       THEN /\ skipped' = [skipped EXCEPT ![c] = @ + ClampedDelta(conns[c].bytes, CachedBytes(c))]
            /\ UNCHANGED fresh
       ELSE /\ fresh' = fresh \cup {c}
            /\ UNCHANGED skipped
    /\ UNCHANGED <<traffic, recounted, received, lost>>

\* Bytes of c a new baseline would count again, when its cached entry goes.
Forgotten(c) ==
    IF conntrackEntryKey(c) \in DOMAIN entriesCache'
    THEN 0 ELSE Earlier(CachedBytes(c), KernelBytes(c))

\* Baselines and metrics disappear: what that means for the ledgers.
Forget ==
    /\ recounted' = [c \in Conns |-> recounted[c] + Forgotten(c)]
    /\ \A c \in Conns : recounted'[c] <= MaxRecount
    /\ fresh' = {c \in fresh : conntrackEntryKey(c) \in DOMAIN entriesCache'}
    /\ lost' = [g \in Groups |-> lost[g] + (Pending(g) - Pending(g)')]
    /\ UNCHANGED <<traffic, skipped, counted, collected, received>>

HCleanup == Cleanup /\ Forget

HRestart == Restart /\ Forget

\* The client got the body.
HDelivered ==
    /\ HandlerWrites
    /\ received' = [g \in Groups |->
                       IF g \notin DOMAIN batch THEN received[g]
                       ELSE IF SendTrafficDelta THEN received[g] + batch[g] ELSE batch[g]]
    /\ fresh' = IF SendTrafficDelta THEN {} ELSE fresh
    /\ UNCHANGED <<traffic, skipped, counted, recounted, collected, lost>>

\* The write went into a buffer (or the gzip writer's Close failed, whose
\* error is dropped) and the client never got the body.
HNotDelivered ==
    /\ HandlerWrites
    /\ lost' = IF SendTrafficDelta
               THEN [g \in Groups |-> lost[g] + (IF g \in DOMAIN batch THEN batch[g] ELSE 0)]
               ELSE lost
    /\ fresh' = IF SendTrafficDelta THEN {} ELSE fresh
    /\ UNCHANGED <<traffic, skipped, counted, recounted, collected, received>>

HRun ==
    \/ \E c \in Conns, t \in Timeouts : HPacket(c, t)
    \/ HQuiet
    \/ \E c \in Conns : HMergeEntry(c)
    \/ HCleanup
    \/ HDelivered \/ HNotDelivered

HNext == HRun \/ HRestart

HSpec == HInit /\ [][HNext]_hvars

\* One life of the process.
HSpecRun == HInit /\ [][HRun]_hvars

HFairSpec == HSpecRun /\ Fairness

-----------------------------------------------------------------------------
(* The strengthenings the properties below rest on. *)

HTypeOK ==
    /\ traffic \in [Conns -> Nat] /\ skipped \in [Conns -> Nat]
    /\ counted \in [Conns -> Nat] /\ recounted \in [Conns -> Nat]
    /\ fresh \subseteq Conns
    /\ collected \in [Groups -> Nat] /\ received \in [Groups -> Nat] /\ lost \in [Groups -> Nat]

\* c.mu is held by the goroutine that is between Lock and Unlock, and a
\* listing waits only between ListEntries and the end of the loop.
LockInv ==
    /\ mu = "collect" <=> pc = "merging"
    /\ mu = "handler" <=> hpc = "writing"
    /\ DOMAIN conns # {} => pc \in {"listed", "merging"}

\* Under the lock, the batch being written is what podMetrics holds.
BatchInv ==
    hpc = "writing" =>
        /\ DOMAIN batch = DOMAIN podMetrics
        /\ \A g \in DOMAIN batch : batch[g] = podMetrics[g].bytes

\* Bytes of a tuple that are settled, and those that may ever be.
Settled(c) == counted[c] + skipped[c]

Due(c) == traffic[c] + recounted[c]

\* With n bytes settled of t due, a counter at k over a baseline b may be counted.
Covered(n, t, k, b) == n + ClampedDelta(k, b) <= t

\* What is still to be counted of a live counter is covered by its traffic:
\* seen from the cache, and from a listing that waits to be merged.
Ahead(c) ==
    /\ Covered(Settled(c), Due(c), KernelBytes(c), CachedBytes(c))
    /\ c \in DOMAIN conns =>
         Covered(Settled(c) + ClampedDelta(conns[c].bytes, CachedBytes(c)), Due(c),
                 KernelBytes(c), conns[c].bytes)

AheadInv == \A c \in Conns : Ahead(c)

\* On a first life, cache, listing and kernel are three readings of a growing counter.
FirstLife(c) ==
    /\ KernelBytes(c) <= traffic[c]
    /\ traffic[c] = KernelBytes(c) =>
         /\ CachedBytes(c) <= KernelBytes(c)
         /\ c \in DOMAIN conns =>
              CachedBytes(c) <= conns[c].bytes /\ conns[c].bytes <= KernelBytes(c)

FirstLifeInv == \A c \in Conns : FirstLife(c)

\* Before the first collect is done, delta mode has merged nothing.
FreshInv == SendTrafficDelta /\ ~firstCollectDone => fresh = {}

\* Bytes of a group that are on show, were received or are lost.
Shown(g) == Pending(g) + lost[g] + (IF SendTrafficDelta THEN received[g] ELSE 0)

\* They are what collect added to the group.
Conservation == \A g \in Groups : collected[g] = Shown(g)

-----------------------------------------------------------------------------
(* No byte is counted twice.  Whatever the kernel, the ticks and the       *)
(* requests do, collect never adds more to a group for a tuple than the    *)
(* tuple carried beyond its baseline, except what it counts again because  *)
(* cleanup or a restart forgot the baseline of a connection still alive.   *)
NoOvercount ==
    \A c \in Conns : Settled(c) <= Due(c)

(* No byte is missed either, on a connection that has lived once: all that *)
(* the last listing saw of it has been counted, or was its baseline.       *)
\* (traffic[c] = KernelBytes(c) says the kernel never dropped the entry.)
ExactOnFirstLife ==
    \A c \in Conns :
        traffic[c] = KernelBytes(c) =>
            Settled(c) = CachedBytes(c) + recounted[c]

(* The books balance: what a group shows, with what was sent of it or lost  *)
(* with a response, an expired metric or the process, is the sum over its   *)
(* connections of what the kernel's counter was when collect last listed    *)
(* it, what was counted again after cleanup or a restart forgot it, less    *)
(* what was only its baseline.  No connection is mixed with another of its  *)
(* group, and no step between ListEntries and the response loses a byte.    *)
BooksBalance ==
    \A g \in Groups :
        LET members == {c \in Conns : entryGroupKey(c) = g}
        IN  (\A c \in members : traffic[c] = KernelBytes(c)) =>
                Shown(g) = SumFunctionOnSet(
                               [c \in members |-> CachedBytes(c) + recounted[c] - skipped[c]], members)

(* In delta mode the collector implements TrafficLedger: each of its steps  *)
(* moves bytes as one step of the ledger does, or moves none.              *)
Ledger == INSTANCE TrafficLedger WITH pending <- [g \in Groups |-> Pending(g)]

ImplementsLedger == Ledger!Spec

(* cleanup throws a metric away only with every connection that fed it     *)
(* since it was last sent: a metric lives at least as long as those.       *)
MetricOutlivesEntries ==
    \A c \in fresh :
        LET k == conntrackEntryKey(c)
            g == entryGroupKey(c)
        IN  k \in DOMAIN entriesCache =>
                /\ g \in DOMAIN podMetrics
                /\ podMetrics[g].lifetime >= entriesCache[k].lifetime

(* Config.SendTrafficDelta: without it a client is sent "the constantly    *)
(* growing counter value".  It is, for as long as cleanup or a restart has *)
(* not dropped bytes of the group: no listing that fails, merge, response  *)
(* or failed response makes a later response show a smaller value.         *)
GrowsUntilDropped ==
    [][\A g \in Groups : lost'[g] = 0 => received'[g] >= received[g]]_hvars

(* Config.SendTrafficDelta: "traffic should be sent as delta of 2          *)
(* consecutive conntrack entries": a byte of a connection is counted once. *)
OnlyDeltas == \A c \in Conns : Settled(c) <= traffic[c]
=============================================================================
