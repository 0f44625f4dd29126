--------------------------- MODULE CollectorProofs ---------------------------
(***************************************************************************)
(* Theorems about the collector, for every set of connections and pods and *)
(* every configuration.                                                    *)
(***************************************************************************)
EXTENDS CollectorStepProofs

-----------------------------------------------------------------------------
(* Lifetimes. *)

LifetimeInv == FreshInv /\ MetricOutlivesEntries

(* A merged entry's group lives at least as long as the entry, and no      *)
(* merge shortens the life of a metric.                                    *)
LEMMA MergeLifetime ==
    ASSUME TypeOK, HTypeOK, LifetimeInv, NEW c \in Conns, HMergeEntry(c)
    PROVE  LifetimeInv'
<1>1. MergeEntry(c) /\ firstCollectDone' = firstCollectDone
  BY Zenon DEF HMergeEntry, MergeEntry
<1>2. CASE SendTrafficDelta /\ ~firstCollectDone
  BY <1>1, <1>2, Zenon DEF LifetimeInv, FreshInv, MetricOutlivesEntries, HMergeEntry
<1>3. CASE ~(SendTrafficDelta /\ ~firstCollectDone)
  <2> DEFINE g == entryGroupKey(c)
             m == Merged(g, Delta(c), conns[c].lifetime)
  <2>1. fresh' = fresh \cup {c}
    BY <1>3, Zenon DEF HMergeEntry
  <2>2. podMetrics' = Put(podMetrics, g, m) /\ entriesCache' = Put(entriesCache, c, conns[c])
    BY <1>1, <1>3, KeyIsTuple, Zenon DEF MergeEntry, BaselineOnly
  <2>3. conns[c].lifetime \in Nat /\ \A h \in DOMAIN podMetrics : podMetrics[h].lifetime \in Nat
    BY <1>1, Zenon DEF MergeEntry, TypeOK, Entry, Metric
  <2>4. m.lifetime \in Nat /\ m.lifetime >= conns[c].lifetime
        /\ (g \in DOMAIN podMetrics => m.lifetime >= podMetrics[g].lifetime)
    <3>1. CASE g \in DOMAIN podMetrics
      <4>1. m.lifetime = Later(conns[c].lifetime, podMetrics[g].lifetime)
        BY <3>1, Zenon DEF Merged
      <4> HIDE DEF m
      <4> QED
        BY <4>1, <3>1, <2>3 DEF Later
    <3>2. CASE g \notin DOMAIN podMetrics
      <4>1. m.lifetime = conns[c].lifetime
        BY <3>2, Zenon DEF Merged
      <4> HIDE DEF m
      <4> QED
        BY <4>1, <3>2, <2>3
    <3> QED
      BY <3>1, <3>2, Zenon
  <2> HIDE DEF m
  <2>5. /\ DOMAIN podMetrics' = DOMAIN podMetrics \cup {g} /\ podMetrics'[g] = m
        /\ \A h \in DOMAIN podMetrics : h # g => podMetrics'[h] = podMetrics[h]
    BY <2>2, Zenon DEF Put
  <2>6. /\ DOMAIN entriesCache' = DOMAIN entriesCache \cup {c} /\ entriesCache'[c] = conns[c]
        /\ \A d \in DOMAIN entriesCache : d # c => entriesCache'[d] = entriesCache[d]
    BY <2>2, Zenon DEF Put
  <2> HIDE DEF g
  <2>7. ASSUME NEW d \in fresh', d \in DOMAIN entriesCache'
        PROVE  /\ entryGroupKey(d) \in DOMAIN podMetrics'
               /\ podMetrics'[entryGroupKey(d)].lifetime >= entriesCache'[d].lifetime
    <3>1. CASE d = c
      BY <3>1, <2>4, <2>5, <2>6, Zenon DEF g
    <3>2. CASE d # c
      <4>1. d \in Conns /\ d \in fresh /\ d \in DOMAIN entriesCache /\ entriesCache'[d] = entriesCache[d]
        BY <3>2, <2>1, <2>6, <2>7, Zenon DEF HTypeOK
      <4>2. entryGroupKey(d) \in DOMAIN podMetrics
            /\ podMetrics[entryGroupKey(d)].lifetime >= entriesCache[d].lifetime
        BY <4>1, KeyIsTuple, Zenon DEF LifetimeInv, MetricOutlivesEntries
      <4>3. entriesCache[d].lifetime \in Nat
        BY <4>1, Zenon DEF TypeOK, Entry
      <4>4. CASE entryGroupKey(d) = g
        BY <4>1, <4>2, <4>3, <4>4, <2>3, <2>4, <2>5
      <4>5. CASE entryGroupKey(d) # g
        BY <4>1, <4>2, <4>5, <2>5, Zenon
      <4> QED
        BY <4>4, <4>5, Zenon
    <3> QED
      BY <3>1, <3>2, Zenon
  <2>8. \A d \in fresh' : conntrackEntryKey(d) = d
    BY <2>1, KeyIsTuple, Zenon DEF HTypeOK
  <2>9. MetricOutlivesEntries'
    BY <2>7, <2>8, Zenon DEF MetricOutlivesEntries, conntrackEntryKey, entryGroupKey, GroupDst
  <2>10. FreshInv'
    BY <1>1, <1>3, Zenon DEF FreshInv
  <2> QED
    BY <2>9, <2>10, Zenon DEF LifetimeInv
<1> QED
  BY <1>2, <1>3, Zenon

(* cleanup keeps the metric of every entry it keeps. *)
LEMMA CleanupLifetime ==
    ASSUME TypeOK, HTypeOK, LifetimeInv, HCleanup
    PROVE  LifetimeInv'
<1>1. Cleanup /\ fresh' = {c \in fresh : conntrackEntryKey(c) \in DOMAIN entriesCache'}
  BY Zenon DEF HCleanup, Forget
<1>2. /\ DOMAIN entriesCache' = {k \in DOMAIN entriesCache : ~Expired(entriesCache[k])}
      /\ \A k \in DOMAIN entriesCache' : entriesCache'[k] = entriesCache[k]
      /\ DOMAIN podMetrics' = {g \in DOMAIN podMetrics : ~Expired(podMetrics[g])}
      /\ \A g \in DOMAIN podMetrics' : podMetrics'[g] = podMetrics[g]
  BY <1>1, Zenon DEF Cleanup, Restrict
<1>3. ASSUME NEW c \in fresh', NEW k, k = conntrackEntryKey(c), k \in DOMAIN entriesCache',
             NEW g, g = entryGroupKey(c)
      PROVE  g \in DOMAIN podMetrics' /\ podMetrics'[g].lifetime >= entriesCache'[k].lifetime
  <2>1. c \in fresh /\ k \in DOMAIN entriesCache /\ ~(now > entriesCache[k].lifetime)
    BY <1>1, <1>2, <1>3, Zenon DEF Expired
  <2>2. g \in DOMAIN podMetrics /\ podMetrics[g].lifetime >= entriesCache[k].lifetime
    BY <1>3, <2>1, Zenon DEF LifetimeInv, MetricOutlivesEntries
  <2>3. now \in Nat /\ podMetrics[g].lifetime \in Nat /\ entriesCache[k].lifetime \in Nat
    BY <2>1, <2>2, Zenon DEF TypeOK, Entry, Metric
  <2>4. ~(now > podMetrics[g].lifetime)
    BY <2>1, <2>2, <2>3
  <2> QED
    BY <1>2, <1>3, <2>2, <2>4, Zenon DEF Expired
<1>4. MetricOutlivesEntries'
  BY <1>3, Zenon DEF MetricOutlivesEntries, conntrackEntryKey, entryGroupKey, GroupDst
<1>5. FreshInv'
  BY <1>1, Zenon DEF LifetimeInv, FreshInv, Cleanup
<1> QED
  BY <1>4, <1>5, Zenon DEF LifetimeInv

(* The other steps leave both maps alone or empty the set of fresh tuples. *)
LEMMA OtherLifetime ==
    ASSUME TypeOK, HTypeOK, LifetimeInv,
           \/ \E c \in Conns, t \in Timeouts : HPacket(c, t)
           \/ HQuiet \/ HRestart \/ HDelivered \/ HNotDelivered
           \/ UNCHANGED hvars
    PROVE  LifetimeInv'
<1>1. fresh' = {} => LifetimeInv'
  BY Zenon DEF LifetimeInv, FreshInv, MetricOutlivesEntries
<1>2. /\ entriesCache' = entriesCache /\ podMetrics' = podMetrics /\ fresh' = fresh
      /\ (firstCollectDone' = firstCollectDone \/ firstCollectDone' = TRUE)
      => LifetimeInv'
  <2> SUFFICES ASSUME entriesCache' = entriesCache, podMetrics' = podMetrics, fresh' = fresh,
                      firstCollectDone' = firstCollectDone \/ firstCollectDone' = TRUE
               PROVE  LifetimeInv'
    BY Zenon
  <2>1. FreshInv'
    BY Zenon DEF LifetimeInv, FreshInv
  <2>2. MetricOutlivesEntries'
    BY Zenon DEF LifetimeInv, MetricOutlivesEntries
  <2> QED
    BY <2>1, <2>2, Zenon DEF LifetimeInv
<1>3. ASSUME NEW c \in Conns, NEW t \in Timeouts, HPacket(c, t) PROVE LifetimeInv'
  BY <1>3, <1>2, Zenon DEF HPacket, Packet, state
<1>4. CASE HQuiet
  <2>1. firstCollectDone' = firstCollectDone \/ firstCollectDone' = TRUE
    BY <1>4, Zenon DEF HQuiet, Destroy, Tick, PodsChange, CollectPods, CollectList, CollectListFails,
                CollectLock, CollectDone, Stop, HandlerMarshal, HandlerFails, state
  <2> QED
    BY <1>4, <1>2, <2>1, QuietFacts, Zenon DEF HQuiet, perConn
<1>5. CASE HRestart
  BY <1>5, <1>1, EmptyMapFacts, Zenon DEF HRestart, Restart, Forget
<1>6. CASE HDelivered \/ HNotDelivered
  BY <1>6, <1>1, <1>2, Zenon DEF HDelivered, HNotDelivered, HandlerWrites
<1>7. CASE UNCHANGED hvars
  BY <1>7, <1>2, Zenon DEF hvars, vars, state, perConn
<1> QED
  BY <1>3, <1>4, <1>5, <1>6, <1>7, Zenon

-----------------------------------------------------------------------------
(* The inductive invariant. *)

IInv ==
    /\ TypeOK /\ HTypeOK /\ LockInv /\ BatchInv
    /\ AheadInv /\ FirstLifeInv /\ ExactOnFirstLife
    /\ Conservation
    /\ FreshInv /\ MetricOutlivesEntries

(* A collector that has just started satisfies it. *)
LEMMA InvInit == HInit => IInv
<1> SUFFICES ASSUME HInit PROVE IInv
  OBVIOUS
<1>1. TypeOK
  <2>1. now \in Nat /\ running \subseteq Pods /\ firstCollectDone \in BOOLEAN
    BY Zenon DEF HInit, Init
  <2> QED
    BY <2>1, EmptyMapFacts, Zenon DEF HInit, Init, TypeOK
<1>2. HTypeOK
  BY Zenon DEF HInit, HTypeOK
<1>3. /\ \A c \in Conns : KernelBytes(c) = 0 /\ CachedBytes(c) = 0
      /\ \A g \in Groups : Pending(g) = 0
  BY EmptyMapFacts, Zenon DEF HInit, Init, KernelBytes, CachedBytes, Pending
<1>4. LockInv /\ BatchInv
  BY EmptyMapFacts, Zenon DEF HInit, Init, LockInv, BatchInv
<1>5. AheadInv /\ FirstLifeInv /\ ExactOnFirstLife
  <2>1. \A c \in Conns : traffic[c] = 0 /\ skipped[c] = 0 /\ counted[c] = 0 /\ recounted[c] = 0
    BY Zenon DEF HInit
  <2>2. \A c \in Conns : c \notin DOMAIN conns
    BY EmptyMapFacts, Zenon DEF HInit, Init
  <2>3. AheadInv
    BY <2>1, <2>2, <1>3 DEF AheadInv, Ahead, Settled, Due, Covered, ClampedDelta
  <2>4. FirstLifeInv
    BY <2>1, <2>2, <1>3 DEF FirstLifeInv, FirstLife
  <2>5. ExactOnFirstLife
    <3>1. \A c \in Conns : Settled(c) = 0
      BY <2>1 DEF Settled
    <3> QED
      BY <2>1, <3>1, <1>3 DEF ExactOnFirstLife
  <2> QED
    BY <2>3, <2>4, <2>5, Zenon
<1>6. Conservation
  BY <1>3 DEF HInit, Conservation, Shown
<1>7. FreshInv /\ MetricOutlivesEntries
  BY Zenon DEF HInit, FreshInv, MetricOutlivesEntries
<1> QED
  BY <1>1, <1>2, <1>4, <1>5, <1>6, <1>7, Zenon DEF IInv

(* Every step of the collector and its environment keeps it. *)
LEMMA InvStep == IInv /\ [HNext]_hvars => IInv'
<1> SUFFICES ASSUME IInv, [HNext]_hvars PROVE IInv'
  OBVIOUS
<1>1. TypeOK' /\ LockInv' /\ BatchInv'
  BY HistoryStep, TypeStep, LockStep, BatchStep, Zenon DEF IInv
<1>2. TypeOK /\ HTypeOK /\ LockInv /\ BatchInv /\ LedgerInv /\ LifetimeInv
  BY Zenon DEF IInv, LedgerInv, LifetimeInv
<1>3. ASSUME NEW c \in Conns, NEW t \in Timeouts, HPacket(c, t) PROVE LedgerInv' /\ LifetimeInv'
  BY <1>2, <1>3, PacketLedger, OtherLifetime, Zenon
<1>4. ASSUME HQuiet PROVE LedgerInv' /\ LifetimeInv'
  BY <1>1, <1>2, <1>4, QuietLedger, OtherLifetime, Zenon
<1>5. ASSUME NEW c \in Conns, HMergeEntry(c) PROVE LedgerInv' /\ LifetimeInv'
  BY <1>2, <1>5, MergeLedger, MergeLifetime, Zenon
<1>6. ASSUME HCleanup PROVE LedgerInv' /\ LifetimeInv'
  BY <1>1, <1>2, <1>6, ForgetLedger, CleanupLifetime, Zenon
<1>7. ASSUME HRestart PROVE LedgerInv' /\ LifetimeInv'
  BY <1>1, <1>2, <1>7, ForgetLedger, OtherLifetime, Zenon
<1>8. ASSUME HDelivered \/ HNotDelivered PROVE LedgerInv' /\ LifetimeInv'
  BY <1>2, <1>8, WriteLedger, OtherLifetime, Zenon
<1>9. ASSUME UNCHANGED hvars PROVE LedgerInv' /\ LifetimeInv'
  <2>1. LedgerInv'
    BY <1>2, <1>9, Zenon
       DEF hvars, vars, kernel, loop, http, state, perConn, perGroup, LedgerInv, HTypeOK,
       AheadInv, Ahead, Settled, Due, FirstLifeInv, FirstLife, ExactOnFirstLife, Conservation, Shown, KernelBytes, CachedBytes, Pending
  <2> QED
    BY <2>1, <1>2, <1>9, OtherLifetime, Zenon
<1>10. LedgerInv' /\ LifetimeInv'
  BY <1>3, <1>4, <1>5, <1>6, <1>7, <1>8, <1>9, Zenon DEF HNext, HRun
<1> QED
  BY <1>1, <1>10, Zenon DEF IInv, LedgerInv, LifetimeInv

(* The invariant holds in every reachable state. *)
THEOREM Invariance == HSpec => []IInv
BY InvInit, InvStep, PTL DEF HSpec

-----------------------------------------------------------------------------
(* What follows from it. *)

(* collect never counts a byte twice, but for baselines that cleanup or a  *)
(* restart forgot: for any connections, timeouts, interleaving of kernel,  *)
(* listing, merge, requests, cleanup and restarts, in both modes.          *)
THEOREM NeverOvercounts == HSpec => []NoOvercount
<1>1. IInv => NoOvercount
  <2> SUFFICES ASSUME IInv, NEW c \in Conns PROVE Settled(c) <= Due(c)
    BY Zenon DEF NoOvercount
  <2>1. Covered(Settled(c), Due(c), KernelBytes(c), CachedBytes(c))
    BY Zenon DEF IInv, AheadInv, Ahead
  <2>2. /\ Settled(c) \in Nat /\ Due(c) \in Nat
        /\ KernelBytes(c) \in Nat /\ CachedBytes(c) \in Nat
    <3>1. TypeOK /\ HTypeOK
      BY Zenon DEF IInv
    <3> QED
      BY <3>1, Numbers, Zenon
  <2> QED
    BY <2>1, <2>2, CoveredFacts, Zenon
<1> QED
  BY <1>1, Invariance, PTL

(* On a connection that has lived once, collect has counted exactly what   *)
(* its last listing saw, baselines and recounts included.                  *)
THEOREM ExactAccounting == HSpec => []ExactOnFirstLife
<1>1. IInv => ExactOnFirstLife
  BY Zenon DEF IInv
<1> QED
  BY <1>1, Invariance, PTL

(* What an entry adds is a number of bytes. *)
LEMMA AddedNat ==
    ASSUME TypeOK, NEW c \in Conns, MergeEntry(c)
    PROVE  Added(c) \in Nat
<1>1. conns[c].bytes \in Nat /\ CachedBytes(c) \in Nat
  BY ReadingsType, Zenon DEF MergeEntry
<1>2. Added(c) = IF SendTrafficDelta /\ ~firstCollectDone THEN 0
                ELSE ClampedDelta(conns[c].bytes, CachedBytes(c))
  BY MergeFacts, Zenon
<1> QED
  BY <1>1, <1>2 DEF ClampedDelta

\* The connections of a group, when they are one or two.
Alone(g, c) == \A x \in Conns : entryGroupKey(x) = g <=> x = c

Pair(g, c, d) == c # d /\ \A x \in Conns : entryGroupKey(x) = g <=> x \in {c, d}

\* A group's bytes are those counted for its connections.
CountedInv ==
    \A g \in Groups : \A c, d \in Conns :
        /\ Alone(g, c) => collected[g] = counted[c]
        /\ Pair(g, c, d) => collected[g] = counted[c] + counted[d]

LEMMA CountedStep == IInv /\ CountedInv /\ [HNext]_hvars => CountedInv'
<1> SUFFICES ASSUME IInv, CountedInv, [HNext]_hvars PROVE CountedInv'
  OBVIOUS
<1>1. CASE collected' = collected /\ counted' = counted
  BY <1>1, Zenon DEF CountedInv
<1>2. ASSUME NEW e \in Conns, HMergeEntry(e) PROVE CountedInv'
  <2>1. PICK k, a : k = entryGroupKey(e) /\ a = Added(e)
    OBVIOUS
  <2>2. k \in Groups /\ a \in Nat /\ counted \in [Conns -> Nat] /\ collected \in [Groups -> Nat]
    BY <1>2, <2>1, GroupOfConn, AddedNat, Zenon DEF HMergeEntry, IInv, HTypeOK
  <2>3. counted' = [counted EXCEPT ![e] = @ + a] /\ collected' = [collected EXCEPT ![k] = @ + a]
    BY <1>2, <2>1, Zenon DEF HMergeEntry
  <2>4. ASSUME NEW g \in Groups, NEW c \in Conns, Alone(g, c) PROVE collected'[g] = counted'[c]
    <3>1. g = k <=> c = e
      BY <2>1, <2>4, Zenon DEF Alone
    <3>2. collected[g] = counted[c]
      BY <2>4, Zenon DEF CountedInv
    <3> QED
      BY <2>2, <2>3, <3>1, <3>2
  <2>5. ASSUME NEW g \in Groups, NEW c \in Conns, NEW d \in Conns, Pair(g, c, d)
        PROVE  collected'[g] = counted'[c] + counted'[d]
    <3>1. c # d /\ (g = k <=> e \in {c, d})
      BY <2>1, <2>5, Zenon DEF Pair
    <3>2. collected[g] = counted[c] + counted[d]
      BY <2>5, Zenon DEF CountedInv
    <3> QED
      BY <2>2, <2>3, <3>1, <3>2
  <2>6. ASSUME NEW g \in Groups, NEW c \in Conns, NEW d \in Conns
        PROVE  /\ Alone(g, c) => collected'[g] = counted'[c]
               /\ Pair(g, c, d) => collected'[g] = counted'[c] + counted'[d]
    <3>1. Alone(g, c) => collected'[g] = counted'[c]
      BY <2>4, Zenon
    <3>2. Pair(g, c, d) => collected'[g] = counted'[c] + counted'[d]
      BY <2>5, Zenon
    <3> QED
      BY <3>1, <3>2, Zenon
  <2> QED
    BY <2>6, ZenonT(30) DEF CountedInv
<1> QED
  BY <1>1, <1>2, Zenon DEF HNext, HRun, HPacket, HQuiet, HCleanup, HRestart, Forget, HDelivered,
     HNotDelivered, hvars, perConn, perGroup

\* What the books say of a connection: its counter at the last listing and what was
\* counted again, less its baseline.
Booked(c) == CachedBytes(c) + recounted[c] - skipped[c]

(* BooksBalance for a group of one or two connections, whatever else the    *)
(* node has: what a client was shown or sent, or what was lost, is what the *)
(* kernel's counters were at the last listing, and what was counted again   *)
(* after cleanup or a restart, less the baselines.                          *)
SmallBooksBalance ==
    \A g \in Groups : \A c, d \in Conns :
        /\ Alone(g, c) /\ traffic[c] = KernelBytes(c) => Shown(g) = Booked(c)
        /\ Pair(g, c, d) /\ traffic[c] = KernelBytes(c) /\ traffic[d] = KernelBytes(d) =>
               Shown(g) = Booked(c) + Booked(d)

(* In both modes, for any connections of the node and any interleaving of   *)
(* kernel, listing, merge, requests, cleanup and restarts, the books of a   *)
(* group of one or two connections balance.                                 *)
THEOREM GroupsBalance == HSpec => []SmallBooksBalance
<1>1. HInit => CountedInv
  <2> SUFFICES ASSUME HInit, NEW g \in Groups, NEW c \in Conns, NEW d \in Conns
               PROVE  collected[g] = 0 /\ counted[c] = 0 /\ counted[d] = 0
    BY DEF CountedInv
  <2> QED
    BY Zenon DEF HInit
<1>2. IInv /\ CountedInv => SmallBooksBalance
  <2> SUFFICES ASSUME IInv, CountedInv, NEW g \in Groups, NEW c \in Conns, NEW d \in Conns
               PROVE  /\ Alone(g, c) /\ traffic[c] = KernelBytes(c) => Shown(g) = Booked(c)
                      /\ Pair(g, c, d) /\ traffic[c] = KernelBytes(c) /\ traffic[d] = KernelBytes(d) =>
                             Shown(g) = Booked(c) + Booked(d)
    BY Zenon DEF SmallBooksBalance
  <2>1. ASSUME NEW x \in Conns, traffic[x] = KernelBytes(x)
        PROVE  counted[x] \in Nat /\ Booked(x) = counted[x]
    <3>1. counted[x] + skipped[x] = CachedBytes(x) + recounted[x]
      BY <2>1, Zenon DEF IInv, ExactOnFirstLife, Settled
    <3>2. CachedBytes(x) \in Nat /\ recounted[x] \in Nat /\ counted[x] \in Nat /\ skipped[x] \in Nat
      BY ReadingsType, Zenon DEF IInv, HTypeOK
    <3> QED
      BY <3>1, <3>2 DEF Booked
  <2>2. Shown(g) = collected[g]
    BY Zenon DEF IInv, Conservation
  <2>3. ASSUME Alone(g, c), traffic[c] = KernelBytes(c) PROVE Shown(g) = Booked(c)
    <3>1. collected[g] = counted[c]
      BY <2>3, Zenon DEF CountedInv
    <3>2. Booked(c) = counted[c]
      BY <2>1, <2>3, Zenon
    <3> QED
      BY <2>2, <3>1, <3>2, Zenon
  <2>4. ASSUME Pair(g, c, d), traffic[c] = KernelBytes(c), traffic[d] = KernelBytes(d)
        PROVE  Shown(g) = Booked(c) + Booked(d)
    <3>1. collected[g] = counted[c] + counted[d]
      BY <2>4, Zenon DEF CountedInv
    <3>2. Booked(c) = counted[c] /\ Booked(d) = counted[d]
      BY <2>1, <2>4, Zenon
    <3> QED
      BY <2>2, <3>1, <3>2, Zenon
  <2> QED
    BY <2>3, <2>4, Zenon
<1> QED
  BY <1>1, <1>2, CountedStep, InvInit, InvStep, PTL DEF HSpec

(* cleanup drops a metric only together with every connection that fed it  *)
(* since it was last sent.                                                 *)
THEOREM MetricsLastLongEnough == HSpec => []MetricOutlivesEntries
<1>1. IInv => MetricOutlivesEntries
  BY Zenon DEF IInv
<1> QED
  BY <1>1, Invariance, PTL

-----------------------------------------------------------------------------
(* In delta mode the collector implements TrafficLedger. *)

PendingMap == [g \in Groups |-> Pending(g)]

(* A merged entry is a Collect step of the ledger. *)
LEMMA MergeRefines ==
    ASSUME IInv, NEW c \in Conns, HMergeEntry(c)
    PROVE  Ledger!Collect(entryGroupKey(c))
<1> DEFINE g == entryGroupKey(c)
<1>1. TypeOK /\ HTypeOK /\ MergeEntry(c) /\ g \in Groups
  BY GroupOfConn, Zenon DEF IInv, HMergeEntry
<1>2. Pending(g)' = Pending(g) + Added(c) /\ \A h \in Groups \ {g} : Pending(h)' = Pending(h)
  BY <1>1, MergeFacts, Zenon
<1>3. Added(c) \in Nat
  BY <1>1, AddedNat, Zenon
<1>4. collected' = [collected EXCEPT ![g] = @ + Added(c)] /\ UNCHANGED <<received, lost>>
  BY Zenon DEF HMergeEntry
<1>5. collected \in [Groups -> Nat]
  BY <1>1, Zenon DEF HTypeOK
<1> HIDE DEF g
<1>6. collected'[g] = collected[g] + Added(c) /\ collected[g] \in Nat
  BY <1>1, <1>4, <1>5, Zenon
<1>7. collected' = [collected EXCEPT ![g] = collected'[g]] /\ collected'[g] >= collected[g]
  BY <1>1, <1>3, <1>4, <1>5, <1>6
<1>8. PendingMap' = [PendingMap EXCEPT ![g] = @ + (collected'[g] - collected[g])]
  <2>1. collected'[g] - collected[g] = Added(c)
    BY <1>3, <1>6
  <2> QED
    BY <2>1, <1>1, <1>2, Zenon DEF PendingMap
<1> QED
  BY <1>4, <1>7, <1>8, Zenon DEF Ledger!Collect, PendingMap, g

(* cleanup and a restart are a Lose step of the groups whose metric goes. *)
LEMMA ForgetRefines ==
    ASSUME IInv, HCleanup \/ HRestart
    PROVE  \E S \in SUBSET Groups : Ledger!Lose(S)
<1> DEFINE S == {g \in Groups : Pending(g)' = 0}
<1>1. (Cleanup \/ Restart) /\ Forget /\ TypeOK /\ LockInv
  BY Zenon DEF HCleanup, HRestart, IInv
<1>2. \A g \in Groups : (Pending(g)' = Pending(g) \/ Pending(g)' = 0) /\ Pending(g) \in Nat
  BY <1>1, ForgetFacts, ReadingsType, Zenon
<1>3. /\ lost' = [g \in Groups |-> lost[g] + (Pending(g) - Pending(g)')]
      /\ UNCHANGED <<collected, received>>
  BY <1>1, Zenon DEF Forget
<1>4. \A g \in Groups : lost[g] \in Nat
  BY Zenon DEF IInv, HTypeOK
<1>5. \A g \in Groups : lost[g] + (Pending(g) - Pending(g)')
                        = IF g \in S THEN lost[g] + PendingMap[g] ELSE lost[g]
  BY <1>2, <1>4 DEF PendingMap
<1>6. \A g \in Groups : Pending(g)' = IF g \in S THEN 0 ELSE PendingMap[g]
  BY <1>2, Zenon DEF PendingMap
<1> HIDE DEF S
<1>7. Ledger!Lose(S)
  BY <1>3, <1>5, <1>6, Zenon DEF Ledger!Lose, PendingMap
<1>8. S \in SUBSET Groups
  BY Zenon DEF S
<1> QED
  BY <1>7, <1>8, Zenon

(* A written batch is a Deliver step, or a Lose step of all groups. *)
LEMMA WriteRefines ==
    ASSUME SendTrafficDelta, IInv, HDelivered \/ HNotDelivered
    PROVE  Ledger!Deliver \/ Ledger!Lose(Groups)
<1>1. HandlerWrites /\ TypeOK /\ BatchInv
  BY Zenon DEF HDelivered, HNotDelivered, IInv
<1>2. \A g \in Groups : Pending(g)' = 0
  BY <1>1, WriteFacts, Zenon
<1>3. \A g \in Groups : IF g \in DOMAIN batch THEN batch[g] = Pending(g) ELSE Pending(g) = 0
  BY <1>1, Zenon DEF BatchInv, HandlerWrites, Pending
<1>4. \A g \in Groups : received[g] \in Nat /\ lost[g] \in Nat /\ Pending(g) \in Nat
  BY <1>1, ReadingsType, Zenon DEF IInv, HTypeOK
<1>5. PendingMap' = [g \in Groups |-> 0]
  BY <1>2, Zenon DEF PendingMap
<1>6. ASSUME HDelivered PROVE Ledger!Deliver
  <2>1. received' = [g \in Groups |-> IF g \notin DOMAIN batch THEN received[g]
                                     ELSE received[g] + batch[g]]
    BY <1>6, Zenon DEF HDelivered
  <2>2. received' = [g \in Groups |-> received[g] + PendingMap[g]]
    <3>1. ASSUME NEW g \in Groups
          PROVE  (IF g \notin DOMAIN batch THEN received[g] ELSE received[g] + batch[g])
                   = received[g] + Pending(g)
      BY <1>3, <1>4
    <3> QED
      BY <2>1, <3>1, Zenon DEF PendingMap
  <2> QED
    BY <1>5, <1>6, <2>2, Zenon DEF Ledger!Deliver, HDelivered, PendingMap
<1>7. ASSUME HNotDelivered PROVE Ledger!Lose(Groups)
  <2>1. lost' = [g \in Groups |-> lost[g] + (IF g \in DOMAIN batch THEN batch[g] ELSE 0)]
    BY <1>7, Zenon DEF HNotDelivered
  <2>2. lost' = [g \in Groups |-> IF g \in Groups THEN lost[g] + PendingMap[g] ELSE lost[g]]
    BY <2>1, <1>3, <1>4, Zenon DEF PendingMap
  <2>3. PendingMap' = [g \in Groups |-> IF g \in Groups THEN 0 ELSE PendingMap[g]]
    BY <1>5, Zenon
  <2> QED
    BY <1>7, <2>2, <2>3, Zenon DEF Ledger!Lose, HNotDelivered, PendingMap
<1> QED
  BY <1>6, <1>7, Zenon

(* In delta mode every behaviour of the collector is, as far as the bytes  *)
(* of the groups go, a behaviour of TrafficLedger.                         *)
THEOREM DeltaModeImplementsLedger ==
    ASSUME SendTrafficDelta PROVE HSpec => ImplementsLedger
<1>1. HInit => Ledger!Init
  <2> SUFFICES ASSUME HInit PROVE Ledger!Init
    OBVIOUS
  <2>1. \A g \in Groups : Pending(g) = 0
    BY EmptyMapFacts, Zenon DEF HInit, Init, Pending
  <2> QED
    BY <2>1, Zenon DEF HInit, Ledger!Init
<1>2. IInv /\ [HNext]_hvars => [Ledger!Next]_Ledger!ledger
  <2> SUFFICES ASSUME IInv, [HNext]_hvars PROVE [Ledger!Next]_Ledger!ledger
    OBVIOUS
  <2>1. ASSUME UNCHANGED <<collected, received, lost>>, \A g \in Groups : Pending(g)' = Pending(g)
        PROVE  UNCHANGED Ledger!ledger
    BY <2>1, Zenon DEF Ledger!ledger
  <2>2. ASSUME NEW c \in Conns, NEW t \in Timeouts, HPacket(c, t) PROVE UNCHANGED Ledger!ledger
    BY <2>1, <2>2, Zenon DEF HPacket, Packet, state, perGroup, Pending
  <2>3. ASSUME HQuiet PROVE UNCHANGED Ledger!ledger
    BY <2>1, <2>3, QuietFacts, Zenon DEF HQuiet, perGroup
  <2>4. ASSUME NEW c \in Conns, HMergeEntry(c) PROVE Ledger!Next
    BY <2>4, MergeRefines, GroupOfConn, Zenon DEF Ledger!Next
  <2>5. ASSUME HCleanup \/ HRestart PROVE Ledger!Next
    BY <2>5, ForgetRefines, Zenon DEF Ledger!Next
  <2>6. ASSUME HDelivered \/ HNotDelivered PROVE Ledger!Next
    BY <2>6, WriteRefines, Zenon DEF Ledger!Next
  <2>7. ASSUME UNCHANGED hvars PROVE UNCHANGED Ledger!ledger
    BY <2>1, <2>7, Zenon DEF hvars, vars, state, perGroup, Pending
  <2> QED
    BY <2>2, <2>3, <2>4, <2>5, <2>6, <2>7, Zenon DEF HNext, HRun
<1> QED
  BY <1>1, <1>2, Invariance, PTL DEF HSpec, ImplementsLedger, Ledger!Spec

-----------------------------------------------------------------------------
(* In counter mode the values a client is sent grow. *)

\* A client was sent no more than was collected.
SentInv == \A g \in Groups : received[g] <= collected[g]

(* A body holds what podMetrics holds. *)
LEMMA BodyFacts ==
    ASSUME IInv, HDelivered, NEW g \in DOMAIN batch
    PROVE  g \in Groups /\ batch[g] = Pending(g) /\ batch[g] \in Nat
<1>1. hpc = "writing" /\ TypeOK /\ BatchInv
  BY Zenon DEF HDelivered, HandlerWrites, IInv
<1>2. g \in DOMAIN podMetrics /\ batch[g] = podMetrics[g].bytes
  BY <1>1, Zenon DEF BatchInv
<1>3. g \in Groups /\ batch[g] = Pending(g)
  BY <1>1, <1>2, Zenon DEF TypeOK, Pending
<1> QED
  BY <1>1, <1>3, ReadingsType, Zenon

LEMMA SentStep ==
    ASSUME IInv, SentInv, [HNext]_hvars
    PROVE  SentInv'
<1> SUFFICES ASSUME NEW g \in Groups PROVE received'[g] <= collected'[g]
  BY Zenon DEF SentInv
<1>1. /\ received[g] \in Nat /\ collected[g] \in Nat /\ lost[g] \in Nat /\ Pending(g) \in Nat
      /\ received[g] <= collected[g]
      /\ collected[g] = Pending(g) + lost[g] + (IF SendTrafficDelta THEN received[g] ELSE 0)
  BY ReadingsType, Zenon DEF IInv, HTypeOK, SentInv, Conservation, Shown
<1>2. ASSUME NEW c \in Conns, HMergeEntry(c) PROVE received'[g] <= collected'[g]
  <2> DEFINE k == entryGroupKey(c)
             a == Added(c)
  <2>1. received' = received /\ collected \in [Groups -> Nat] /\ k \in Groups
    BY <1>2, GroupOfConn, Zenon DEF HMergeEntry, IInv, HTypeOK
  <2>2. collected' = [collected EXCEPT ![k] = @ + a]
    BY <1>2, Zenon DEF HMergeEntry
  <2>3. a \in Nat
    BY <1>2, AddedNat, Zenon DEF HMergeEntry, IInv
  <2> HIDE DEF k, a
  <2>4. collected'[g] = collected[g] \/ collected'[g] = collected[g] + a
    BY <2>1, <2>2, Zenon
  <2> QED
    BY <2>1, <2>3, <2>4, <1>1
<1>3. CASE HDelivered
  <2>1. collected' = collected
    BY <1>3, Zenon DEF HDelivered
  <2>2. CASE g \notin DOMAIN batch
    <3>1. received'[g] = received[g]
      BY <1>3, <2>2, Zenon DEF HDelivered
    <3> QED
      BY <3>1, <2>1, <1>1, Zenon
  <2>3. CASE g \in DOMAIN batch
    <3>1. received'[g] = IF SendTrafficDelta THEN received[g] + batch[g] ELSE batch[g]
      BY <1>3, <2>3, Zenon DEF HDelivered
    <3>2. batch[g] = Pending(g)
      BY <1>3, <2>3, BodyFacts, Zenon
    <3> QED
      BY <3>1, <3>2, <2>1, <1>1
  <2> QED
    BY <2>2, <2>3, Zenon
<1>4. CASE UNCHANGED <<received, collected>>
  BY <1>1, <1>4, Zenon
<1>5. (\E c \in Conns : HMergeEntry(c)) \/ HDelivered \/ UNCHANGED <<received, collected>>
  BY Zenon DEF HNext, HRun, HPacket, HQuiet, HCleanup, HRestart, Forget, HNotDelivered, hvars, perGroup
<1> QED
  BY <1>2, <1>3, <1>4, <1>5, Zenon

(* Until bytes of a group are dropped, no response shows it a smaller      *)
(* value than an earlier one.                                              *)
THEOREM CountersGrow == HSpec => GrowsUntilDropped
<1>1. HInit => SentInv
  BY DEF HInit, SentInv
<1>2. IInv /\ SentInv /\ [HNext]_hvars => SentInv'
  BY SentStep, Zenon
<1>3. IInv /\ SentInv /\ [HNext]_hvars =>
        [\A g \in Groups : lost'[g] = 0 => received'[g] >= received[g]]_hvars
  <2> SUFFICES ASSUME IInv, SentInv, [HNext]_hvars, NEW g \in Groups, lost'[g] = 0
               PROVE  received'[g] >= received[g]
    OBVIOUS
  <2>1. /\ received[g] \in Nat /\ collected[g] \in Nat /\ Pending(g) \in Nat
        /\ received[g] <= collected[g]
        /\ collected[g] = Pending(g) + lost[g] + (IF SendTrafficDelta THEN received[g] ELSE 0)
    BY ReadingsType, Zenon DEF IInv, HTypeOK, SentInv, Conservation, Shown
  <2>2. CASE HDelivered
    <3>1. lost[g] = 0
      BY <2>2, Zenon DEF HDelivered
    <3>2. CASE g \notin DOMAIN batch
      <4>1. received'[g] = received[g]
        BY <2>2, <3>2, Zenon DEF HDelivered
      <4> QED
        BY <4>1, <2>1
    <3>3. CASE g \in DOMAIN batch
      <4>1. received'[g] = IF SendTrafficDelta THEN received[g] + batch[g] ELSE batch[g]
        BY <2>2, <3>3, Zenon DEF HDelivered
      <4>2. batch[g] = Pending(g)
        BY <2>2, <3>3, BodyFacts, Zenon
      <4> QED
        BY <4>1, <4>2, <3>1, <2>1
    <3> QED
      BY <3>2, <3>3, Zenon
  <2>3. CASE received' = received
    BY <2>1, <2>3
  <2>4. HDelivered \/ received' = received
    BY Zenon
       DEF HNext, HRun, HPacket, HQuiet, HMergeEntry, HCleanup, HRestart, Forget, HNotDelivered, hvars, perGroup
  <2> QED
    BY <2>2, <2>3, <2>4, Zenon
<1> QED
  BY <1>1, <1>2, <1>3, Invariance, PTL DEF HSpec, GrowsUntilDropped
=============================================================================
