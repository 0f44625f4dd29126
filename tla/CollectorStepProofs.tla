------------------------- MODULE CollectorStepProofs -------------------------
(***************************************************************************)
(* Lemmas on the steps of the collector: its types, what each step does to *)
(* what an observer reads, the two invariants of its lock and batch, and   *)
(* the ledgers of the traffic, which every step keeps.                     *)
(***************************************************************************)
EXTENDS CollectorHistory, TLAPS

-----------------------------------------------------------------------------
(* Maps and keys. *)

(* What deletions leave in a map. *)
LEMMA RestrictFacts ==
    ASSUME NEW m, NEW S
    PROVE  DOMAIN Restrict(m, S) = S /\ \A x \in S : Restrict(m, S)[x] = m[x]
BY Zenon DEF Restrict

(* The cache key of a connection determines the connection. *)
LEMMA KeyIsTuple == \A c \in Conns : conntrackEntryKey(c) = c
BY ConnsAssumption, Zenon DEF conntrackEntryKey, SrcIP, SrcPort, DstIP, DstPort, Proto

LEMMA GroupOfConn == \A c \in Conns : entryGroupKey(c) \in Groups
BY Zenon DEF Groups

LEMMA KeyOfConn == \A c \in Conns : conntrackEntryKey(c) \in Keys
BY Zenon DEF Keys

LEMMA EmptyMapFacts == DOMAIN EmptyMap = {}
BY Zenon DEF EmptyMap

-----------------------------------------------------------------------------
(* Type correctness. *)

(* TypeOK is kept by every step of the collector and its environment. *)
LEMMA TypeStep == TypeOK /\ [Next]_vars => TypeOK'
<1> SUFFICES ASSUME TypeOK, [Next]_vars PROVE TypeOK'
  OBVIOUS
<1> USE DEF Entry, Metric
<1>1. ASSUME NEW c \in Conns, NEW t \in Timeouts, Packet(c, t) PROVE TypeOK'
  <2>1. ct' = Put(ct, c, [bytes |-> (IF c \in DOMAIN ct THEN ct[c].bytes ELSE 0) + 1,
                          expires |-> now + t])
    BY <1>1, Zenon DEF Packet
  <2>2. [bytes |-> (IF c \in DOMAIN ct THEN ct[c].bytes ELSE 0) + 1, expires |-> now + t]
          \in [bytes : Nat, expires : Nat]
    BY TimeAssumption DEF TypeOK
  <2>3. DOMAIN ct' \subseteq Conns /\ \A x \in DOMAIN ct' : ct'[x] \in [bytes : Nat, expires : Nat]
    BY <2>1, <2>2, Zenon DEF TypeOK, Put
  <2> QED
    BY <2>3, <1>1, Zenon DEF TypeOK, Packet, loop, http, state
<1>2. ASSUME NEW c \in Conns, Destroy(c) PROVE TypeOK'
  BY <1>2, RestrictFacts DEF TypeOK, Destroy, loop, http, state
<1>3. CASE Tick
  BY <1>3, RestrictFacts DEF TypeOK, Tick, loop, http, state
<1>4. ASSUME NEW S \in SUBSET Pods, PodsChange(S) PROVE TypeOK'
  BY <1>4, Zenon DEF TypeOK, PodsChange, loop, http, state
<1>5. CASE CollectPods
  BY <1>5, Zenon DEF TypeOK, CollectPods, kernel, http, state
<1>6. CASE CollectList
  BY <1>6, Zenon DEF TypeOK, CollectList, ListEntries, ZeroTime, kernel, http, state
<1>7. CASE CollectListFails
  BY <1>7, Zenon DEF TypeOK, CollectListFails, kernel, http, state
<1>8. CASE CollectLock
  BY <1>8, Zenon DEF TypeOK, CollectLock, Lock, kernel, http, state
<1>9. ASSUME NEW c \in Conns, MergeEntry(c) PROVE TypeOK'
  <2>1. c \in DOMAIN conns /\ conns[c] \in Entry
    BY <1>9, Zenon DEF TypeOK, MergeEntry
  <2>2. Delta(c) \in Nat
    BY <2>1, KeyOfConn DEF TypeOK, Delta, ClampedDelta
  <2>3. Merged(entryGroupKey(c), Delta(c), conns[c].lifetime) \in Metric
    BY <2>1, <2>2, GroupOfConn DEF TypeOK, Merged, Later
  <2>4. DOMAIN podMetrics' \subseteq Groups /\ \A g \in DOMAIN podMetrics' : podMetrics'[g] \in Metric
    BY <1>9, <2>3, GroupOfConn DEF TypeOK, MergeEntry, Put
  <2>5. DOMAIN entriesCache' \subseteq Keys /\ \A k \in DOMAIN entriesCache' : entriesCache'[k] \in Entry
    BY <1>9, <2>1, KeyOfConn DEF TypeOK, MergeEntry, Put
  <2>6. DOMAIN conns' \subseteq Conns /\ \A x \in DOMAIN conns' : conns'[x] \in Entry
    BY <1>9, RestrictFacts DEF TypeOK, MergeEntry
  <2> QED
    BY <1>9, <2>4, <2>5, <2>6, Zenon DEF TypeOK, MergeEntry, kernel, http
<1>10. CASE CollectDone
  BY <1>10, Zenon DEF TypeOK, CollectDone, Unlock, kernel, http
<1>11. CASE Cleanup
  BY <1>11, RestrictFacts DEF TypeOK, Cleanup, kernel, loop, http
<1>12. CASE Stop
  BY <1>12, Zenon DEF TypeOK, Stop, kernel, http, state
<1>13. CASE HandlerMarshal
  BY <1>13, Zenon DEF TypeOK, HandlerMarshal, Lock, kernel, loop, state
<1>14. CASE HandlerFails
  BY <1>14, EmptyMapFacts, Zenon DEF TypeOK, HandlerFails, Unlock, kernel, loop, state
<1>15. CASE HandlerWrites
  <2>1. \A g \in DOMAIN podMetrics : ResetMetric(podMetrics[g]) \in Metric
    BY TimeAssumption DEF TypeOK, ResetMetric, Earlier
  <2>2. DOMAIN podMetrics' \subseteq Groups /\ \A g \in DOMAIN podMetrics' : podMetrics'[g] \in Metric
    BY <1>15, <2>1, Zenon DEF TypeOK, HandlerWrites
  <2> QED
    BY <1>15, <2>2, EmptyMapFacts, Zenon DEF TypeOK, HandlerWrites, Unlock, kernel, loop
<1>16. CASE Restart
  BY <1>16, EmptyMapFacts, Zenon DEF TypeOK, Restart, kernel
<1>17. CASE UNCHANGED vars
  BY <1>17, Zenon DEF TypeOK, vars, kernel, loop, http, state
<1>18. CASE Environment
  BY <1>18, <1>1, <1>2, <1>3, <1>4, Zenon DEF Environment
<1>19. CASE CollectSteps
  BY <1>19, <1>5, <1>6, <1>8, <1>9, <1>10, Zenon DEF CollectSteps
<1> QED
  BY <1>7, <1>11, <1>12, <1>13, <1>14, <1>15, <1>16, <1>17, <1>18, <1>19, Zenon DEF Next, Run

(* Every reachable state of the collector is well typed. *)
THEOREM TypeCorrect == Spec => []TypeOK
<1>1. Init => TypeOK
  <2> SUFFICES ASSUME Init PROVE TypeOK
    OBVIOUS
  <2>1. now \in Nat /\ running \subseteq Pods /\ firstCollectDone \in BOOLEAN
    BY Zenon DEF Init
  <2> QED
    BY <2>1, EmptyMapFacts, Zenon DEF Init, TypeOK
<1> QED
  BY <1>1, TypeStep, PTL DEF Spec

-----------------------------------------------------------------------------
(* The history variables do not restrict or change the collector. *)

(* A step of the collector with its history is a step of the collector. *)
LEMMA HistoryStep == [HNext]_hvars => [Next]_vars
<1>1. ASSUME NEW c \in Conns, NEW t \in Timeouts, HPacket(c, t) PROVE Next
  BY <1>1, Zenon DEF HPacket, Next, Run, Environment
<1>2. HQuiet => Next
  BY Zenon DEF HQuiet, Next, Run, Environment, CollectSteps
<1>3. ASSUME NEW c \in Conns, HMergeEntry(c) PROVE Next
  BY <1>3, Zenon DEF HMergeEntry, Next, Run, CollectSteps
<1>4. HCleanup \/ HDelivered \/ HNotDelivered \/ HRestart => Next
  BY Zenon DEF HCleanup, HDelivered, HNotDelivered, HRestart, Next, Run
<1>5. UNCHANGED hvars => UNCHANGED vars
  BY Zenon DEF hvars
<1> QED
  BY <1>1, <1>2, <1>3, <1>4, <1>5, Zenon DEF HNext, HRun

-----------------------------------------------------------------------------
(* What each action does to the readings the invariants are stated over.   *)

(* The readings are natural numbers. *)
LEMMA ReadingsType ==
    ASSUME TypeOK
    PROVE  /\ \A c \in Conns : KernelBytes(c) \in Nat /\ CachedBytes(c) \in Nat
           /\ \A c \in DOMAIN conns : conns[c].bytes \in Nat /\ conns[c].lifetime \in Nat
           /\ \A g \in Groups : Pending(g) \in Nat
BY Zenon DEF TypeOK, Entry, Metric, KernelBytes, CachedBytes, Pending

(* So is all that the ledgers hold for a tuple. *)
LEMMA Numbers ==
    ASSUME TypeOK, HTypeOK, NEW c \in Conns
    PROVE  /\ KernelBytes(c) \in Nat /\ CachedBytes(c) \in Nat
           /\ c \in DOMAIN conns => conns[c].bytes \in Nat
           /\ counted[c] \in Nat /\ skipped[c] \in Nat
           /\ traffic[c] \in Nat /\ recounted[c] \in Nat
           /\ Settled(c) \in Nat /\ Due(c) \in Nat
BY ReadingsType DEF HTypeOK, Settled, Due

(* The arithmetic of Covered: the counter grows with its traffic, the      *)
(* counter is gone, the baseline is forgotten, a listing is taken.         *)
LEMMA CoveredFacts ==
    ASSUME NEW n \in Nat, NEW t \in Nat, NEW k \in Nat, NEW b \in Nat, Covered(n, t, k, b)
    PROVE  /\ Covered(n, t + 1, k + 1, b)
           /\ Covered(n, t, 0, b)
           /\ Covered(n, t + Earlier(b, k), k, 0)
           /\ Covered(n + ClampedDelta(k, b), t, k, k)
           /\ n <= t
BY DEF Covered, ClampedDelta, Earlier

(* What a merge adds is a natural number. *)
LEMMA ClampedFacts ==
    ASSUME NEW n \in Nat, NEW k \in Nat, NEW b \in Nat
    PROVE  n + ClampedDelta(k, b) \in Nat
BY DEF ClampedDelta

(* One more byte on both sides. *)
LEMMA OneMore ==
    ASSUME NEW t \in Nat, NEW k \in Nat
    PROVE  /\ k <= t => k + 1 <= t + 1
           /\ k <= t => k <= t + 1
           /\ t + 1 = k + 1 => t = k
OBVIOUS

(* What a merge adds when the counter did not shrink. *)
LEMMA Grown ==
    ASSUME NEW k \in Nat, NEW b \in Nat, b <= k
    PROVE  ClampedDelta(k, b) = k - b /\ Earlier(b, k) = b
BY DEF ClampedDelta, Earlier

(* Sums of the ledgers. *)
LEMMA Sums ==
    ASSUME NEW x \in Nat, NEW y \in Nat, NEW z \in Nat
    PROVE  (x + y) + z = x + (y + z) /\ x + y \in Nat /\ x + 0 = x /\ 0 + x = x
           /\ x + (y + z) = (x + z) + y
OBVIOUS

(* The larger of two times. *)
LEMMA LaterFacts ==
    ASSUME NEW a \in Nat, NEW b \in Nat
    PROVE  Later(a, b) \in Nat /\ Later(a, b) >= a /\ Later(a, b) >= b
BY DEF Later

(* A packet adds one byte to its own tuple and touches nothing of the collector. *)
LEMMA PacketFacts ==
    ASSUME TypeOK, NEW c \in Conns, NEW t \in Timeouts, Packet(c, t)
    PROVE  /\ KernelBytes(c)' = KernelBytes(c) + 1
           /\ \A d \in Conns \ {c} : KernelBytes(d)' = KernelBytes(d)
           /\ UNCHANGED <<now, running, loop, mu, http, state>>
<1>1. ct' = Put(ct, c, [bytes |-> KernelBytes(c) + 1, expires |-> now + t])
  BY Zenon DEF Packet, KernelBytes
<1>2. DOMAIN ct' = DOMAIN ct \cup {c} /\ ct'[c].bytes = KernelBytes(c) + 1
  BY <1>1, Zenon DEF Put
<1>3. \A d \in DOMAIN ct \ {c} : ct'[d] = ct[d]
  BY <1>1, Zenon DEF Put
<1> QED
  BY <1>2, <1>3, Zenon DEF Packet, KernelBytes

(* Merging an entry moves its tuple's baseline to the listed counter, and  *)
(* adds the clamped difference to the group and to no other.               *)
LEMMA MergeFacts ==
    ASSUME TypeOK, NEW c \in Conns, MergeEntry(c)
    PROVE  /\ c \in DOMAIN conns
           /\ CachedBytes(c)' = conns[c].bytes
           /\ \A d \in Conns \ {c} : CachedBytes(d)' = CachedBytes(d)
           /\ DOMAIN conns' = DOMAIN conns \ {c}
           /\ \A d \in DOMAIN conns' : conns'[d] = conns[d]
           /\ Added(c) = IF SendTrafficDelta /\ ~firstCollectDone THEN 0
                         ELSE ClampedDelta(conns[c].bytes, CachedBytes(c))
           /\ Pending(entryGroupKey(c))' = Pending(entryGroupKey(c)) + Added(c)
           /\ \A g \in Groups \ {entryGroupKey(c)} : Pending(g)' = Pending(g)
<1>1. c \in DOMAIN conns /\ conns[c] \in Entry
  BY Zenon DEF MergeEntry, TypeOK
<1>2. entriesCache' = Put(entriesCache, c, conns[c])
  BY KeyIsTuple, Zenon DEF MergeEntry
<1>3. DOMAIN entriesCache' = DOMAIN entriesCache \cup {c} /\ entriesCache'[c] = conns[c]
  BY <1>2, Zenon DEF Put
<1>4. \A d \in DOMAIN entriesCache \ {c} : entriesCache'[d] = entriesCache[d]
  BY <1>2, Zenon DEF Put
<1>5. CachedBytes(c)' = conns[c].bytes
  BY <1>3, KeyIsTuple, Zenon DEF CachedBytes
<1>6. \A d \in Conns \ {c} : CachedBytes(d)' = CachedBytes(d)
  BY <1>3, <1>4, KeyIsTuple, Zenon DEF CachedBytes
<1>7. DOMAIN conns' = DOMAIN conns \ {c} /\ \A d \in DOMAIN conns' : conns'[d] = conns[d]
  BY Zenon DEF MergeEntry, Restrict
<1>8. Delta(c) = ClampedDelta(conns[c].bytes, CachedBytes(c)) /\ Delta(c) \in Nat
  BY <1>1, KeyOfConn DEF Delta, CachedBytes, ClampedDelta, TypeOK, Entry
<1>9. CASE SendTrafficDelta /\ ~firstCollectDone
  <2>1. podMetrics' = podMetrics
    BY <1>9, Zenon DEF MergeEntry, BaselineOnly
  <2>2. \A g \in Groups : Pending(g)' = Pending(g) /\ Pending(g) \in Nat
    BY <2>1, ReadingsType, Zenon DEF Pending
  <2>3. Added(c) = 0
    BY <2>2, GroupOfConn DEF Added
  <2>4. Pending(entryGroupKey(c))' = Pending(entryGroupKey(c)) + Added(c)
    BY <2>2, <2>3, GroupOfConn
  <2> QED
    BY <1>1, <1>5, <1>6, <1>7, <1>9, <2>2, <2>3, <2>4, Zenon
<1>10. CASE ~(SendTrafficDelta /\ ~firstCollectDone)
  <2> DEFINE g == entryGroupKey(c)
             m == Merged(g, Delta(c), conns[c].lifetime)
  <2>1. podMetrics' = Put(podMetrics, g, m)
    BY <1>10, Zenon DEF MergeEntry, BaselineOnly
  <2>2. m.bytes = Pending(g) + Delta(c)
    BY <1>8 DEF Merged, Pending
  <2> HIDE DEF m
  <2>3. DOMAIN podMetrics' = DOMAIN podMetrics \cup {g} /\ podMetrics'[g] = m
    BY <2>1, Zenon DEF Put
  <2>4. \A h \in DOMAIN podMetrics \ {g} : podMetrics'[h] = podMetrics[h]
    BY <2>1, Zenon DEF Put
  <2>5. Pending(g)' = Pending(g) + Delta(c)
    BY <2>2, <2>3, Zenon DEF Pending
  <2>6. \A h \in Groups \ {g} : Pending(h)' = Pending(h)
    BY <2>3, <2>4, Zenon DEF Pending
  <2>7. Pending(g) \in Nat
    BY ReadingsType, GroupOfConn, Zenon
  <2>8. Added(c) = Delta(c)
    BY <2>5, <2>7, <1>8 DEF Added
  <2> QED
    BY <1>1, <1>5, <1>6, <1>7, <1>8, <1>10, <2>5, <2>6, <2>8, Zenon
<1> QED
  BY <1>9, <1>10, Zenon

(* Actions outside the merge leave the maps, hence their readings, alone. *)
LEMMA QuietFacts ==
    ASSUME HQuiet
    PROVE  /\ entriesCache' = entriesCache /\ podMetrics' = podMetrics
           /\ \A c \in Conns : CachedBytes(c)' = CachedBytes(c)
           /\ \A g \in Groups : Pending(g)' = Pending(g)
<1>1. entriesCache' = entriesCache /\ podMetrics' = podMetrics
  BY Zenon DEF HQuiet, Destroy, Tick, PodsChange, CollectPods, CollectList, CollectListFails,
         CollectLock, CollectDone, Stop, HandlerMarshal, HandlerFails, state
<1> QED
  BY <1>1, Zenon DEF CachedBytes, Pending

(* cleanup and a restart keep a map entry as it is or drop it, and touch   *)
(* no kernel counter; neither happens while a listing waits.               *)
LEMMA ForgetFacts ==
    ASSUME TypeOK, LockInv, Cleanup \/ Restart
    PROVE  /\ DOMAIN conns' = {}
           /\ \A c \in Conns : KernelBytes(c)' = KernelBytes(c)
           /\ \A c \in Conns : IF c \in DOMAIN entriesCache'
                               THEN /\ c \in DOMAIN entriesCache
                                    /\ entriesCache'[c] = entriesCache[c]
                                    /\ CachedBytes(c)' = CachedBytes(c)
                               ELSE CachedBytes(c)' = 0
           /\ \A g \in Groups : Pending(g)' = Pending(g) \/ Pending(g)' = 0
           /\ hpc' = "idle"
<1>1. \A c \in Conns : KernelBytes(c)' = KernelBytes(c)
  BY Zenon DEF Cleanup, Restart, kernel, KernelBytes
<1>2. DOMAIN conns' = {} /\ hpc' = "idle"
  BY EmptyMapFacts, Zenon DEF Cleanup, Restart, LockInv, TypeOK, loop, http
<1>3. /\ DOMAIN entriesCache' \subseteq DOMAIN entriesCache
      /\ \A k \in DOMAIN entriesCache' : entriesCache'[k] = entriesCache[k]
  BY EmptyMapFacts, Zenon DEF Cleanup, Restart, Restrict
<1>4. /\ DOMAIN podMetrics' \subseteq DOMAIN podMetrics
      /\ \A g \in DOMAIN podMetrics' : podMetrics'[g] = podMetrics[g]
  BY EmptyMapFacts, Zenon DEF Cleanup, Restart, Restrict
<1>5. \A c \in Conns : IF c \in DOMAIN entriesCache'
                       THEN /\ c \in DOMAIN entriesCache
                            /\ entriesCache'[c] = entriesCache[c]
                            /\ CachedBytes(c)' = CachedBytes(c)
                       ELSE CachedBytes(c)' = 0
  BY <1>3, KeyIsTuple, Zenon DEF CachedBytes
<1>6. \A g \in Groups : Pending(g)' = Pending(g) \/ Pending(g)' = 0
  BY <1>4, Zenon DEF Pending
<1> QED
  BY <1>1, <1>2, <1>5, <1>6, Zenon

(* A written batch empties every group in delta mode and none otherwise. *)
LEMMA WriteFacts ==
    ASSUME HandlerWrites
    PROVE  /\ entriesCache' = entriesCache /\ DOMAIN podMetrics' = DOMAIN podMetrics
           /\ \A c \in Conns : CachedBytes(c)' = CachedBytes(c) /\ KernelBytes(c)' = KernelBytes(c)
           /\ SendTrafficDelta => \A g \in Groups : Pending(g)' = 0
           /\ ~SendTrafficDelta => podMetrics' = podMetrics /\ \A g \in Groups : Pending(g)' = Pending(g)
<1>1. entriesCache' = entriesCache /\ ct' = ct /\ DOMAIN podMetrics' = DOMAIN podMetrics
  BY Zenon DEF HandlerWrites, kernel
<1>2. \A c \in Conns : CachedBytes(c)' = CachedBytes(c) /\ KernelBytes(c)' = KernelBytes(c)
  BY <1>1, Zenon DEF CachedBytes, KernelBytes
<1>3. ASSUME SendTrafficDelta PROVE \A g \in Groups : Pending(g)' = 0
  BY <1>3, Zenon DEF HandlerWrites, Pending, ResetMetric
<1>4. ASSUME ~SendTrafficDelta PROVE podMetrics' = podMetrics /\ \A g \in Groups : Pending(g)' = Pending(g)
  BY <1>4, Zenon DEF HandlerWrites, Pending
<1> QED
  BY <1>1, <1>2, <1>3, <1>4, Zenon

-----------------------------------------------------------------------------
(* The lock and the batch. *)

(* c.mu excludes: who holds it and where the goroutines are stay in step. *)
LEMMA LockStep == TypeOK /\ LockInv /\ [Next]_vars => LockInv'
<1> SUFFICES ASSUME TypeOK, LockInv, [Next]_vars PROVE LockInv'
  OBVIOUS
<1>1. CASE Environment
  BY <1>1, Zenon DEF LockInv, Environment, Packet, Destroy, Tick, PodsChange, loop, http
<1>2. CASE CollectPods \/ CollectList \/ CollectListFails \/ CollectLock \/ Stop
  BY <1>2, Zenon
     DEF LockInv, TypeOK, CollectPods, CollectList, CollectListFails, CollectLock, Stop, Lock, http
<1>3. ASSUME NEW c \in Conns, MergeEntry(c) PROVE LockInv'
  BY <1>3, Zenon DEF LockInv, MergeEntry, http
<1>4. CASE CollectDone
  BY <1>4, EmptyMapFacts, Zenon DEF LockInv, TypeOK, CollectDone, Unlock, http
<1>5. CASE Cleanup
  BY <1>5, Zenon DEF LockInv, Cleanup, loop, http
<1>6. CASE HandlerMarshal \/ HandlerFails \/ HandlerWrites
  BY <1>6, Zenon DEF LockInv, TypeOK, HandlerMarshal, HandlerFails, HandlerWrites, Lock, Unlock, loop
<1>7. CASE Restart
  BY <1>7, EmptyMapFacts, Zenon DEF LockInv, Restart
<1>8. CASE UNCHANGED vars
  BY <1>8, Zenon DEF LockInv, vars, loop, http
<1>9. CASE CollectSteps
  BY <1>9, <1>2, <1>3, <1>4, Zenon DEF CollectSteps
<1> QED
  BY <1>1, <1>2, <1>5, <1>6, <1>7, <1>8, <1>9, Zenon DEF Next, Run

(* While a handler writes, nothing but time and the kernel moves. *)
LEMMA BatchStep == TypeOK /\ LockInv /\ BatchInv /\ [Next]_vars => BatchInv'
<1> SUFFICES ASSUME TypeOK, LockInv, BatchInv, [Next]_vars PROVE BatchInv'
  OBVIOUS
<1>1. CASE Environment
  BY <1>1, Zenon DEF BatchInv, Environment, Packet, Destroy, Tick, PodsChange, http, state
<1>2. CASE CollectPods \/ CollectList \/ CollectListFails \/ CollectLock \/ Stop
  BY <1>2, Zenon
     DEF BatchInv, CollectPods, CollectList, CollectListFails, CollectLock, Stop, http, state
<1>3. ASSUME NEW c \in Conns, MergeEntry(c) PROVE BatchInv'
  BY <1>3, Zenon DEF BatchInv, LockInv, TypeOK, MergeEntry, http
<1>4. CASE CollectDone
  BY <1>4, Zenon DEF BatchInv, CollectDone, http
<1>5. CASE Cleanup
  BY <1>5, Zenon DEF BatchInv, LockInv, TypeOK, Cleanup, http
<1>6. CASE HandlerMarshal
  BY <1>6, Zenon DEF BatchInv, HandlerMarshal, state
<1>7. CASE HandlerFails \/ HandlerWrites \/ Restart
  BY <1>7, Zenon DEF BatchInv, HandlerFails, HandlerWrites, Restart
<1>8. CASE UNCHANGED vars
  BY <1>8, Zenon DEF BatchInv, vars, http, state
<1>9. CASE CollectSteps
  BY <1>9, <1>2, <1>3, <1>4, Zenon DEF CollectSteps
<1> QED
  BY <1>1, <1>2, <1>5, <1>6, <1>7, <1>8, <1>9, Zenon DEF Next, Run

-----------------------------------------------------------------------------
(* The ledgers, action by action. *)

LedgerInv == HTypeOK /\ AheadInv /\ FirstLifeInv /\ ExactOnFirstLife /\ Conservation

(* A packet: traffic and the kernel counter grow together. *)
LEMMA PacketLedger ==
    ASSUME TypeOK, LedgerInv, NEW c \in Conns, NEW t \in Timeouts, HPacket(c, t)
    PROVE  LedgerInv'
<1>1. Packet(c, t) /\ traffic' = [traffic EXCEPT ![c] = @ + 1]
  BY Zenon DEF HPacket
<1>2. UNCHANGED <<skipped, counted, recounted, fresh, collected, received, lost>>
  BY Zenon DEF HPacket, perGroup
<1>3. UNCHANGED <<conns, entriesCache, podMetrics>>
  BY <1>1, PacketFacts, Zenon DEF loop, state
<1>4. \A d \in Conns : CachedBytes(d)' = CachedBytes(d)
  BY <1>3, Zenon DEF CachedBytes
<1>5. \A g \in Groups : Pending(g)' = Pending(g)
  BY <1>3, Zenon DEF Pending
<1>6. KernelBytes(c)' = KernelBytes(c) + 1 /\ \A d \in Conns \ {c} : KernelBytes(d)' = KernelBytes(d)
  BY <1>1, PacketFacts, Zenon
<1>7. HTypeOK'
  BY <1>1, <1>2 DEF LedgerInv, HTypeOK
<1>8. traffic'[c] = traffic[c] + 1 /\ \A d \in Conns \ {c} : traffic'[d] = traffic[d]
  BY <1>1, Zenon DEF LedgerInv, HTypeOK
<1>9. ASSUME NEW d \in Conns
      PROVE  /\ Ahead(d)' /\ FirstLife(d)'
             /\ traffic'[d] = KernelBytes(d)' => Settled(d)' = CachedBytes(d)' + recounted'[d]
  <2>1. /\ KernelBytes(d) \in Nat /\ CachedBytes(d) \in Nat
        /\ d \in DOMAIN conns => conns[d].bytes \in Nat
        /\ traffic[d] \in Nat /\ recounted[d] \in Nat
        /\ Settled(d) \in Nat /\ Due(d) \in Nat
    BY Numbers, Zenon DEF LedgerInv
  <2>2. /\ Ahead(d) /\ FirstLife(d)
        /\ traffic[d] = KernelBytes(d) => Settled(d) = CachedBytes(d) + recounted[d]
    BY Zenon DEF LedgerInv, AheadInv, FirstLifeInv, ExactOnFirstLife
  <2>3. /\ Settled(d)' = Settled(d) /\ recounted' = recounted
        /\ conns' = conns /\ CachedBytes(d)' = CachedBytes(d)
    BY <1>2, <1>3, <1>4, Zenon DEF Settled
  <2>4. CASE d = c
    <3>1. KernelBytes(d)' = KernelBytes(d) + 1 /\ traffic'[d] = traffic[d] + 1
      BY <2>4, <1>6, <1>8, Zenon
    <3>2. Due(d)' = Due(d) + 1
      BY <3>1, <2>1, <2>3 DEF Due
    <3>3. d \in DOMAIN conns => Settled(d) + ClampedDelta(conns[d].bytes, CachedBytes(d)) \in Nat
      BY <2>1, ClampedFacts, Zenon
    <3>a. Covered(Settled(d), Due(d) + 1, KernelBytes(d) + 1, CachedBytes(d))
      BY <2>1, <2>2, CoveredFacts, Zenon DEF Ahead
    <3>b. d \in DOMAIN conns => Covered(Settled(d) + ClampedDelta(conns[d].bytes, CachedBytes(d)),
                                        Due(d) + 1, KernelBytes(d) + 1, conns[d].bytes)
      BY <3>3, <2>1, <2>2, CoveredFacts, Zenon DEF Ahead
    <3>4. Ahead(d)'
      BY <3>1, <3>2, <3>a, <3>b, <2>3, Zenon DEF Ahead
    <3>5. traffic'[d] = KernelBytes(d)' => traffic[d] = KernelBytes(d)
      BY <3>1, <2>1, OneMore, Zenon
    <3>c. /\ KernelBytes(d)' <= traffic'[d]
          /\ \A x \in Nat : x <= KernelBytes(d) => x <= KernelBytes(d)'
      BY <3>1, <2>1, <2>2, OneMore, Zenon DEF FirstLife
    <3>6. FirstLife(d)'
      BY <3>5, <3>c, <2>1, <2>2, <2>3, Zenon DEF FirstLife
    <3> QED
      BY <3>4, <3>5, <3>6, <2>2, <2>3, Zenon
  <2>5. CASE d # c
    <3>1. KernelBytes(d)' = KernelBytes(d) /\ traffic'[d] = traffic[d]
      BY <2>5, <1>6, <1>8, Zenon
    <3>2. Due(d)' = Due(d)
      BY <3>1, <2>3, Zenon DEF Due
    <3> QED
      BY <3>1, <3>2, <2>2, <2>3, Zenon DEF Ahead, FirstLife
  <2> QED
    BY <2>4, <2>5, Zenon
<1>10. AheadInv' /\ FirstLifeInv'
  BY <1>9, Zenon DEF AheadInv, FirstLifeInv
<1>11. ExactOnFirstLife'
  BY <1>9, Zenon DEF ExactOnFirstLife
<1>12. Conservation'
  BY <1>2, <1>5, Zenon DEF LedgerInv, Conservation, Shown
<1> QED
  BY <1>7, <1>10, <1>11, <1>12, Zenon DEF LedgerInv

(* The listing collect waits with is kept, or is a fresh reading of the kernel. *)
LEMMA QuietListing ==
    ASSUME TypeOK, HQuiet
    PROVE  /\ \A c \in Conns : KernelBytes(c)' = KernelBytes(c) \/ KernelBytes(c)' = 0
           /\ \/ conns' = conns
              \/ \A c \in DOMAIN conns' : conns'[c].bytes = KernelBytes(c) /\ KernelBytes(c)' = KernelBytes(c)
<1>1. CASE CollectList
  <2>1. ct' = ct
    BY <1>1, Zenon DEF CollectList, kernel
  <2>2. \A c \in DOMAIN conns' : conns'[c].bytes = KernelBytes(c)
    BY <1>1, Zenon DEF CollectList, ListEntries, KernelBytes
  <2> QED
    BY <2>1, <2>2, Zenon DEF KernelBytes
<1>2. CASE ~CollectList
  <2>1. conns' = conns
    BY <1>2, Zenon DEF HQuiet, Destroy, Tick, PodsChange, CollectPods, CollectListFails,
                CollectLock, CollectDone, Stop, HandlerMarshal, HandlerFails, loop
  <2>2. ct' = ct \/ (\E c \in Conns : Destroy(c)) \/ Tick
    BY <1>2, Zenon DEF HQuiet, PodsChange, CollectPods, CollectListFails,
                CollectLock, CollectDone, Stop, HandlerMarshal, HandlerFails, kernel
  <2>3. \A c \in Conns : KernelBytes(c)' = KernelBytes(c) \/ KernelBytes(c)' = 0
    BY <2>2, Zenon DEF Destroy, Tick, KernelBytes, Restrict
  <2> QED
    BY <2>1, <2>3, Zenon
<1> QED
  BY <1>1, <1>2, Zenon

(* A quiet step: counters may drop, a listing may be taken. *)
LEMMA QuietLedger ==
    ASSUME TypeOK, TypeOK', LedgerInv, HQuiet
    PROVE  LedgerInv'
<1>1. UNCHANGED <<traffic, skipped, counted, recounted, fresh, collected, received, lost>>
  BY Zenon DEF HQuiet, perConn, perGroup
<1>2. HTypeOK'
  BY <1>1, Zenon DEF LedgerInv, HTypeOK
<1>3. ASSUME NEW c \in Conns
      PROVE  /\ Ahead(c)' /\ FirstLife(c)'
             /\ traffic'[c] = KernelBytes(c)' => Settled(c)' = CachedBytes(c)' + recounted'[c]
  <2>1. /\ KernelBytes(c) \in Nat /\ CachedBytes(c) \in Nat
        /\ c \in DOMAIN conns => conns[c].bytes \in Nat
        /\ traffic[c] \in Nat /\ Settled(c) \in Nat /\ Due(c) \in Nat
    BY Numbers, Zenon DEF LedgerInv
  <2>2. /\ Ahead(c) /\ FirstLife(c)
        /\ traffic[c] = KernelBytes(c) => Settled(c) = CachedBytes(c) + recounted[c]
    BY Zenon DEF LedgerInv, AheadInv, FirstLifeInv, ExactOnFirstLife
  <2>3. KernelBytes(c)' = KernelBytes(c) \/ KernelBytes(c)' = 0
    BY QuietListing, Zenon
  <2>4. /\ CachedBytes(c)' = CachedBytes(c) /\ Settled(c)' = Settled(c) /\ Due(c)' = Due(c)
        /\ traffic' = traffic /\ recounted' = recounted
    BY <1>1, QuietFacts, Zenon DEF Settled, Due
  <2>5. traffic[c] = KernelBytes(c)' => KernelBytes(c)' = KernelBytes(c)
    BY <2>1, <2>2, <2>3 DEF FirstLife
  <2>6. KernelBytes(c)' <= traffic[c]
    BY <2>1, <2>2, <2>3 DEF FirstLife
  <2>7. Covered(Settled(c), Due(c), KernelBytes(c)', CachedBytes(c))
    BY <2>1, <2>2, <2>3, CoveredFacts DEF Ahead
  <2>8. CASE conns' = conns
    <3>1. c \in DOMAIN conns => Settled(c) + ClampedDelta(conns[c].bytes, CachedBytes(c)) \in Nat
      BY <2>1, ClampedFacts, Zenon
    <3>2. c \in DOMAIN conns => Covered(Settled(c) + ClampedDelta(conns[c].bytes, CachedBytes(c)),
                                        Due(c), KernelBytes(c)', conns[c].bytes)
      <4> DEFINE n == Settled(c) + ClampedDelta(conns[c].bytes, CachedBytes(c))
      <4> SUFFICES ASSUME c \in DOMAIN conns
                   PROVE  Covered(n, Due(c), KernelBytes(c)', conns[c].bytes)
        OBVIOUS
      <4>1. n \in Nat /\ Covered(n, Due(c), KernelBytes(c), conns[c].bytes)
        BY <3>1, <2>2, Zenon DEF Ahead
      <4> HIDE DEF n
      <4>2. Covered(n, Due(c), 0, conns[c].bytes)
        BY <4>1, <2>1, CoveredFacts, Zenon
      <4> QED
        BY <4>1, <4>2, <2>3, Zenon
    <3>3. Ahead(c)'
      BY <3>2, <2>4, <2>7, <2>8, Zenon DEF Ahead
    <3>4. FirstLife(c)'
      BY <2>2, <2>4, <2>5, <2>6, <2>8, Zenon DEF FirstLife
    <3> QED
      BY <3>3, <3>4, <2>2, <2>4, <2>5, Zenon
  <2>9. CASE \A e \in DOMAIN conns' :
                conns'[e].bytes = KernelBytes(e) /\ KernelBytes(e)' = KernelBytes(e)
    <3>1. c \in DOMAIN conns' => conns'[c].bytes = KernelBytes(c) /\ KernelBytes(c)' = KernelBytes(c)
      BY <2>9, Zenon
    <3>2. Covered(Settled(c) + ClampedDelta(KernelBytes(c), CachedBytes(c)),
                  Due(c), KernelBytes(c), KernelBytes(c))
      BY <2>1, <2>2, CoveredFacts, Zenon DEF Ahead
    <3>3. Ahead(c)'
      BY <3>1, <3>2, <2>4, <2>7, Zenon DEF Ahead
    <3>4. KernelBytes(c) <= KernelBytes(c)
      BY <2>1
    <3>5. FirstLife(c)'
      BY <3>1, <3>4, <2>2, <2>4, <2>5, <2>6, Zenon DEF FirstLife
    <3> QED
      BY <3>3, <3>5, <2>2, <2>4, <2>5, Zenon
  <2> QED
    BY <2>8, <2>9, QuietListing, Zenon
<1>4. AheadInv' /\ FirstLifeInv'
  BY <1>3, Zenon DEF AheadInv, FirstLifeInv
<1>5. ExactOnFirstLife'
  BY <1>3, Zenon DEF ExactOnFirstLife
<1>6. Conservation'
  BY <1>1, QuietFacts, Zenon DEF LedgerInv, Conservation, Shown
<1> QED
  BY <1>2, <1>4, <1>5, <1>6, Zenon DEF LedgerInv

(* Merging an entry: what it adds is what the listing is ahead of the cache. *)
LEMMA MergeLedger ==
    ASSUME TypeOK, LedgerInv, NEW c \in Conns, HMergeEntry(c)
    PROVE  LedgerInv'
<1> DEFINE d == ClampedDelta(conns[c].bytes, CachedBytes(c))
           g == entryGroupKey(c)
<1>1. MergeEntry(c)
  BY Zenon DEF HMergeEntry
<1>2. UNCHANGED <<traffic, recounted, received, lost>> /\ ct' = ct
  BY Zenon DEF HMergeEntry, MergeEntry, kernel
<1>m. /\ c \in DOMAIN conns
      /\ CachedBytes(c)' = conns[c].bytes
      /\ \A e \in Conns \ {c} : CachedBytes(e)' = CachedBytes(e)
      /\ DOMAIN conns' = DOMAIN conns \ {c}
      /\ \A e \in DOMAIN conns' : conns'[e] = conns[e]
      /\ Added(c) = IF SendTrafficDelta /\ ~firstCollectDone THEN 0 ELSE d
      /\ Pending(g)' = Pending(g) + Added(c)
      /\ \A h \in Groups \ {g} : Pending(h)' = Pending(h)
  BY <1>1, MergeFacts, Zenon
<1>r. /\ KernelBytes(c) \in Nat /\ CachedBytes(c) \in Nat /\ conns[c].bytes \in Nat
      /\ counted[c] \in Nat /\ skipped[c] \in Nat /\ recounted[c] \in Nat
  BY <1>m, Numbers, Zenon DEF LedgerInv
<1>d. d \in Nat
  BY <1>r DEF ClampedDelta
<1>a. Added(c) = IF SendTrafficDelta /\ ~firstCollectDone THEN 0 ELSE d
  BY <1>m, Zenon
<1>s. IF SendTrafficDelta /\ ~firstCollectDone
      THEN skipped' = [skipped EXCEPT ![c] = @ + d]
      ELSE skipped' = skipped
  BY Zenon DEF HMergeEntry
<1>i. Ahead(c) /\ FirstLife(c)
  BY Zenon DEF LedgerInv, AheadInv, FirstLifeInv
<1>o. \A e \in Conns \ {c} : Ahead(e) /\ FirstLife(e)
  BY Zenon DEF LedgerInv, AheadInv, FirstLifeInv
<1>g. g \in Groups /\ \A h \in Groups : Pending(h) \in Nat
  BY GroupOfConn, ReadingsType, Zenon
<1> HIDE DEF d, g
<1>3. Added(c) \in Nat /\ d - Added(c) \in Nat
  BY <1>a, <1>d
<1>4. /\ counted' = [counted EXCEPT ![c] = @ + Added(c)]
      /\ collected' = [collected EXCEPT ![g] = @ + Added(c)]
  BY Zenon DEF HMergeEntry, g
<1>5. skipped' = [skipped EXCEPT ![c] = @ + (d - Added(c))]
  <2>0. skipped \in [Conns -> Nat]
    BY Zenon DEF LedgerInv, HTypeOK
  <2>1. CASE SendTrafficDelta /\ ~firstCollectDone
    <3>1. d - Added(c) = d
      BY <2>1, <1>a, <1>d
    <3> QED
      BY <3>1, <2>1, <1>s, Zenon
  <2>2. CASE ~(SendTrafficDelta /\ ~firstCollectDone)
    <3>1. d - Added(c) = 0
      BY <2>2, <1>a, <1>d
    <3>2. skipped' = skipped
      BY <2>2, <1>s, Zenon
    <3> QED
      BY <3>1, <3>2, <2>0
  <2> QED
    BY <2>1, <2>2, Zenon
<1>6. fresh' \subseteq Conns
  BY Zenon DEF HMergeEntry, LedgerInv, HTypeOK
<1>7. HTypeOK'
  <2>1. counted' \in [Conns -> Nat] /\ collected' \in [Groups -> Nat]
    BY <1>3, <1>4, <1>g DEF LedgerInv, HTypeOK
  <2>2. skipped' \in [Conns -> Nat]
    BY <1>3, <1>5 DEF LedgerInv, HTypeOK
  <2> QED
    BY <1>2, <1>6, <2>1, <2>2, Zenon DEF LedgerInv, HTypeOK
<1>8. Settled(c)' = Settled(c) + d
  <2>1. counted'[c] = counted[c] + Added(c)
    BY <1>4, Zenon DEF LedgerInv, HTypeOK
  <2>2. skipped'[c] = skipped[c] + (d - Added(c))
    BY <1>5, Zenon DEF LedgerInv, HTypeOK
  <2> QED
    BY <2>1, <2>2, <1>3, <1>d, <1>r DEF Settled
<1>9. \A e \in Conns : KernelBytes(e)' = KernelBytes(e)
  BY <1>2, Zenon DEF KernelBytes
<1>10. /\ Ahead(c)' /\ FirstLife(c)'
       /\ traffic'[c] = KernelBytes(c)' =>
            Settled(c)' = CachedBytes(c)' + recounted'[c]
  <2>1. /\ c \in DOMAIN conns /\ c \notin DOMAIN conns'
        /\ CachedBytes(c)' = conns[c].bytes /\ KernelBytes(c)' = KernelBytes(c)
        /\ traffic' = traffic /\ recounted' = recounted /\ Due(c)' = Due(c)
    BY <1>2, <1>9, <1>m, ZenonT(30) DEF Due
  <2>2. Ahead(c)'
    <3>1. Covered(Settled(c) + d, Due(c), KernelBytes(c), conns[c].bytes)
      BY <2>1, <1>i, ZenonT(30) DEF Ahead, d
    <3> QED
      BY <3>1, <2>1, <1>8, ZenonT(30) DEF Ahead
  <2>3. FirstLife(c)'
    BY <2>1, <1>i, Zenon DEF FirstLife
  <2>4. ASSUME traffic[c] = KernelBytes(c)
        PROVE  Settled(c) + d = conns[c].bytes + recounted[c]
    <3>1. CachedBytes(c) <= conns[c].bytes
      BY <2>1, <2>4, <1>i, Zenon DEF FirstLife
    <3>2. d = conns[c].bytes - CachedBytes(c)
      BY <3>1, <1>r, Grown, Zenon DEF d
    <3>3. Settled(c) = CachedBytes(c) + recounted[c]
      BY <2>4, Zenon DEF LedgerInv, ExactOnFirstLife
    <3> QED
      BY <3>2, <3>3, <1>r
  <2> QED
    BY <2>1, <2>2, <2>3, <2>4, <1>8, Zenon
<1>11. ASSUME NEW e \in Conns \ {c}
       PROVE  /\ Ahead(e)' /\ FirstLife(e)'
              /\ traffic'[e] = KernelBytes(e)' =>
                   Settled(e)' = CachedBytes(e)' + recounted'[e]
  <2>1. /\ Settled(e)' = Settled(e) /\ Due(e)' = Due(e)
        /\ traffic' = traffic /\ recounted' = recounted
    BY <1>2, <1>4, <1>5, Zenon DEF LedgerInv, HTypeOK, Settled, Due
  <2>2. /\ CachedBytes(e)' = CachedBytes(e) /\ KernelBytes(e)' = KernelBytes(e)
        /\ e \in DOMAIN conns' => e \in DOMAIN conns /\ conns'[e] = conns[e]
    BY <1>9, <1>m, Zenon
  <2>3. traffic[e] = KernelBytes(e) => Settled(e) = CachedBytes(e) + recounted[e]
    BY Zenon DEF LedgerInv, ExactOnFirstLife
  <2>4. Ahead(e)'
    BY <2>1, <2>2, <1>o, ZenonT(30) DEF Ahead
  <2>5. FirstLife(e)'
    BY <2>1, <2>2, <1>o, ZenonT(30) DEF FirstLife
  <2> QED
    BY <2>1, <2>2, <2>3, <2>4, <2>5, Zenon
<1>12. AheadInv' /\ FirstLifeInv'
  BY <1>10, <1>11, Zenon DEF AheadInv, FirstLifeInv
<1>13. ExactOnFirstLife'
  BY <1>10, <1>11, Zenon DEF ExactOnFirstLife
<1>14. Conservation'
  <2> SUFFICES ASSUME NEW h \in Groups
               PROVE  collected'[h] = Pending(h)' + lost'[h]
                                      + (IF SendTrafficDelta THEN received'[h] ELSE 0)
    BY Zenon DEF Conservation, Shown
  <2>1. collected[h] = Pending(h) + lost[h] + (IF SendTrafficDelta THEN received[h] ELSE 0)
    BY Zenon DEF LedgerInv, Conservation, Shown
  <2>2. Pending(h) \in Nat /\ lost[h] \in Nat /\ received[h] \in Nat
    BY <1>g, Zenon DEF LedgerInv, HTypeOK
  <2>3. CASE h = g
    <3>1. Pending(h)' = Pending(h) + Added(c) /\ collected'[h] = collected[h] + Added(c)
      BY <2>3, <1>4, <1>m, ZenonT(30) DEF g, LedgerInv, HTypeOK
    <3> QED
      BY <3>1, <2>1, <2>2, <1>2, <1>3
  <2>4. CASE h # g
    <3>1. Pending(h)' = Pending(h) /\ collected'[h] = collected[h]
      BY <2>4, <1>4, <1>m, Zenon DEF g, LedgerInv, HTypeOK
    <3> QED
      BY <3>1, <2>1, <1>2, Zenon
  <2> QED
    BY <2>3, <2>4, Zenon
<1> QED
  BY <1>7, <1>12, <1>13, <1>14, Zenon DEF LedgerInv

(* cleanup and restart: what a baseline covered may be counted again, and  *)
(* what a dropped metric held is lost.                                     *)
LEMMA ForgetLedger ==
    ASSUME TypeOK, TypeOK', LockInv, LedgerInv, HCleanup \/ HRestart
    PROVE  LedgerInv'
<1>1. (Cleanup \/ Restart) /\ Forget
  BY Zenon DEF HCleanup, HRestart
<1>2. UNCHANGED <<traffic, skipped, counted, collected, received>>
  BY <1>1, Zenon DEF Forget
<1>f. /\ DOMAIN conns' = {}
      /\ \A c \in Conns : KernelBytes(c)' = KernelBytes(c)
      /\ \A c \in Conns : CachedBytes(c)' = IF c \in DOMAIN entriesCache' THEN CachedBytes(c) ELSE 0
      /\ \A g \in Groups : Pending(g)' = Pending(g) \/ Pending(g)' = 0
  BY <1>1, ForgetFacts, Zenon
<1>r. /\ \A c \in Conns : KernelBytes(c) \in Nat /\ CachedBytes(c) \in Nat
      /\ \A g \in Groups : Pending(g) \in Nat /\ Pending(g)' \in Nat
  BY ReadingsType, <1>f
<1>3. \A c \in Conns : Forgotten(c) = IF c \in DOMAIN entriesCache' THEN 0
                                      ELSE Earlier(CachedBytes(c), KernelBytes(c))
  BY KeyIsTuple, Zenon DEF Forgotten
<1>4. \A c \in Conns : Forgotten(c) \in Nat
  BY <1>3, <1>r DEF Earlier
<1>5. \A c \in Conns : recounted'[c] = recounted[c] + Forgotten(c)
  BY <1>1, Zenon DEF Forget
<1>6. \A g \in Groups : lost'[g] = lost[g] + (Pending(g) - Pending(g)')
  BY <1>1, Zenon DEF Forget
<1>7. HTypeOK'
  <2>1. recounted' \in [Conns -> Nat]
    BY <1>1, <1>4 DEF Forget, LedgerInv, HTypeOK
  <2>2. \A g \in Groups : Pending(g) - Pending(g)' \in Nat
    BY <1>f, <1>r
  <2>3. lost' \in [Groups -> Nat]
    BY <1>1, <2>2 DEF Forget, LedgerInv, HTypeOK
  <2>4. fresh' \subseteq Conns
    BY <1>1, Zenon DEF Forget, LedgerInv, HTypeOK
  <2> QED
    BY <1>2, <2>1, <2>3, <2>4, Zenon DEF LedgerInv, HTypeOK
<1>8. AheadInv'
  <2> SUFFICES ASSUME NEW c \in Conns PROVE Ahead(c)'
    BY Zenon DEF AheadInv
  <2>1. Covered(Settled(c), Due(c), KernelBytes(c), CachedBytes(c))
    BY Zenon DEF LedgerInv, AheadInv, Ahead
  <2>2. /\ KernelBytes(c) \in Nat /\ CachedBytes(c) \in Nat /\ Settled(c) \in Nat /\ Due(c) \in Nat
        /\ traffic[c] \in Nat /\ recounted[c] \in Nat /\ Forgotten(c) \in Nat
    BY <1>4, Numbers, Zenon DEF LedgerInv
  <2>3. /\ Settled(c)' = Settled(c) /\ KernelBytes(c)' = KernelBytes(c) /\ c \notin DOMAIN conns'
        /\ traffic'[c] = traffic[c] /\ recounted'[c] = recounted[c] + Forgotten(c)
    BY <1>2, <1>f, <1>5, Zenon DEF Settled
  <2>4. Due(c)' = Due(c) + Forgotten(c)
    <3>1. Due(c)' = traffic[c] + (recounted[c] + Forgotten(c)) /\ Due(c) = traffic[c] + recounted[c]
      BY <2>3, Zenon DEF Due
    <3> QED
      BY <3>1, <2>2, Sums
  <2>5. CASE c \in DOMAIN entriesCache'
    <3>1. CachedBytes(c)' = CachedBytes(c) /\ Forgotten(c) = 0
      BY <2>5, <1>f, <1>3, Zenon
    <3>2. Due(c)' = Due(c)
      BY <3>1, <2>2, <2>4
    <3> QED
      BY <3>1, <3>2, <2>1, <2>3, Zenon DEF Ahead
  <2>6. CASE c \notin DOMAIN entriesCache'
    <3>1. CachedBytes(c)' = 0 /\ Forgotten(c) = Earlier(CachedBytes(c), KernelBytes(c))
      BY <2>6, <1>f, <1>3, Zenon
    <3>2. Covered(Settled(c), Due(c) + Earlier(CachedBytes(c), KernelBytes(c)), KernelBytes(c), 0)
      BY <2>1, <2>2, CoveredFacts, Zenon
    <3> QED
      BY <3>1, <3>2, <2>3, <2>4, Zenon DEF Ahead
  <2> QED
    BY <2>5, <2>6, Zenon
<1>9. FirstLifeInv'
  <2> SUFFICES ASSUME NEW c \in Conns PROVE FirstLife(c)'
    BY Zenon DEF FirstLifeInv
  <2>1. FirstLife(c) /\ KernelBytes(c) \in Nat
    BY <1>r, Zenon DEF LedgerInv, FirstLifeInv
  <2>2. KernelBytes(c)' = KernelBytes(c) /\ (CachedBytes(c)' = CachedBytes(c) \/ CachedBytes(c)' = 0)
    BY <1>f, Zenon
  <2>3. traffic' = traffic /\ c \notin DOMAIN conns'
    BY <1>2, <1>f, Zenon
  <2> QED
    BY <2>1, <2>2, <2>3 DEF FirstLife
<1>10. ExactOnFirstLife'
  <2>1. ASSUME NEW c \in Conns, traffic[c] = KernelBytes(c)
        PROVE  Settled(c) = CachedBytes(c)' + (recounted[c] + Forgotten(c))
    <3>1. CachedBytes(c) <= KernelBytes(c) /\ Settled(c) = CachedBytes(c) + recounted[c]
      BY <2>1, Zenon DEF LedgerInv, FirstLifeInv, FirstLife, ExactOnFirstLife
    <3>2. CachedBytes(c) \in Nat /\ recounted[c] \in Nat /\ KernelBytes(c) \in Nat
      BY <1>r, Zenon DEF LedgerInv, HTypeOK
    <3>3. CASE c \in DOMAIN entriesCache'
      <4>1. CachedBytes(c)' = CachedBytes(c) /\ Forgotten(c) = 0
        BY <3>3, <1>3, <1>f, Zenon
      <4> QED
        BY <4>1, <3>1, <3>2
    <3>4. CASE c \notin DOMAIN entriesCache'
      <4>1. CachedBytes(c)' = 0 /\ Forgotten(c) = CachedBytes(c)
        BY <3>1, <3>2, <3>4, <1>3, <1>f, Grown, Zenon
      <4> QED
        BY <4>1, <3>1, <3>2
    <3> QED
      BY <3>3, <3>4, Zenon
  <2> QED
    BY <2>1, <1>2, <1>f, <1>5, Zenon DEF ExactOnFirstLife, Settled
<1>11. Conservation'
  BY <1>2, <1>r, <1>6 DEF LedgerInv, HTypeOK, Conservation, Shown
<1> QED
  BY <1>7, <1>8, <1>9, <1>10, <1>11, Zenon DEF LedgerInv

(* A response that was written: the batch is what waited, so in delta mode *)
(* all that waited moves, to the client or to what is lost.                *)
LEMMA WriteLedger ==
    ASSUME TypeOK, BatchInv, LedgerInv, HDelivered \/ HNotDelivered
    PROVE  LedgerInv'
<1>1. HandlerWrites
  BY Zenon DEF HDelivered, HNotDelivered
<1>2. UNCHANGED <<traffic, skipped, counted, recounted, collected, conns>>
  BY <1>1, Zenon DEF HDelivered, HNotDelivered, HandlerWrites, loop
<1>3. fresh' \subseteq Conns
  BY Zenon DEF HDelivered, HNotDelivered, LedgerInv, HTypeOK
<1>w. /\ \A c \in Conns : CachedBytes(c)' = CachedBytes(c) /\ KernelBytes(c)' = KernelBytes(c)
      /\ \A g \in Groups : Pending(g)' = IF SendTrafficDelta THEN 0 ELSE Pending(g)
  BY <1>1, WriteFacts, Zenon
<1>b. \A g \in Groups : IF g \in DOMAIN batch THEN batch[g] = Pending(g) ELSE Pending(g) = 0
  BY <1>1, Zenon DEF BatchInv, HandlerWrites, Pending
<1>r. \A g \in Groups : Pending(g) \in Nat
  BY ReadingsType, Zenon
<1>4. \/ /\ received' = [g \in Groups |-> IF SendTrafficDelta THEN received[g] + Pending(g) ELSE received'[g]]
         /\ received' \in [Groups -> Nat]
         /\ lost' = lost
      \/ /\ lost' = [g \in Groups |-> IF SendTrafficDelta THEN lost[g] + Pending(g) ELSE lost[g]]
         /\ lost' \in [Groups -> Nat]
         /\ received' = received
  <2>1. CASE HDelivered
    <3>1. received' = [g \in Groups |->
                         IF g \notin DOMAIN batch THEN received[g]
                         ELSE IF SendTrafficDelta THEN received[g] + batch[g] ELSE batch[g]]
      BY <2>1, Zenon DEF HDelivered
    <3>2. \A g \in Groups : received'[g] \in Nat
                          /\ (SendTrafficDelta => received'[g] = received[g] + Pending(g))
      BY <3>1, <1>b, <1>r DEF LedgerInv, HTypeOK
    <3> QED
      BY <2>1, <3>1, <3>2, Zenon DEF HDelivered
  <2>2. CASE HNotDelivered
    <3>1. CASE SendTrafficDelta
      <4>1. lost' = [g \in Groups |-> lost[g] + (IF g \in DOMAIN batch THEN batch[g] ELSE 0)]
        BY <2>2, <3>1, Zenon DEF HNotDelivered
      <4>2. \A g \in Groups : lost'[g] = lost[g] + Pending(g) /\ lost'[g] \in Nat
        BY <4>1, <1>b, <1>r DEF LedgerInv, HTypeOK
      <4> QED
        BY <2>2, <3>1, <4>1, <4>2, Zenon DEF HNotDelivered
    <3>2. CASE ~SendTrafficDelta
      BY <2>2, <3>2, Zenon DEF HNotDelivered, LedgerInv, HTypeOK
    <3> QED
      BY <3>1, <3>2, Zenon
  <2> QED
    BY <2>1, <2>2, Zenon
<1>5. HTypeOK'
  BY <1>2, <1>3, <1>4, Zenon DEF LedgerInv, HTypeOK
<1>s. \A c \in Conns : Settled(c)' = Settled(c) /\ Due(c)' = Due(c)
  BY <1>2, Zenon DEF Settled, Due
<1>6. AheadInv' /\ FirstLifeInv' /\ ExactOnFirstLife'
  <2>1. AheadInv'
    BY <1>2, <1>w, <1>s, Zenon DEF LedgerInv, AheadInv, Ahead
  <2>2. FirstLifeInv'
    BY <1>2, <1>w, ZenonT(30) DEF LedgerInv, FirstLifeInv, FirstLife
  <2>3. ExactOnFirstLife'
    BY <1>2, <1>w, <1>s, Zenon DEF LedgerInv, ExactOnFirstLife
  <2> QED
    BY <2>1, <2>2, <2>3, Zenon
<1>7. Conservation'
  BY <1>2, <1>4, <1>w, <1>r DEF LedgerInv, HTypeOK, Conservation, Shown
<1> QED
  BY <1>5, <1>6, <1>7, Zenon DEF LedgerInv
=============================================================================
