-------------------------- MODULE PodByIPCacheProofs --------------------------
(***************************************************************************)
(* The pod cache of the exporter: types, and no pod that is gone stays     *)
(* without something that will remove it.                                  *)
(***************************************************************************)
EXTENDS PodByIPCache, PodInformerProofs

\* The pods the cache holds.
Held ==
    {indexer[n] : n \in DOMAIN indexer} \cup {deletedPods[u] : u \in DOMAIN deletedPods}
        \cup {p \in {earliestPod} : gpc # "idle"}

\* GhostsAreTracked without UIDs: what can be resolved is in the API server or
\* on its way out.
Tracked ==
    breaks = 0 =>
        \A n \in DOMAIN indexer : Settles(indexer[n]) \/ indexer[n].uid \in DOMAIN deletedPods

\* Cleanup removes by name what it finds by UID: everybody has to agree on the
\* name of a UID.
IInv ==
    /\ InformerInv
    /\ TypeOK
    /\ Agree(Held \cup Objects, made)
    /\ Tracked

LEMMA InitIInv ==
    ASSUME Init
    PROVE  IInv
<1>1. InformerInv /\ Objects = {} /\ made = 0
  BY InformerStarts, Zenon DEF Init
<1>2. DOMAIN EmptyMap = {}
  BY Zenon DEF EmptyMap
<1>3. TypeOK /\ Held = {}
  BY <1>2, InformerAssumption DEF Init, TypeOK, Held, NoTime
<1>4. Tracked
  BY <1>2, Zenon DEF Init, Tracked
<1> QED
  BY <1>1, <1>3, <1>4, Zenon DEF IInv, Agree

LEMMA EnvironmentStep ==
    ASSUME IInv, Environment
    PROVE  IInv'
<1>1. /\ Cluster /\ UNCHANGED <<indexer, deletedPods, deletedPodsMu, cleanupNow, todo, gpc, earliestPod>>
  BY Zenon DEF Environment, cleanup, get
<1>2. InformerInv'
  BY <1>1, ClusterStep, Zenon DEF IInv
<1>3. TypeOK'
  BY <1>1, Zenon DEF IInv, TypeOK
<1>4. PICK K : K = Held
  OBVIOUS
<1>5. Held' = K
  BY <1>1, <1>4, Zenon DEF Held
<1>6. Agree(Held' \cup Objects', made')
  BY <1>1, <1>4, <1>5, ClusterAgrees, Zenon DEF IInv
<1>7. ASSUME breaks' = 0, NEW n \in DOMAIN indexer
      PROVE  (Settles(indexer[n]) \/ indexer[n].uid \in DOMAIN deletedPods)'
  <2>1. PICK p : p = indexer[n]
    OBVIOUS
  <2>2. breaks = 0
    BY <1>1, <1>7, BreaksGrow, Zenon DEF IInv
  <2>3. p \in Pod
    BY <2>1, Zenon DEF IInv, TypeOK
  <2>4. Settles(p) => Settles(p)'
    BY <1>1, <1>7, <2>3, ClusterSettles, Zenon DEF IInv
  <2>5. Settles(p) \/ p.uid \in DOMAIN deletedPods
    BY <2>1, <2>2, Zenon DEF IInv, Tracked
  <2>6. p = indexer'[n]
    BY <1>1, <2>1, Zenon
  <2> QED
    BY <1>1, <2>4, <2>5, <2>6, Zenon DEF Settles, Here, PendingEvent
<1>8. Tracked'
  BY <1>1, <1>7, Zenon DEF Tracked
<1> QED
  BY <1>2, <1>3, <1>6, <1>8, Zenon DEF IInv

-----------------------------------------------------------------------------
(* The handler. *)

LEMMA PutIndexer ==
    ASSUME NEW m, NEW p
    PROVE  /\ DOMAIN Put(m, p.name, p) = DOMAIN m \cup {p.name}
           /\ Put(m, p.name, p)[p.name] = p
           /\ \A n \in DOMAIN m \ {p.name} : Put(m, p.name, p)[n] = m[n]
  BY Zenon DEF Put

LEMMA PutUID ==
    ASSUME NEW m, NEW p
    PROVE  /\ DOMAIN Put(m, p.uid, p) = DOMAIN m \cup {p.uid}
           /\ Put(m, p.uid, p)[p.uid] = p
           /\ \A n \in DOMAIN m \ {p.uid} : Put(m, p.uid, p)[n] = m[n]
  BY Zenon DEF Put

LEMMA AddStep ==
    ASSUME IInv, onAddOrUpdate
    PROVE  IInv'
<1>1. PICK p : p = Head(events).pod
  OBVIOUS
<1>2. /\ Take("set") /\ indexer' = Put(indexer, p.name, p)
      /\ UNCHANGED <<deletedPods, deletedPodsMu, cleanupNow, todo, gpc, earliestPod>>
  BY <1>1, Zenon DEF onAddOrUpdate, cleanup, get
<1>3. /\ InformerInv' /\ p \in Objects /\ Objects' \subseteq Objects
      /\ UNCHANGED <<api, made, now, breaks>>
  BY <1>1, <1>2, TakeStep, Zenon DEF IInv
<1>4. p \in Pod
  BY <1>3, Zenon DEF IInv, Agree
<1>5. /\ DOMAIN indexer' = DOMAIN indexer \cup {p.name} /\ indexer'[p.name] = p
      /\ \A n \in DOMAIN indexer \ {p.name} : indexer'[n] = indexer[n]
  BY <1>2, PutIndexer, ZenonT(30)
<1>6. TypeOK'
  BY <1>2, <1>4, <1>5 DEF IInv, TypeOK
<1>7. Held' \cup Objects' \subseteq Held \cup Objects
  BY <1>2, <1>3, <1>5, Zenon DEF Held
<1>8. Agree(Held' \cup Objects', made')
  BY <1>3, <1>7, Zenon DEF IInv, Agree
<1>9. ASSUME breaks = 0, NEW n \in DOMAIN indexer'
      PROVE  (Settles(indexer[n]) \/ indexer[n].uid \in DOMAIN deletedPods)'
  <2>1. PICK q : q = indexer'[n]
    OBVIOUS
  <2>2. Settles(q) \/ q.uid \in DOMAIN deletedPods
    <3>1. CASE n = p.name
      BY <1>1, <1>2, <1>5, <1>9, <2>1, <3>1, TakeSettles DEF IInv
    <3>2. CASE n # p.name
      BY <1>5, <1>9, <2>1, <3>2, Zenon DEF IInv, Tracked
    <3> QED
      BY <3>1, <3>2, Zenon
  <2>3. Settles(q) => Settles(q)'
    BY <1>2, TakeSettles DEF IInv
  <2> QED
    BY <1>2, <2>1, <2>2, <2>3, Zenon DEF Settles, Here, PendingEvent
<1>10. Tracked'
  BY <1>3, <1>9, Zenon DEF Tracked
<1> QED
  BY <1>3, <1>6, <1>8, <1>10, Zenon DEF IInv

LEMMA DeleteStep ==
    ASSUME IInv, onDelete
    PROVE  IInv'
<1>1. PICK p : p = Head(events).pod
  OBVIOUS
<1>2. /\ Take("delete") /\ deletedPods' = Put(deletedPods, p.uid, p)
      /\ UNCHANGED <<indexer, deletedPodsMu, cleanupNow, todo, gpc, earliestPod>>
  BY <1>1, Zenon DEF onDelete, cleanup, get
<1>3. /\ InformerInv' /\ p \in Objects /\ Objects' \subseteq Objects
      /\ UNCHANGED <<api, made, now, breaks>>
  BY <1>1, <1>2, TakeStep, Zenon DEF IInv
<1>4. p \in Pod
  BY <1>3, Zenon DEF IInv, Agree
<1>5. /\ DOMAIN deletedPods' = DOMAIN deletedPods \cup {p.uid} /\ deletedPods'[p.uid] = p
      /\ \A u \in DOMAIN deletedPods \ {p.uid} : deletedPods'[u] = deletedPods[u]
  BY <1>2, PutUID, ZenonT(30)
<1>6. TypeOK'
  BY <1>2, <1>4, <1>5 DEF IInv, TypeOK
<1>7. Held' \cup Objects' \subseteq Held \cup Objects
  BY <1>2, <1>3, <1>5, Zenon DEF Held
<1>8. Agree(Held' \cup Objects', made')
  BY <1>3, <1>7, Zenon DEF IInv, Agree
<1>9. ASSUME breaks = 0, NEW n \in DOMAIN indexer
      PROVE  (Settles(indexer[n]) \/ indexer[n].uid \in DOMAIN deletedPods)'
  <2>1. PICK q : q = indexer[n]
    OBVIOUS
  <2>2. Settles(q) \/ q.uid \in DOMAIN deletedPods
    BY <1>9, <2>1, Zenon DEF IInv, Tracked
  <2>3. Settles(q) => Settles(q)' \/ q.uid = p.uid
    BY <1>1, <1>2, TakeSettles, Zenon DEF IInv
  <2> QED
    BY <1>2, <1>5, <2>1, <2>2, <2>3, Zenon DEF Settles, Here, PendingEvent
<1>10. Tracked'
  BY <1>2, <1>3, <1>9, Zenon DEF Tracked
<1> QED
  BY <1>3, <1>6, <1>8, <1>10, Zenon DEF IInv

LEMMA DeleteOtherStep ==
    ASSUME IInv, onDeleteOther
    PROVE  IInv'
<1>1. /\ Take("tombstone")
      /\ UNCHANGED <<indexer, deletedPods, deletedPodsMu, cleanupNow, todo, gpc, earliestPod>>
  BY Zenon DEF onDeleteOther, cleanup, get
<1>2. InformerInv' /\ Objects' \subseteq Objects /\ UNCHANGED <<made, breaks>>
  BY <1>1, TakeStep, Zenon DEF IInv
<1>3. TypeOK'
  BY <1>1, Zenon DEF IInv, TypeOK
<1>4. Held' \cup Objects' \subseteq Held \cup Objects
  BY <1>1, <1>2, Zenon DEF Held
<1>5. Agree(Held' \cup Objects', made')
  BY <1>2, <1>4, Zenon DEF IInv, Agree
<1>6. ASSUME breaks = 0, NEW n \in DOMAIN indexer
      PROVE  (Settles(indexer[n]) \/ indexer[n].uid \in DOMAIN deletedPods)'
  <2>1. PICK q : q = indexer[n]
    OBVIOUS
  <2>2. Settles(q) \/ q.uid \in DOMAIN deletedPods
    BY <1>6, <2>1, Zenon DEF IInv, Tracked
  <2>3. Settles(q) => Settles(q)'
    BY <1>1, TakeSettles DEF IInv
  <2> QED
    BY <1>1, <2>1, <2>2, <2>3, Zenon DEF Settles, Here, PendingEvent
<1>7. Tracked'
  BY <1>1, <1>2, <1>6, Zenon DEF Tracked
<1> QED
  BY <1>2, <1>3, <1>5, <1>7, Zenon DEF IInv

-----------------------------------------------------------------------------
(* Get and cleanup leave the informer alone. *)

LEMMA InformerStays ==
    ASSUME IInv, UNCHANGED informer
    PROVE  /\ InformerInv' /\ Objects' = Objects /\ UNCHANGED <<made, breaks, now>>
           /\ \A p : Settles(p) => Settles(p)'
<1>1. InformerInv'
  BY IdleStep, Zenon DEF IInv
<1>2. UNCHANGED <<now, made, api, breaks, store, events>>
  BY Zenon DEF informer
<1> QED
  BY <1>1, <1>2, Zenon DEF Objects, Settles, Here, PendingEvent

\* A step that takes names out of the indexer, and drops no UID of deletedPods
\* that the indexer still holds, keeps the invariant.
LEMMA ShrinkStep ==
    ASSUME IInv, UNCHANGED informer, TypeOK', Held' \subseteq Held,
           DOMAIN indexer' \subseteq DOMAIN indexer,
           \A n \in DOMAIN indexer' : indexer'[n] = indexer[n],
           \A n \in DOMAIN indexer' : indexer[n].uid \in DOMAIN deletedPods =>
                                          indexer[n].uid \in DOMAIN deletedPods'
    PROVE  IInv'
<1>1. /\ InformerInv' /\ Objects' = Objects /\ UNCHANGED <<made, breaks>>
      /\ \A p : Settles(p) => Settles(p)'
  BY InformerStays, Zenon
<1>2. Agree(Held' \cup Objects', made')
  BY <1>1 DEF IInv, Agree
<1>3. ASSUME breaks = 0, NEW n \in DOMAIN indexer'
      PROVE  (Settles(indexer[n]) \/ indexer[n].uid \in DOMAIN deletedPods)'
  <2>1. PICK q : q = indexer[n]
    OBVIOUS
  <2>2. n \in DOMAIN indexer /\ q = indexer'[n]
    BY <1>3, <2>1, Zenon
  <2>3. Settles(indexer[n]) \/ indexer[n].uid \in DOMAIN deletedPods
    BY <1>3, <2>2, Zenon DEF IInv, Tracked
  <2>4. Settles(q) \/ q.uid \in DOMAIN deletedPods
    BY <2>1, <2>3, Zenon
  <2> QED
    BY <1>1, <2>1, <2>2, <2>4 DEF Settles, Here, PendingEvent
<1>4. Tracked'
  BY <1>1, <1>3, Zenon DEF Tracked
<1> QED
  BY <1>1, <1>2, <1>4, Zenon DEF IInv

LEMMA GetLookupStep ==
    ASSUME IInv, NEW ip \in IPs, NEW p \in Earliest(ip), GetLookup(ip, p)
    PROVE  IInv'
<1>1. UNCHANGED <<informer, indexer, deletedPods, deletedPodsMu, cleanupNow, todo>>
  BY Zenon DEF GetLookup, cleanup
<1>2. \E n \in DOMAIN indexer : p = indexer[n]
  BY Zenon DEF Earliest, ByIndex
<1>3. p \in Pod
  BY <1>2, Zenon DEF IInv, TypeOK
<1>4. (gpc' = "delete" /\ earliestPod' = p) \/ UNCHANGED <<gpc, earliestPod>>
  BY Zenon DEF GetLookup, get
<1>5. TypeOK'
  BY <1>1, <1>3, <1>4, Zenon DEF IInv, TypeOK
<1>6. Held' \subseteq Held
  BY <1>1, <1>2, <1>4, Zenon DEF Held
<1> QED
  BY <1>1, <1>5, <1>6, ShrinkStep, Zenon

LEMMA GetDeleteStep ==
    ASSUME IInv, GetDelete
    PROVE  IInv'
<1>1. /\ gpc = "delete" /\ gpc' = "mark" /\ indexer' = Without(indexer, earliestPod.name)
      /\ UNCHANGED <<informer, deletedPods, deletedPodsMu, cleanupNow, todo, earliestPod>>
  BY Zenon DEF GetDelete, cleanup
<1>2. DOMAIN indexer' \subseteq DOMAIN indexer /\ \A n \in DOMAIN indexer' : indexer'[n] = indexer[n]
  BY <1>1, Zenon DEF Without
<1>3. TypeOK'
  BY <1>1, <1>2, Zenon DEF IInv, TypeOK
<1>4. Held' \subseteq Held
  BY <1>1, <1>2, Zenon DEF Held
<1> QED
  BY <1>1, <1>2, <1>3, <1>4, ShrinkStep, Zenon

LEMMA GetMarkStep ==
    ASSUME IInv, GetMark
    PROVE  IInv'
<1>1. /\ gpc = "mark" /\ gpc' = "idle" /\ deletedPods' = Put(deletedPods, earliestPod.uid, earliestPod)
      /\ UNCHANGED <<informer, indexer, deletedPodsMu, cleanupNow, todo>>
  BY Zenon DEF GetMark, cleanup
<1>2. PICK p : p = earliestPod
  OBVIOUS
<1>3. p \in Pod /\ p \in Held
  BY <1>1, <1>2, Zenon DEF IInv, TypeOK, Held
<1>4. /\ DOMAIN deletedPods' = DOMAIN deletedPods \cup {p.uid} /\ deletedPods'[p.uid] = p
      /\ \A u \in DOMAIN deletedPods \ {p.uid} : deletedPods'[u] = deletedPods[u]
  <2>1. deletedPods' = Put(deletedPods, p.uid, p)
    BY <1>1, <1>2, Zenon
  <2> QED
    BY <2>1, PutUID, ZenonT(30)
<1>5. TypeOK'
  BY <1>1, <1>3, <1>4 DEF IInv, TypeOK
<1>6. Held' \subseteq Held
  BY <1>1, <1>3, <1>4, Zenon DEF Held
<1> QED
  BY <1>1, <1>4, <1>5, <1>6, ShrinkStep, Zenon

LEMMA CleanupStartStep ==
    ASSUME IInv, CleanupStart
    PROVE  IInv'
<1>1. /\ deletedPodsMu' = "cleanup" /\ cleanupNow' = now /\ todo' = DOMAIN deletedPods
      /\ UNCHANGED <<informer, indexer, deletedPods, gpc, earliestPod>>
  BY Zenon DEF CleanupStart, get
<1>2. now \in 0..MaxTime
  BY DEF IInv, InformerInv, InformerTypes
<1>3. TypeOK'
  BY <1>1, <1>2, Zenon DEF IInv, TypeOK
<1>4. Held' = Held
  BY <1>1, Zenon DEF Held
<1> QED
  BY <1>1, <1>3, <1>4, ShrinkStep, Zenon

\* Who has the UID that is dropped has its name too.
LEMMA CleanupDropStep ==
    ASSUME IInv, NEW uid \in UIDs, CleanupDrop(uid)
    PROVE  IInv'
<1>1. PICK p : p = deletedPods[uid]
  OBVIOUS
<1>2. /\ uid \in todo /\ indexer' = Without(indexer, p.name)
      /\ deletedPods' = Without(deletedPods, uid) /\ todo' = todo \ {uid}
      /\ UNCHANGED <<informer, deletedPodsMu, cleanupNow, gpc, earliestPod>>
  BY <1>1, Zenon DEF CleanupDrop, get
<1>3. /\ DOMAIN indexer' = DOMAIN indexer \ {p.name}
      /\ \A n \in DOMAIN indexer' : indexer'[n] = indexer[n]
      /\ DOMAIN deletedPods' = DOMAIN deletedPods \ {uid}
      /\ \A u \in DOMAIN deletedPods' : deletedPods'[u] = deletedPods[u]
  BY <1>2, Zenon DEF Without
<1>4. uid \in DOMAIN deletedPods /\ p.uid = uid /\ p \in Held
  BY <1>1, <1>2, Zenon DEF IInv, TypeOK, Held
<1>5. \A n \in DOMAIN indexer : indexer[n].uid = uid => n = p.name
  BY <1>4 DEF IInv, TypeOK, Agree, Held
<1>6. TypeOK'
  BY <1>2, <1>3, Zenon DEF IInv, TypeOK
<1>7. Held' \subseteq Held
  BY <1>2, <1>3 DEF Held
<1>8. \A n \in DOMAIN indexer' : indexer[n].uid # uid
  BY <1>3, <1>5, Zenon
<1> QED
  BY <1>2, <1>3, <1>6, <1>7, <1>8, ShrinkStep, Zenon

LEMMA CleanupEndStep ==
    ASSUME IInv, CleanupEnd
    PROVE  IInv'
<1>1. /\ deletedPodsMu' = "free" /\ cleanupNow' = NoTime /\ todo' = {}
      /\ UNCHANGED <<informer, indexer, deletedPods, gpc, earliestPod>>
  BY Zenon DEF CleanupEnd, get
<1>2. TypeOK'
  BY <1>1, InformerAssumption DEF IInv, TypeOK, NoTime
<1>3. Held' = Held
  BY <1>1, Zenon DEF Held
<1> QED
  BY <1>1, <1>2, <1>3, ShrinkStep, Zenon

LEMMA NextIInv == IInv /\ [Next]_vars => IInv'
<1> SUFFICES ASSUME IInv, [Next]_vars PROVE IInv'
  OBVIOUS
<1>1. CASE UNCHANGED vars
  <2>1. UNCHANGED <<informer, indexer, deletedPods, deletedPodsMu, cleanupNow, todo, gpc, earliestPod>>
    BY <1>1, Zenon DEF vars, cleanup, get
  <2>2. TypeOK' /\ Held' = Held
    BY <2>1 DEF IInv, TypeOK, Held
  <2> QED
    BY <2>1, <2>2, ShrinkStep, Zenon
<1>2. CASE Environment
  BY <1>2, EnvironmentStep, Zenon
<1>3. CASE Handler
  BY <1>3, AddStep, DeleteStep, DeleteOtherStep, Zenon DEF Handler
<1>4. ASSUME NEW ip \in IPs, NEW p \in Earliest(ip), GetLookup(ip, p) PROVE IInv'
  BY <1>4, GetLookupStep, Zenon
<1>5. CASE GetDelete \/ GetMark
  BY <1>5, GetDeleteStep, GetMarkStep, Zenon
<1>6. CASE CleanupStart \/ CleanupStep
  BY <1>6, CleanupStartStep, CleanupDropStep, CleanupEndStep, Zenon
     DEF CleanupStep, CleanupBreak, CleanupDone
<1> QED
  BY <1>1, <1>2, <1>3, <1>4, <1>5, <1>6, Zenon DEF Next

LEMMA IInvImplies == IInv => TypeOK /\ GhostsAreTracked
<1> SUFFICES ASSUME IInv PROVE GhostsAreTracked
  BY Zenon DEF IInv
<1> SUFFICES ASSUME breaks = 0, NEW u \in UIDs, NEW n \in DOMAIN indexer, indexer[n].uid = u,
                    n \notin DOMAIN api \/ api[n].uid # u
             PROVE  u \in DOMAIN deletedPods \/ PendingEvent("delete", u)
  BY Zenon DEF GhostsAreTracked, Ghost
<1>1. indexer[n].name = n
  BY Zenon DEF IInv, TypeOK
<1>2. Settles(indexer[n]) \/ u \in DOMAIN deletedPods
  BY Zenon DEF IInv, Tracked
<1> QED
  BY <1>1, <1>2, Zenon DEF Settles, Here

LEMMA AlwaysIInv == Spec => []IInv
<1>1. Init => IInv
  BY InitIInv, Zenon
<1> QED
  BY <1>1, NextIInv, PTL DEF Spec

(* In every reachable state, for any number of pods, names, addresses and   *)
(* broken watches, the indexer files a pod under its own name, deletedPods  *)
(* under its own UID, and a round's range never meets a key that is gone.   *)
THEOREM CacheTypes == Spec => []TypeOK
BY AlwaysIInv, IInvImplies, PTL

(* While the watch holds, a pod that is gone but can still be resolved is   *)
(* known to deletedPods or its deletion waits for onDelete.                 *)
THEOREM CacheSafe == Spec => []GhostsAreTracked
BY AlwaysIInv, IInvImplies, PTL

-----------------------------------------------------------------------------
(* Retention. *)

Dated(p) == p.deleted # NoTime

\* e says that the pod s exists.
About(e, s) == e.type = "set" /\ e.pod.uid = s.uid

\* Of the notifications es, those before the k-th and the entries ix of the indexer:
\* once the handler has them, what it has of the pod s has the date of s.
Stamped(es, ix, k, s) ==
    \/ \E j \in 1..(k - 1) : About(es[j], s) /\ es[j].pod.deleted = s.deleted
    \/ /\ \A j \in 1..(k - 1) : ~About(es[j], s)
       /\ \A n \in DOMAIN ix : ix[n].uid = s.uid => ix[n].deleted = s.deleted

\* The handler sees the request before the deletion.
AllStamped ==
    /\ \A i \in 1..Len(events) :
           events[i].type = "delete" => Dated(events[i].pod) /\ Stamped(events, indexer, i, events[i].pod)
    /\ \A n \in DOMAIN store : Dated(store[n]) => Stamped(events, indexer, Len(events) + 1, store[n])

\* An entry of deletedPods has the date of the pod in the indexer, unless that one has
\* terminated.
DatesAgree ==
    \A u \in DOMAIN deletedPods :
        /\ Terminated(deletedPods[u]) \/ Dated(deletedPods[u])
        /\ \A n \in DOMAIN indexer :
               indexer[n].uid = u =>
                   \/ Terminated(indexer[n])
                   \/ Dated(deletedPods[u]) /\ indexer[n].deleted = deletedPods[u].deleted

\* Get removes terminated pods only.
GetTerminated ==
    gpc # "idle" =>
        /\ Terminated(earliestPod)
        /\ \A n \in DOMAIN indexer : indexer[n].uid = earliestPod.uid => Terminated(indexer[n])

RInv ==
    /\ IInv
    /\ InOrder(Held)
    /\ AllStamped /\ DatesAgree /\ GetTerminated
    /\ cleanupNow <= now

LEMMA RTypes ==
    ASSUME RInv
    PROVE  TypeOK /\ InformerTypes /\ cleanupNow <= now
  BY Zenon DEF RInv, IInv, InformerInv

\* More notifications, if those about s have its date.
LEMMA StampedMore ==
    ASSUME NEW es, NEW fs, NEW ix, NEW k \in Nat \ {0}, NEW m \in Nat, k <= m, NEW s,
           Stamped(es, ix, k, s), \A j \in 1..(k - 1) : fs[j] = es[j],
           \A j \in k..(m - 1) : About(fs[j], s) => fs[j].pod.deleted = s.deleted
    PROVE  Stamped(fs, ix, m, s)
<1>1. \A j \in 1..(k - 1) : j \in 1..(m - 1)
  OBVIOUS
<1>2. \A j \in 1..(m - 1) : j \in 1..(k - 1) \/ j \in k..(m - 1)
  OBVIOUS
<1>3. \A j \in k..(m - 1) : j \in 1..(m - 1)
  OBVIOUS
<1>4. CASE \E j \in 1..(k - 1) : About(es[j], s) /\ es[j].pod.deleted = s.deleted
  BY <1>1, <1>4, Zenon DEF Stamped
<1>5. CASE \E j \in k..(m - 1) : About(fs[j], s)
  BY <1>3, <1>5, Zenon DEF Stamped
<1>6. CASE /\ \A j \in 1..(k - 1) : ~About(es[j], s)
           /\ \A n \in DOMAIN ix : ix[n].uid = s.uid => ix[n].deleted = s.deleted
           /\ \A j \in k..(m - 1) : ~About(fs[j], s)
  BY <1>2, <1>6, Zenon DEF Stamped
<1> QED
  BY <1>4, <1>5, <1>6, Zenon DEF Stamped

\* Fewer entries.
LEMMA StampedLess ==
    ASSUME NEW es, NEW ix, NEW iy, NEW k, NEW s, Stamped(es, ix, k, s),
           DOMAIN iy \subseteq DOMAIN ix, \A n \in DOMAIN iy : iy[n] = ix[n]
    PROVE  Stamped(es, iy, k, s)
  BY Zenon DEF Stamped

\* The handler takes the first notification: one about s is what the indexer then has.
LEMMA StampedTaken ==
    ASSUME NEW es, NEW fs, NEW ix, NEW iy, NEW k \in Nat, k >= 2, NEW s, Stamped(es, ix, k, s),
           \A j \in 1..(k - 2) : fs[j] = es[j + 1],
           About(es[1], s) => \A n \in DOMAIN iy : iy[n].uid = s.uid => iy[n] = es[1].pod,
           ~About(es[1], s) => \A n \in DOMAIN iy : iy[n].uid = s.uid => n \in DOMAIN ix /\ iy[n] = ix[n],
           About(es[1], s) /\ es[1].pod.deleted = s.deleted =>
               \A j \in 2..(k - 1) : About(es[j], s) => es[j].pod.deleted = s.deleted
    PROVE  Stamped(fs, iy, k - 1, s)
<1>1. \A j \in 2..(k - 1) : j - 1 \in 1..((k - 1) - 1) /\ fs[j - 1] = es[j]
  BY DEF Stamped
<1>2. \A j \in 1..((k - 1) - 1) : j + 1 \in 2..(k - 1) /\ fs[j] = es[j + 1]
  OBVIOUS
<1>3. \A j \in 1..(k - 1) : j = 1 \/ j \in 2..(k - 1)
  OBVIOUS
<1>4. 1 \in 1..(k - 1) /\ \A j \in 2..(k - 1) : j \in 1..(k - 1)
  OBVIOUS
<1>5. CASE \E j \in 2..(k - 1) : About(es[j], s) /\ es[j].pod.deleted = s.deleted
  BY <1>1, <1>5 DEF Stamped
<1>6. CASE /\ About(es[1], s) /\ es[1].pod.deleted = s.deleted
           /\ \A j \in 2..(k - 1) : ~About(es[j], s)
  BY <1>2, <1>6, Zenon DEF Stamped
<1>7. CASE /\ \A j \in 1..(k - 1) : ~About(es[j], s)
           /\ \A n \in DOMAIN ix : ix[n].uid = s.uid => ix[n].deleted = s.deleted
  BY <1>2, <1>4, <1>7 DEF Stamped
<1> QED
  BY <1>3, <1>5, <1>6, <1>7, Zenon DEF Stamped

-----------------------------------------------------------------------------
(* The API server and the informer. *)

LEMMA AnnounceStamps ==
    ASSUME RInv, NEW e, Announces(e), UNCHANGED indexer
    PROVE  AllStamped'
<1>1. PICK es, fs, ix, l : es = events /\ fs = events' /\ ix = indexer /\ l = Len(events)
  BY Zenon
<1>2. /\ l \in Nat /\ Len(fs) = l + 1 /\ fs[l + 1] = e /\ e \in Event
      /\ \A j \in 1..l : fs[j] = es[j]
  BY <1>1, AppendEvents, RTypes DEF Announces, InformerTypes
<1>3. ASSUME NEW k \in 1..(l + 1), NEW s, Stamped(es, ix, k, s) PROVE Stamped(fs, ix, k, s)
  <2>1. k \in Nat \ {0} /\ (\A j \in 1..(k - 1) : fs[j] = es[j]) /\ k..(k - 1) = {}
    BY <1>2
  <2> QED
    BY <1>3, <2>1, StampedMore
<1>4. ASSUME NEW i \in 1..Len(fs), fs[i].type = "delete"
      PROVE  Dated(fs[i].pod) /\ Stamped(fs, ix, i, fs[i].pod)
  <2>1. CASE i \in 1..l
    <3>1. fs[i] = es[i] /\ es[i].type = "delete" /\ i \in 1..(l + 1)
      BY <1>2, <1>4, <2>1, Zenon
    <3>2. Dated(es[i].pod) /\ Stamped(es, ix, i, es[i].pod)
      BY <1>1, <2>1, <3>1, Zenon DEF RInv, AllStamped
    <3> QED
      BY <1>3, <3>1, <3>2, Zenon
  <2>2. CASE i = l + 1
    <3>1. e.type = "delete" /\ e.pod \in Stored /\ Dated(e.pod)
      BY <1>2, <1>4, <2>2, Zenon DEF Announces, Dated
    <3>2. Stamped(es, ix, l + 1, e.pod)
      BY <1>1, <3>1, Zenon DEF RInv, AllStamped, Stored
    <3> QED
      BY <1>2, <1>3, <2>2, <3>1, <3>2, Zenon
  <2> QED
    BY <1>2, <2>1, <2>2
<1>5. ASSUME NEW n \in DOMAIN store', Dated(store'[n]) PROVE Stamped(fs, ix, l + 2, store'[n])
  <2>1. PICK s : s = store'[n]
    OBVIOUS
  <2>2. CASE e.type = "set" /\ s = e.pod
    <3>1. l + 1 \in 1..((l + 2) - 1)
      BY <1>2
    <3> QED
      BY <1>2, <2>1, <2>2, <3>1, Zenon DEF Stamped, About
  <2>3. CASE n \in DOMAIN store /\ s = store[n] /\ (e.type = "set" => s.uid # e.pod.uid)
    <3>1. Stamped(es, ix, l + 1, s)
      BY <1>1, <1>5, <2>1, <2>3, Zenon DEF RInv, AllStamped
    <3>2. ~About(e, s)
      BY <2>3, Zenon DEF About
    <3>3. /\ l + 1 \in Nat \ {0} /\ l + 2 \in Nat /\ l + 1 <= l + 2
          /\ \A j \in 1..((l + 1) - 1) : fs[j] = es[j]
          /\ \A j \in (l + 1)..((l + 2) - 1) : ~About(fs[j], s)
      BY <1>2, <3>2
    <3> QED
      BY <2>1, <3>1, <3>3, StampedMore
  <2> QED
    BY <2>1, <2>2, <2>3, Zenon DEF Announces
<1>6. indexer' = ix /\ (l + 1) + 1 = l + 2
  BY <1>1, <1>2
<1> QED
  BY <1>1, <1>2, <1>4, <1>5, <1>6, Zenon DEF AllStamped

LEMMA RelistStamps ==
    ASSUME RInv, Relist, UNCHANGED indexer
    PROVE  AllStamped'
<1>0. InformerInv
  BY Zenon DEF RInv, IInv
<1>1. PICK es, fs, ix, l, m : es = events /\ fs = events' /\ ix = indexer /\ l = Len(events) /\ m = Len(fs)
  BY Zenon
<1>2. /\ l \in Nat /\ m \in Nat /\ l <= m
      /\ \A j \in 1..l : fs[j] = es[j]
      /\ \A j \in 1..m : \/ j \in 1..l
                         \/ fs[j].type = "set" /\ \E n \in Changed : fs[j].pod = api[n]
                         \/ fs[j].type = "tombstone"
      /\ \A n \in Changed : \E j \in 1..m : fs[j].type = "set" /\ fs[j].pod = api[n]
  <2>1. Relisted(es, fs)
    BY <1>0, <1>1, RelistEvents, Zenon
  <2>2. fs \in Seq(Event) /\ l = Len(es) /\ m = Len(fs)
    BY <1>1, <2>1, Zenon DEF Relisted
  <2>3. l \in Nat /\ m \in Nat /\ l <= m
    BY <2>1, <2>2 DEF Relisted
  <2>4. \A j \in 1..l : fs[j] = es[j]
    BY <2>1, <2>2, Zenon DEF Relisted
  <2>5. \A j \in 1..m : \/ j \in 1..l
                        \/ fs[j].type = "set" /\ \E n \in Changed : fs[j].pod = api[n]
                        \/ fs[j].type = "tombstone"
    BY <2>1, <2>2, Zenon DEF Relisted
  <2>6. \A n \in Changed : \E j \in 1..m : fs[j].type = "set" /\ fs[j].pod = api[n]
    BY <2>1, <2>2, Zenon DEF Relisted
  <2> QED
    BY <2>3, <2>4, <2>5, <2>6, Zenon
<1>3. ASSUME NEW i \in 1..m, fs[i].type = "delete"
      PROVE  Dated(fs[i].pod) /\ Stamped(fs, ix, i, fs[i].pod)
  <2>1. i \in 1..l /\ fs[i] = es[i] /\ es[i].type = "delete"
    BY <1>2, <1>3, Zenon
  <2>2. Dated(es[i].pod) /\ Stamped(es, ix, i, es[i].pod)
    BY <1>1, <2>1, Zenon DEF RInv, AllStamped
  <2>3. i \in Nat \ {0} /\ (\A j \in 1..(i - 1) : fs[j] = es[j]) /\ i..(i - 1) = {}
    BY <1>2, <2>1
  <2> QED
    BY <2>1, <2>2, <2>3, StampedMore
<1>4. ASSUME NEW n \in DOMAIN api, Dated(api[n]) PROVE Stamped(fs, ix, m + 1, api[n])
  <2>1. PICK s : s = api[n]
    OBVIOUS
  <2>2. CASE n \in Changed
    <3>1. PICK j \in 1..m : fs[j].type = "set" /\ fs[j].pod = s
      BY <1>2, <2>1, <2>2, Zenon
    <3>2. j \in 1..((m + 1) - 1) /\ About(fs[j], s) /\ fs[j].pod.deleted = s.deleted
      BY <1>2, <3>1 DEF About
    <3> QED
      BY <2>1, <3>2, Zenon DEF Stamped
  <2>3. CASE n \notin Changed
    <3>1. n \in DOMAIN store /\ store[n] = s
      BY <2>1, <2>3, Zenon DEF Changed
    <3>2. Stamped(es, ix, l + 1, s)
      BY <1>1, <1>4, <2>1, <3>1, Zenon DEF RInv, AllStamped
    <3>3. ASSUME NEW j \in (l + 1)..((m + 1) - 1) PROVE ~About(fs[j], s)
      <4>1. j \in 1..m /\ j \notin 1..l
        BY <1>2
      <4>2. ASSUME NEW k \in Changed, fs[j].pod = api[k] PROVE fs[j].pod.uid # s.uid
        <5>1. k \in DOMAIN api /\ k # n
          BY <2>3, Zenon DEF Changed
        <5> QED
          BY <1>0, <2>1, <4>2, <5>1, OtherUID, Zenon DEF RInv, IInv
      <4> QED
        BY <1>2, <4>1, <4>2, Zenon DEF About
    <3>4. /\ l + 1 \in Nat \ {0} /\ m + 1 \in Nat /\ l + 1 <= m + 1
          /\ \A j \in 1..((l + 1) - 1) : fs[j] = es[j]
      BY <1>2
    <3> QED
      BY <2>1, <3>2, <3>3, <3>4, StampedMore, Zenon
  <2> QED
    BY <2>2, <2>3, Zenon
<1>5. indexer' = ix /\ store' = api
  BY <1>1, Zenon DEF Relist
<1> QED
  BY <1>1, <1>3, <1>4, <1>5, Zenon DEF AllStamped

LEMMA EnvironmentRetains ==
    ASSUME RInv, Environment
    PROVE  RInv'
<1>1. Cluster /\ UNCHANGED <<indexer, deletedPods, deletedPodsMu, cleanupNow, todo, gpc, earliestPod>>
  BY Zenon DEF Environment, cleanup, get
<1>2. InformerInv /\ Agree(Held \cup Objects, made) /\ InOrder(Held) /\ cleanupNow \in Nat
  <2>1. InformerInv /\ Agree(Held \cup Objects, made) /\ InOrder(Held)
    BY Zenon DEF RInv, IInv
  <2>2. cleanupNow \in Nat
    BY InformerAssumption, RTypes DEF TypeOK
  <2> QED
    BY <2>1, <2>2
<1>3. IInv'
  BY EnvironmentStep, Zenon DEF RInv
<1>4. PICK K : K = Held
  OBVIOUS
<1>5. Held' = K
  BY <1>1, <1>4, Zenon DEF Held
<1>6. InOrder(K)' /\ (UNCHANGED <<events, store>> \/ Relist \/ \E e : Announces(e))
  BY <1>1, <1>2, <1>4, ClusterOrder, ClusterAnnounces, Zenon
<1>7. AllStamped'
  <2>1. CASE UNCHANGED <<events, store>>
    BY <1>1, <2>1, Zenon DEF RInv, AllStamped
  <2> QED
    BY <1>1, <1>6, <2>1, AnnounceStamps, RelistStamps, Zenon
<1>8. DatesAgree' /\ GetTerminated'
  BY <1>1, Zenon DEF RInv, DatesAgree, GetTerminated
<1>9. cleanupNow' <= now'
  BY <1>1, <1>2, TimePasses DEF RInv
<1>10. InOrder(Held)'
  BY <1>5, <1>6, Zenon DEF InOrder, Before, Queued, Stored, Served
<1> QED
  BY <1>3, <1>7, <1>8, <1>9, <1>10, Zenon DEF RInv

-----------------------------------------------------------------------------
(* The handler. *)

LEMMA TakeStamps ==
    ASSUME RInv, NEW type, Take(type),
           \/ type = "set" /\ indexer' = Put(indexer, Head(events).pod.name, Head(events).pod)
           \/ type # "set" /\ UNCHANGED indexer
    PROVE  AllStamped'
<1>1. PICK es, fs, ix, iy, l, p : /\ es = events /\ fs = events' /\ ix = indexer /\ iy = indexer'
                                  /\ l = Len(events) /\ p = Head(events).pod
  BY Zenon
<1>2. /\ es[1].type = type /\ es[1].pod = p /\ l \in Nat /\ l >= 1 /\ Len(fs) = l - 1
      /\ \A j \in 1..Len(fs) : fs[j] = es[j + 1]
      /\ store' = store
  <2>1. es \in Seq(Event) /\ es # <<>> /\ fs = Tail(es) /\ Head(es).type = type /\ store' = store
    BY <1>1, RTypes, Zenon DEF Take, InformerTypes
  <2> QED
    BY <1>1, <2>1, TakeEvents
<1>3. p \in Held \cup Objects /\ \A n \in DOMAIN ix : ix[n] \in Held \cup Objects /\ ix[n].name = n
  <2>1. InformerInv /\ TypeOK
    BY Zenon DEF RInv, IInv
  <2> QED
    BY <1>1, <2>1, TakeStep DEF TypeOK, Held
<1>4. \A n \in DOMAIN ix : ix[n].uid = p.uid => n = p.name
  BY <1>3, Zenon DEF RInv, IInv, Agree
<1>5. /\ type = "set" => \A n \in DOMAIN iy : (n = p.name /\ iy[n] = p)
                                                \/ (n # p.name /\ n \in DOMAIN ix /\ iy[n] = ix[n])
      /\ type # "set" => iy = ix
  <2>1. type = "set" => iy = Put(ix, p.name, p)
    BY <1>1, Zenon
  <2>2. PICK x : x = p.name
    OBVIOUS
  <2> QED
    BY <1>1, <2>1, <2>2, Zenon DEF Put
<1>6. ASSUME NEW k \in 2..(l + 1), NEW s, Dated(s), Stamped(es, ix, k, s) PROVE Stamped(fs, iy, k - 1, s)
  <2>1. k \in Nat /\ k >= 2 /\ \A j \in 1..(k - 2) : fs[j] = es[j + 1]
    BY <1>2
  <2>2. About(es[1], s) => \A n \in DOMAIN iy : iy[n].uid = s.uid => iy[n] = es[1].pod
    BY <1>2, <1>4, <1>5, Zenon DEF About
  <2>3. ~About(es[1], s) => \A n \in DOMAIN iy : iy[n].uid = s.uid => n \in DOMAIN ix /\ iy[n] = ix[n]
    BY <1>2, <1>5, Zenon DEF About
  <2>4. ASSUME About(es[1], s), es[1].pod.deleted = s.deleted, NEW j \in 2..(k - 1), About(es[j], s)
        PROVE  es[j].pod.deleted = s.deleted
    <3>1. 1 \in 1..l /\ j \in 1..l /\ 1 < j
      BY <1>2
    <3>2. Later(es[1].pod, es[j].pod)
      BY <1>1, <3>1, Zenon DEF RInv, InOrder
    <3> QED
      BY <1>6, <2>4, <3>2, Zenon DEF Later, About, Dated
  <2> QED
    BY <1>6, <2>1, <2>2, <2>3, <2>4, StampedTaken, Zenon
<1>7. ASSUME NEW i \in 1..Len(fs), fs[i].type = "delete"
      PROVE  Dated(fs[i].pod) /\ Stamped(fs, iy, i, fs[i].pod)
  <2>1. fs[i] = es[i + 1] /\ i + 1 \in 1..l /\ i + 1 \in 2..(l + 1) /\ (i + 1) - 1 = i
    BY <1>2
  <2>2. Dated(es[i + 1].pod) /\ Stamped(es, ix, i + 1, es[i + 1].pod)
    BY <1>1, <1>7, <2>1, Zenon DEF RInv, AllStamped
  <2>3. Stamped(fs, iy, (i + 1) - 1, es[i + 1].pod)
    BY <1>6, <2>1, <2>2, Zenon
  <2> QED
    BY <2>1, <2>2, <2>3, Zenon
<1>8. ASSUME NEW n \in DOMAIN store, Dated(store[n]) PROVE Stamped(fs, iy, Len(fs) + 1, store[n])
  <2>1. PICK s : s = store[n]
    OBVIOUS
  <2>2. Dated(s) /\ Stamped(es, ix, l + 1, s)
    BY <1>1, <1>8, <2>1, Zenon DEF RInv, AllStamped
  <2>3. l + 1 \in 2..(l + 1) /\ (l + 1) - 1 = Len(fs) + 1
    BY <1>2
  <2> QED
    BY <1>6, <2>1, <2>2, <2>3, Zenon
<1> QED
  BY <1>1, <1>2, <1>7, <1>8, Zenon DEF AllStamped

LEMMA TakeRetains ==
    ASSUME RInv, IInv', NEW type, Take(type), Held' \subseteq Held \cup {Head(events).pod},
           AllStamped', DatesAgree', GetTerminated', UNCHANGED cleanupNow
    PROVE  RInv'
<1>1. PICK L : L = Held'
  OBVIOUS
<1>2. PICK K : K = Held
  OBVIOUS
<1>3. InOrder(L)'
  BY <1>1, <1>2, TakeOrder, Zenon DEF RInv, IInv
<1>4. InOrder(Held)'
  BY <1>1, <1>3, Zenon DEF InOrder, Before, Queued, Stored, Served
<1>5. now' = now
  BY Zenon DEF Take
<1> QED
  BY <1>4, <1>5, Zenon DEF RInv

\* What the handler takes is later than what the cache has.
LEMMA HeadLater ==
    ASSUME RInv, NEW type, Take(type), NEW q \in Held
    PROVE  Later(q, Head(events).pod)
<1>1. Head(events) = events[1] /\ Len(events) \in Nat /\ 1 \in 1..Len(events)
  BY TakeEvents, RTypes DEF Take, InformerTypes
<1>2. Head(events).pod \in Queued
  BY <1>1, Zenon DEF Queued
<1> QED
  BY <1>2, Zenon DEF RInv, InOrder, Before

LEMMA TerminatedPhase ==
    ASSUME NEW p \in Pod
    PROVE  Terminated(p) <=> p.phase = "Succeeded"
  BY Zenon DEF Terminated, Pod, Phases

LEMMA AddRetains ==
    ASSUME RInv, onAddOrUpdate
    PROVE  RInv'
<1>1. PICK p : p = Head(events).pod
  OBVIOUS
<1>2. /\ Take("set") /\ indexer' = Put(indexer, p.name, p)
      /\ UNCHANGED <<deletedPods, deletedPodsMu, cleanupNow, todo, gpc, earliestPod>>
  BY <1>1, Zenon DEF onAddOrUpdate, cleanup, get
<1>3. \A n \in DOMAIN indexer' : indexer'[n] = p \/ (n \in DOMAIN indexer /\ indexer'[n] = indexer[n])
  BY <1>2, Zenon DEF Put
<1>4. IInv'
  BY AddStep, Zenon DEF RInv
<1>5. Held' \subseteq Held \cup {p}
  BY <1>2, <1>3, Zenon DEF Held
<1>6. AllStamped'
  BY <1>1, <1>2, TakeStamps, Zenon
<1>7. \A q \in Held : q \in Pod /\ Later(q, p)
  BY <1>1, <1>2, HeadLater, Zenon DEF RInv, IInv, Agree
<1>8. p \in Pod
  BY <1>1, <1>2, TakeStep, Zenon DEF RInv, IInv, Agree
<1>9. ASSUME NEW u \in DOMAIN deletedPods, NEW n \in DOMAIN indexer', indexer'[n].uid = u
      PROVE  \/ Terminated(indexer'[n])
             \/ Dated(deletedPods[u]) /\ indexer'[n].deleted = deletedPods[u].deleted
  <2>1. CASE n \in DOMAIN indexer /\ indexer'[n] = indexer[n]
    BY <1>9, <2>1, Zenon DEF RInv, DatesAgree
  <2>2. CASE indexer'[n] = p
    <3>1. PICK q : q = deletedPods[u]
      OBVIOUS
    <3>2. q \in Held /\ q.uid = u /\ (Terminated(q) \/ Dated(q))
      BY <3>1, Zenon DEF RInv, IInv, TypeOK, DatesAgree, Held
    <3>3. Later(q, p) /\ p.uid = u /\ q \in Pod
      BY <1>7, <1>9, <2>2, <3>2, Zenon
    <3>4. (Terminated(q) <=> q.phase = "Succeeded") /\ (Terminated(p) <=> p.phase = "Succeeded")
      BY <1>8, <3>3, TerminatedPhase, Zenon
    <3>5. Terminated(p) \/ (Dated(q) /\ p.deleted = q.deleted)
      BY <3>2, <3>3, <3>4, Zenon DEF Later, Dated
    <3> QED
      BY <2>2, <3>1, <3>5, Zenon
  <2> QED
    BY <1>3, <2>1, <2>2, Zenon
<1>10. DatesAgree'
  BY <1>2, <1>9, Zenon DEF RInv, DatesAgree, Terminated, Dated
<1>11. ASSUME gpc # "idle", NEW n \in DOMAIN indexer', indexer'[n].uid = earliestPod.uid
       PROVE  Terminated(indexer'[n])
  <2>1. CASE n \in DOMAIN indexer /\ indexer'[n] = indexer[n]
    BY <1>11, <2>1, Zenon DEF RInv, GetTerminated
  <2>2. CASE indexer'[n] = p
    <3>1. earliestPod \in Held /\ Terminated(earliestPod)
      BY <1>11, Zenon DEF RInv, GetTerminated, Held
    <3> QED
      BY <1>7, <1>8, <1>11, <2>2, <3>1, TerminatedPhase, Zenon DEF Later
  <2> QED
    BY <1>3, <2>1, <2>2, Zenon
<1>12. GetTerminated'
  BY <1>2, <1>11, Zenon DEF RInv, GetTerminated, Terminated
<1> QED
  BY <1>1, <1>2, <1>4, <1>5, <1>6, <1>10, <1>12, TakeRetains, Zenon

LEMMA DeleteRetains ==
    ASSUME RInv, onDelete
    PROVE  RInv'
<1>1. PICK p : p = Head(events).pod
  OBVIOUS
<1>2. /\ Take("delete") /\ deletedPods' = Put(deletedPods, p.uid, p)
      /\ UNCHANGED <<indexer, deletedPodsMu, cleanupNow, todo, gpc, earliestPod>>
  BY <1>1, Zenon DEF onDelete, cleanup, get
<1>3. /\ DOMAIN deletedPods' = DOMAIN deletedPods \cup {p.uid} /\ deletedPods'[p.uid] = p
      /\ \A u \in DOMAIN deletedPods \ {p.uid} : deletedPods'[u] = deletedPods[u]
  BY <1>2, PutUID, ZenonT(30)
<1>4. IInv'
  BY DeleteStep, Zenon DEF RInv
<1>5. Held' \subseteq Held \cup {p}
  BY <1>2, <1>3, Zenon DEF Held
<1>6. AllStamped'
  BY <1>2, TakeStamps, Zenon
<1>7. Dated(p) /\ \A n \in DOMAIN indexer : indexer[n].uid = p.uid => indexer[n].deleted = p.deleted
  <2>1. Head(events) = events[1] /\ 1 \in 1..Len(events) /\ Head(events).type = "delete"
    BY <1>2, TakeEvents, RTypes DEF Take, InformerTypes
  <2>2. Dated(p) /\ Stamped(events, indexer, 1, p)
    BY <1>1, <2>1, Zenon DEF RInv, AllStamped
  <2>3. 1..(1 - 1) = {}
    OBVIOUS
  <2> QED
    BY <2>2, <2>3, Zenon DEF Stamped
<1>8. DatesAgree'
  BY <1>2, <1>3, <1>7 DEF RInv, DatesAgree, Terminated, Dated
<1>9. GetTerminated'
  BY <1>2, Zenon DEF RInv, GetTerminated, Terminated
<1> QED
  BY <1>1, <1>2, <1>4, <1>5, <1>6, <1>8, <1>9, TakeRetains, Zenon

LEMMA DeleteOtherRetains ==
    ASSUME RInv, onDeleteOther
    PROVE  RInv'
<1>1. /\ Take("tombstone")
      /\ UNCHANGED <<indexer, deletedPods, deletedPodsMu, cleanupNow, todo, gpc, earliestPod>>
  BY Zenon DEF onDeleteOther, cleanup, get
<1>2. IInv'
  BY DeleteOtherStep, Zenon DEF RInv
<1>3. Held' \subseteq Held
  BY <1>1, Zenon DEF Held
<1>4. AllStamped'
  BY <1>1, TakeStamps, Zenon
<1>5. DatesAgree' /\ GetTerminated'
  BY <1>1, Zenon DEF RInv, DatesAgree, GetTerminated, Terminated, Dated
<1> QED
  BY <1>1, <1>2, <1>3, <1>4, <1>5, TakeRetains, Zenon

-----------------------------------------------------------------------------
(* Get and cleanup. *)

\* A step that leaves the informer alone and takes pods out.
LEMMA ShrinkRetains ==
    ASSUME RInv, IInv', UNCHANGED informer, Held' \subseteq Held,
           DOMAIN indexer' \subseteq DOMAIN indexer,
           \A n \in DOMAIN indexer' : indexer'[n] = indexer[n],
           DatesAgree', GetTerminated', cleanupNow' = cleanupNow \/ cleanupNow' <= now
    PROVE  RInv'
<1>1. UNCHANGED <<now, made, api, linked, store, events>>
  BY Zenon DEF informer
<1>2. InOrder(Held)'
  <2>1. PICK K, L, Q, S, A : K = Held /\ L = Held' /\ Q = Queued /\ S = Stored /\ A = Served
    OBVIOUS
  <2>2. Queued' = Q /\ Stored' = S /\ Served' = A
    BY <1>1, <2>1, Zenon DEF Queued, Stored, Served
  <2>3. Before(K, Q) /\ Before(K \cup Q, S) /\ Before(K \cup Q \cup S, A)
    BY <2>1, Zenon DEF RInv, InOrder
  <2>4. Before(L, Q) /\ Before(L \cup Q, S) /\ Before(L \cup Q \cup S, A)
    BY <2>1, <2>3, Zenon DEF Before
  <2>5. (Before(Held, Queued) /\ Before(Held \cup Queued, Stored) /\ Before(Held \cup Queued \cup Stored, Served))'
    BY <2>1, <2>2, <2>4, Zenon DEF Before
  <2> QED
    BY <1>1, <2>5, ZenonT(30) DEF RInv, InOrder, Later
<1>3. PICK es, ix, iy : es = events /\ ix = indexer /\ iy = indexer'
  OBVIOUS
<1>4. ASSUME NEW k, NEW s, Stamped(es, ix, k, s) PROVE Stamped(es, iy, k, s)
  BY <1>3, <1>4, StampedLess, Zenon
<1>5. AllStamped'
  BY <1>1, <1>3, <1>4, Zenon DEF RInv, AllStamped
<1> QED
  BY <1>1, <1>2, <1>5, Zenon DEF RInv

LEMMA GetLookupRetains ==
    ASSUME RInv, NEW ip \in IPs, NEW p \in Earliest(ip), GetLookup(ip, p)
    PROVE  RInv'
<1>1. UNCHANGED <<informer, indexer, deletedPods, deletedPodsMu, cleanupNow, todo>>
  BY Zenon DEF GetLookup, cleanup
<1>2. PICK k \in DOMAIN indexer : p = indexer[k]
  BY Zenon DEF Earliest, ByIndex
<1>3. (gpc' = "delete" /\ earliestPod' = p /\ Terminated(p)) \/ UNCHANGED <<gpc, earliestPod>>
  BY Zenon DEF GetLookup, get
<1>4. IInv'
  BY GetLookupStep, Zenon DEF RInv
<1>5. Held' \subseteq Held
  BY <1>1, <1>2, <1>3, Zenon DEF Held
<1>6. DatesAgree'
  BY <1>1, Zenon DEF RInv, DatesAgree, Terminated, Dated
<1>7. \A n \in DOMAIN indexer : indexer[n] \in Held /\ indexer[n].name = n
  BY RTypes, Zenon DEF TypeOK, Held
<1>8. \A n \in DOMAIN indexer : indexer[n].uid = p.uid => n = k
  BY <1>2, <1>7, Zenon DEF RInv, IInv, Agree
<1>9. GetTerminated'
  <2>1. CASE gpc' = "delete" /\ earliestPod' = p /\ Terminated(p)
    BY <1>1, <1>2, <1>8, <2>1, Zenon DEF GetTerminated, Terminated
  <2>2. CASE UNCHANGED <<gpc, earliestPod>>
    BY <1>1, <2>2, Zenon DEF RInv, GetTerminated, Terminated
  <2> QED
    BY <1>3, <2>1, <2>2, Zenon
<1> QED
  BY <1>1, <1>4, <1>5, <1>6, <1>9, ShrinkRetains, Zenon

LEMMA GetDeleteRetains ==
    ASSUME RInv, GetDelete
    PROVE  RInv'
<1>1. /\ gpc = "delete" /\ gpc' = "mark" /\ indexer' = Without(indexer, earliestPod.name)
      /\ UNCHANGED <<informer, deletedPods, deletedPodsMu, cleanupNow, todo, earliestPod>>
  BY Zenon DEF GetDelete, cleanup
<1>2. DOMAIN indexer' \subseteq DOMAIN indexer /\ \A n \in DOMAIN indexer' : indexer'[n] = indexer[n]
  BY <1>1, Zenon DEF Without
<1>3. IInv'
  BY GetDeleteStep, Zenon DEF RInv
<1>4. Held' \subseteq Held
  BY <1>1, <1>2, Zenon DEF Held
<1>5. DatesAgree'
  BY <1>1, <1>2 DEF RInv, DatesAgree, Terminated, Dated
<1>6. GetTerminated'
  BY <1>1, <1>2, Zenon DEF RInv, GetTerminated, Terminated
<1> QED
  BY <1>1, <1>2, <1>3, <1>4, <1>5, <1>6, ShrinkRetains

LEMMA GetMarkRetains ==
    ASSUME RInv, GetMark
    PROVE  RInv'
<1>1. PICK p : p = earliestPod
  OBVIOUS
<1>2. /\ gpc = "mark" /\ gpc' = "idle" /\ deletedPods' = Put(deletedPods, p.uid, p)
      /\ UNCHANGED <<informer, indexer, deletedPodsMu, cleanupNow, todo>>
  BY <1>1, Zenon DEF GetMark, cleanup
<1>3. /\ p \in Held /\ Terminated(p)
      /\ \A n \in DOMAIN indexer : indexer[n].uid = p.uid => Terminated(indexer[n])
  BY <1>1, <1>2, Zenon DEF RInv, GetTerminated, Held
<1>4. /\ DOMAIN deletedPods' = DOMAIN deletedPods \cup {p.uid} /\ deletedPods'[p.uid] = p
      /\ \A u \in DOMAIN deletedPods \ {p.uid} : deletedPods'[u] = deletedPods[u]
  BY <1>2, PutUID, Zenon
<1>5. IInv'
  BY GetMarkStep, Zenon DEF RInv
<1>6. Held' \subseteq Held
  BY <1>2, <1>3, <1>4, Zenon DEF Held
<1>7. DatesAgree'
  BY <1>2, <1>3, <1>4 DEF RInv, DatesAgree, Terminated, Dated
<1>8. GetTerminated'
  BY <1>2, Zenon DEF GetTerminated
<1> QED
  BY <1>2, <1>5, <1>6, <1>7, <1>8, ShrinkRetains, Zenon

LEMMA CleanupStartRetains ==
    ASSUME RInv, CleanupStart
    PROVE  RInv'
<1>1. /\ cleanupNow' = now
      /\ UNCHANGED <<informer, indexer, deletedPods, gpc, earliestPod>>
  BY Zenon DEF CleanupStart, get
<1>2. now \in Nat
  BY InformerAssumption, RTypes DEF InformerTypes
<1>3. IInv' /\ Held' = Held
  BY <1>1, CleanupStartStep, Zenon DEF RInv, Held
<1>4. DatesAgree' /\ GetTerminated'
  BY <1>1 DEF RInv, DatesAgree, GetTerminated, Terminated, Dated
<1> QED
  BY <1>1, <1>2, <1>3, <1>4, ShrinkRetains

LEMMA CleanupDropRetains ==
    ASSUME RInv, NEW uid \in UIDs, CleanupDrop(uid)
    PROVE  RInv'
<1>1. /\ indexer' = Without(indexer, deletedPods[uid].name)
      /\ deletedPods' = Without(deletedPods, uid)
      /\ UNCHANGED <<informer, cleanupNow, gpc, earliestPod>>
  BY Zenon DEF CleanupDrop, get
<1>2. /\ DOMAIN indexer' \subseteq DOMAIN indexer
      /\ \A n \in DOMAIN indexer' : indexer'[n] = indexer[n]
      /\ DOMAIN deletedPods' \subseteq DOMAIN deletedPods
      /\ \A u \in DOMAIN deletedPods' : deletedPods'[u] = deletedPods[u]
  BY <1>1, Zenon DEF Without
<1>3. IInv'
  BY CleanupDropStep, Zenon DEF RInv
<1>4. Held' \subseteq Held
  BY <1>1, <1>2 DEF Held
<1>5. DatesAgree'
  BY <1>2 DEF RInv, DatesAgree, Terminated, Dated
<1>6. GetTerminated'
  BY <1>1, <1>2, Zenon DEF RInv, GetTerminated, Terminated
<1> QED
  BY <1>1, <1>2, <1>3, <1>4, <1>5, <1>6, ShrinkRetains, Zenon

LEMMA CleanupEndRetains ==
    ASSUME RInv, CleanupEnd
    PROVE  RInv'
<1>1. cleanupNow' = 0 /\ UNCHANGED <<informer, indexer, deletedPods, gpc, earliestPod>>
  BY Zenon DEF CleanupEnd, get, NoTime
<1>2. now \in Nat
  BY InformerAssumption, RTypes DEF InformerTypes
<1>3. IInv' /\ Held' = Held
  BY <1>1, CleanupEndStep, Zenon DEF RInv, Held
<1>4. DatesAgree' /\ GetTerminated'
  BY <1>1 DEF RInv, DatesAgree, GetTerminated, Terminated, Dated
<1> QED
  BY <1>1, <1>2, <1>3, <1>4, ShrinkRetains

LEMMA NextRInv == RInv /\ [Next]_vars => RInv'
<1> SUFFICES ASSUME RInv, [Next]_vars PROVE RInv'
  OBVIOUS
<1>1. CASE UNCHANGED vars
  <2>1. UNCHANGED <<informer, indexer, deletedPods, cleanupNow, gpc, earliestPod>>
    BY <1>1, Zenon DEF vars, cleanup, get
  <2>2. IInv' /\ Held' = Held
    BY <2>1, NextIInv, Zenon DEF RInv, Held
  <2>3. DatesAgree' /\ GetTerminated'
    BY <2>1 DEF RInv, DatesAgree, GetTerminated, Terminated, Dated
  <2> QED
    BY <2>1, <2>2, <2>3, ShrinkRetains, Zenon
<1>2. CASE Environment
  BY <1>2, EnvironmentRetains, Zenon
<1>3. CASE Handler
  BY <1>3, AddRetains, DeleteRetains, DeleteOtherRetains, Zenon DEF Handler
<1>4. ASSUME NEW ip \in IPs, NEW p \in Earliest(ip), GetLookup(ip, p) PROVE RInv'
  BY <1>4, GetLookupRetains, Zenon
<1>5. CASE GetDelete \/ GetMark
  BY <1>5, GetDeleteRetains, GetMarkRetains, Zenon
<1>6. CASE CleanupStart \/ CleanupStep
  BY <1>6, CleanupStartRetains, CleanupDropRetains, CleanupEndRetains, Zenon
     DEF CleanupStep, CleanupBreak, CleanupDone
<1> QED
  BY <1>1, <1>2, <1>3, <1>4, <1>5, <1>6, Zenon DEF Next

-----------------------------------------------------------------------------
(* The action property. *)

LEMMA InitRInv ==
    ASSUME Init
    PROVE  RInv
<1>1. DOMAIN EmptyMap = {}
  BY Zenon DEF EmptyMap
<1>2. /\ IInv /\ events = <<>> /\ store = EmptyMap /\ api = EmptyMap /\ indexer = EmptyMap
      /\ deletedPods = EmptyMap /\ gpc = "idle" /\ cleanupNow = 0 /\ now = 1
  BY InitIInv, Zenon DEF Init, InformerInit, NoTime
<1>3. Len(events) = 0 /\ 1..Len(events) = {}
  BY <1>2
<1>4. Held = {} /\ Queued = {} /\ Stored = {} /\ Served = {}
  BY <1>1, <1>2, <1>3 DEF Held, Queued, Stored, Served
<1>5. InOrder(Held)
  BY <1>2, <1>3, <1>4, Zenon DEF InOrder, Before
<1>6. AllStamped /\ DatesAgree /\ GetTerminated
  BY <1>1, <1>2, <1>3, Zenon DEF AllStamped, DatesAgree, GetTerminated
<1> QED
  BY <1>2, <1>5, <1>6 DEF RInv

\* Who is no namesake and has the name is the pod.
LEMMA NoNamesake ==
    ASSUME NEW p, ~HasNamesake(p)
    PROVE  /\ \A u \in DOMAIN deletedPods : deletedPods[u].name = p.name => deletedPods[u].uid = p.uid
           /\ \A i \in DOMAIN events : events[i].pod.name = p.name => events[i].pod.uid = p.uid
           /\ gpc # "idle" /\ earliestPod.name = p.name => earliestPod.uid = p.uid
  BY Zenon DEF HasNamesake

\* What RetainsDeleted says of a step.
Retains ==
    \A n \in DOMAIN indexer :
        LET p == indexer[n]
        IN  /\ ~Terminated(p) /\ ~HasNamesake(p)
            /\ p.deleted = NoTime \/ now - p.deleted <= PodTimeout
            => n \in DOMAIN indexer' /\ indexer'[n].uid = p.uid

LEMMA NextRetains ==
    ASSUME RInv, Next
    PROVE  Retains
<1> SUFFICES ASSUME NEW n \in DOMAIN indexer, ~Terminated(indexer[n]), ~HasNamesake(indexer[n]),
                    indexer[n].deleted = NoTime \/ now - indexer[n].deleted <= PodTimeout
             PROVE  n \in DOMAIN indexer' /\ indexer'[n].uid = indexer[n].uid
  BY Zenon DEF Retains
<1>1. PICK p : p = indexer[n]
  OBVIOUS
<1>2. p \in Pod /\ p.name = n
  BY <1>1, RTypes, Zenon DEF TypeOK
<1>3. CASE UNCHANGED indexer
  BY <1>3, Zenon
<1>4. CASE onAddOrUpdate
  <2>1. PICK q : q = Head(events).pod
    OBVIOUS
  <2>2. Take("set") /\ indexer' = Put(indexer, q.name, q)
    BY <1>4, <2>1, Zenon DEF onAddOrUpdate
  <2>3. Head(events) = events[1] /\ 1 \in DOMAIN events
    BY <2>2, TakeEvents, RTypes DEF Take, InformerTypes
  <2>4. q.name = n => q.uid = p.uid
    BY <1>1, <1>2, <2>1, <2>3, NoNamesake
  <2>5. n \in DOMAIN indexer' /\ (indexer'[n] = indexer[n] \/ (q.name = n /\ indexer'[n] = q))
    BY <2>2, Zenon DEF Put
  <2> QED
    BY <1>1, <2>4, <2>5, Zenon
<1>5. CASE GetDelete
  <2>1. gpc # "idle" /\ indexer' = Without(indexer, earliestPod.name)
    BY <1>5, Zenon DEF GetDelete
  <2>2. earliestPod.name = n => earliestPod.uid = p.uid
    BY <1>1, <1>2, <2>1, NoNamesake, Zenon
  <2>3. earliestPod.name # n
    BY <1>1, <2>1, <2>2, Zenon DEF RInv, GetTerminated
  <2> QED
    BY <2>1, <2>3, Zenon DEF Without
<1>6. ASSUME NEW uid \in UIDs, CleanupDrop(uid) PROVE n \in DOMAIN indexer' /\ indexer'[n].uid = indexer[n].uid
  <2>1. PICK q : q = deletedPods[uid]
    OBVIOUS
  <2>2. uid \in DOMAIN deletedPods /\ ~NotTimedOut(q) /\ indexer' = Without(indexer, q.name)
    BY <1>6, <2>1, RTypes, Zenon DEF CleanupDrop, TypeOK
  <2>3. q \in Pod /\ q.uid = uid
    BY <2>1, <2>2, RTypes, Zenon DEF TypeOK
  <2>4. CASE q.name = n
    <3>1. p.uid = uid
      BY <1>1, <1>2, <2>1, <2>2, <2>3, <2>4, NoNamesake, Zenon
    <3>2. Dated(q) /\ p.deleted = q.deleted
      BY <1>1, <2>1, <2>2, <3>1, Zenon DEF RInv, DatesAgree
    <3>3. q.deleted # NoTime /\ ~(cleanupNow - q.deleted <= PodTimeout) /\ now - q.deleted <= PodTimeout
      BY <1>1, <2>2, <3>2, Zenon DEF NotTimedOut, Dated
    <3>4. now \in Int /\ cleanupNow \in Int /\ q.deleted \in Int /\ PodTimeout \in Int /\ cleanupNow <= now
      <4>1. now \in Int
        BY InformerAssumption, RTypes DEF InformerTypes
      <4>2. cleanupNow \in Int
        BY InformerAssumption, RTypes DEF TypeOK
      <4>3. q.deleted \in Int
        BY <2>3 DEF Pod
      <4> QED
        BY <4>1, <4>2, <4>3, TimeoutAssumption, RTypes
    <3> QED
      BY <3>3, <3>4
  <2>5. CASE q.name # n
    BY <2>2, <2>5, Zenon DEF Without
  <2> QED
    BY <2>4, <2>5, Zenon
<1>7. CASE Environment
  BY <1>3, <1>7, Zenon DEF Environment
<1>8. CASE onDelete \/ onDeleteOther
  BY <1>3, <1>8, Zenon DEF onDelete, onDeleteOther
<1>9. ASSUME NEW ip \in IPs, NEW q \in Earliest(ip), GetLookup(ip, q) PROVE UNCHANGED indexer
  BY <1>9, Zenon DEF GetLookup
<1>10. CASE GetMark \/ CleanupStart \/ CleanupEnd
  BY <1>3, <1>10, Zenon DEF GetMark, CleanupStart, CleanupEnd
<1> QED
  BY <1>3, <1>4, <1>5, <1>6, <1>7, <1>8, <1>9, <1>10
     DEF Next, Handler, CleanupStep, CleanupBreak, CleanupDone

(* No step takes a pod out of the indexer before podTimeout after its       *)
(* DeletionTimestamp, unless the pod has terminated or another pod of its   *)
(* name is around: for any number of pods, names, broken watches and        *)
(* resyncs, and any interleaving of the handler, Get and cleanup.           *)
THEOREM DeletedPodsAreRetained == Spec => RetainsDeleted
<1>1. Init => RInv
  BY InitRInv, Zenon
<1>2. RInv /\ [Next]_vars => [Retains]_vars
  BY NextRetains, Zenon
<1>3. RetainsDeleted <=> [][Retains]_vars
  BY Zenon DEF RetainsDeleted, Retains
<1> QED
  BY <1>1, <1>2, <1>3, NextRInv, PTL DEF Spec

=============================================================================
