---------------------------- MODULE WatcherProofs ----------------------------
(***************************************************************************)
(* kube/watcher.go: the pods of the collector's node, and what the         *)
(* exporter's build of a metric reads from its caches.                     *)
(***************************************************************************)
EXTENDS RunningPodsCache, PodInformerProofs, Attribution

-----------------------------------------------------------------------------
(* RunningPodsCache. *)

\* NoLeak needs the notification that a pod ends with to come after the ones
\* that add it: InformerInv.
PodsInv ==
    /\ InformerInv
    /\ TypeOK
    /\ breaks = 0 => \A u \in DOMAIN pods : Settles(pods[u])

LEMMA PodsStart ==
    ASSUME Init
    PROVE  PodsInv
<1>1. InformerInv
  BY InformerStarts, Zenon DEF Init
<1>2. DOMAIN pods = {}
  BY Zenon DEF Init, EmptyMap
<1> QED
  BY <1>1, <1>2, Zenon DEF PodsInv, TypeOK, Get

LEMMA PodsEnvironmentStep ==
    ASSUME PodsInv, Environment
    PROVE  PodsInv'
<1>1. Cluster /\ UNCHANGED pods
  BY Zenon DEF Environment
<1>2. InformerInv'
  BY <1>1, ClusterStep, Zenon DEF PodsInv
<1>3. TypeOK'
  BY <1>1 DEF PodsInv, TypeOK, Get
<1>4. ASSUME breaks' = 0, NEW u \in DOMAIN pods PROVE Settles(pods[u])'
  <2>1. PICK p : p = pods[u]
    OBVIOUS
  <2>2. breaks = 0
    BY <1>1, <1>4, BreaksGrow, Zenon DEF PodsInv
  <2>3. p \in Pod /\ Settles(p)
    BY <2>1, <2>2, Zenon DEF PodsInv, TypeOK
  <2>4. Settles(p)'
    BY <1>1, <1>4, <2>3, ClusterSettles, Zenon DEF PodsInv
  <2>5. p = pods'[u]
    BY <1>1, <2>1, Zenon
  <2> QED
    BY <2>4, <2>5, Zenon DEF Settles, Here, PendingEvent
<1> QED
  BY <1>1, <1>2, <1>3, <1>4, Zenon DEF PodsInv

\* onAddOrUpdate
LEMMA PodsAddStep ==
    ASSUME PodsInv, onAddOrUpdate
    PROVE  PodsInv'
<1>1. PICK p : p = Head(events).pod
  OBVIOUS
<1>2. Take("set") /\ pods' = IF Ignored(p) THEN pods ELSE Put(pods, p.uid, p)
  BY <1>1, Zenon DEF onAddOrUpdate
<1>3. InformerInv' /\ UNCHANGED breaks /\ p \in Pod
  BY <1>1, <1>2, TakeStep, Zenon DEF PodsInv, Event
<1>4. \A u \in DOMAIN pods' : \/ u \in DOMAIN pods /\ pods'[u] = pods[u]
                              \/ u = p.uid /\ pods'[u] = p /\ ~Ignored(p)
  BY <1>2, Zenon DEF Put
<1>5. ~Ignored(p) => p.ip \in IPs
  BY <1>3, Zenon DEF Ignored, Pod
<1>6. TypeOK'
  <2>1. \A u \in DOMAIN pods' : pods'[u] \in Pod /\ pods'[u].uid = u /\ pods'[u].ip \in IPs
    BY <1>3, <1>4, <1>5, Zenon DEF PodsInv, TypeOK, Get
  <2> QED
    BY <2>1, Zenon DEF TypeOK, Get
<1>7. ASSUME breaks = 0, NEW u \in DOMAIN pods' PROVE Settles(pods[u])'
  <2>1. PICK q : q = pods'[u]
    OBVIOUS
  <2>2. Settles(p)
    BY <1>1, <1>2, <1>7, TakeSettles DEF PodsInv
  <2>3. Settles(q)
    BY <1>4, <1>7, <2>1, <2>2, Zenon DEF PodsInv
  <2>4. Settles(q)'
    BY <1>2, <2>3, TakeSettles DEF PodsInv
  <2> QED
    BY <2>1, <2>4, Zenon DEF Settles, Here, PendingEvent
<1> QED
  BY <1>3, <1>6, <1>7, Zenon DEF PodsInv

\* onDelete, of a pod or of a tombstone.
LEMMA PodsDeleteStep ==
    ASSUME PodsInv, onDelete \/ onDeleteOther
    PROVE  PodsInv'
<1>1. PICK type : Take(type) /\ \/ type = "delete" /\ pods' = Without(pods, Head(events).pod.uid)
                                \/ type # "delete" /\ UNCHANGED pods
  BY DEF onDelete, onDeleteOther
<1>2. InformerInv' /\ UNCHANGED breaks
  BY <1>1, TakeStep, Zenon DEF PodsInv
<1>3. /\ \A u \in DOMAIN pods' : u \in DOMAIN pods /\ pods'[u] = pods[u]
      /\ type = "delete" => Head(events).pod.uid \notin DOMAIN pods'
  BY <1>1, Zenon DEF Without
<1>4. TypeOK'
  BY <1>3 DEF PodsInv, TypeOK, Get
<1>5. ASSUME breaks = 0, NEW u \in DOMAIN pods' PROVE Settles(pods[u])'
  <2>1. PICK q : q = pods'[u]
    OBVIOUS
  <2>2. u \in DOMAIN pods /\ pods[u].uid = u /\ Settles(pods[u]) /\ q = pods[u]
    BY <1>3, <1>5, <2>1, Zenon DEF PodsInv, TypeOK
  <2>3. Settles(q) /\ q.uid = u
    BY <2>2, Zenon
  <2>4. Settles(q)'
    BY <1>1, <1>3, <1>5, <2>3, TakeSettles DEF PodsInv
  <2> QED
    BY <2>1, <2>4, Zenon DEF Settles, Here, PendingEvent
<1> QED
  BY <1>2, <1>4, <1>5, Zenon DEF PodsInv

LEMMA PodsNextStep == PodsInv /\ [Next]_vars => PodsInv'
<1> SUFFICES ASSUME PodsInv, [Next]_vars PROVE PodsInv'
  OBVIOUS
<1>1. CASE UNCHANGED vars
  <2>1. UNCHANGED <<informer, pods>>
    BY <1>1, Zenon DEF vars
  <2>2. InformerInv' /\ UNCHANGED <<api, events, breaks>>
    BY <2>1, IdleStep, Zenon DEF PodsInv, informer
  <2>3. TypeOK'
    BY <2>1 DEF PodsInv, TypeOK, Get
  <2> QED
    BY <2>1, <2>2, <2>3, Zenon DEF PodsInv, Settles, Here, PendingEvent
<1>2. CASE Environment
  BY <1>2, PodsEnvironmentStep, Zenon
<1>3. CASE Handler
  BY <1>3, PodsAddStep, PodsDeleteStep, Zenon DEF Handler
<1> QED
  BY <1>1, <1>2, <1>3, Zenon DEF Next

LEMMA PodsInvariance == Spec => []PodsInv
<1>1. Init => PodsInv
  BY PodsStart, Zenon
<1> QED
  BY <1>1, PodsNextStep, PTL DEF Spec

(* In every reachable state, for any number of pods, names and broken       *)
(* watches, every pod Get returns has an address and is filed under its     *)
(* UID.                                                                     *)
THEOREM RunningPodsTypes == Spec => []TypeOK
<1>1. PodsInv => TypeOK
  BY Zenon DEF PodsInv
<1> QED
  BY <1>1, PodsInvariance, PTL

(* While the watch holds, a pod the collector has is in the API server or   *)
(* its deletion waits for onDelete.                                         *)
THEOREM RunningPodsSafe == Spec => []NoLeak
<1>1. PodsInv => NoLeak
  <2> SUFFICES ASSUME PodsInv, breaks = 0, NEW u \in DOMAIN pods
               PROVE  (\E n \in DOMAIN api : api[n].uid = u) \/ PendingEvent("delete", u)
    BY Zenon DEF NoLeak
  <2>1. Settles(pods[u]) /\ pods[u].uid = u
    BY Zenon DEF PodsInv, TypeOK
  <2> QED
    BY <2>1, Zenon DEF Settles, Here
<1> QED
  BY <1>1, PodsInvariance, PTL

-----------------------------------------------------------------------------
(* What RunningIsSeen needs besides fairness: nothing the informer stores   *)
(* is lost on the way to Get, whatever the watch went through.              *)

Sets(e, p) == e.type = "set" /\ e.pod = p

\* The notifications s about the pod p end with p itself; if there are none, the map m
\* has p unless it is ignored.
Current(s, m, p) ==
    \/ \E i \in 1..Len(s) : /\ Sets(s[i], p)
                            /\ \A j \in i..Len(s) : s[j].pod.uid = p.uid => Sets(s[j], p)
    \/ /\ \A j \in 1..Len(s) : s[j].pod.uid # p.uid
       /\ Ignored(p) \/ (p.uid \in DOMAIN m /\ m[p.uid] = p)

SeenInv ==
    /\ PodsInv /\ Agree(Objects, made) /\ InOrder({})
    /\ \A n \in DOMAIN store : Current(events, pods, store[n])

(* A pod the informer stores is ignored, or Get has it, or a notification   *)
(* of it waits for onAddOrUpdate.                                           *)
SeenOrQueued ==
    \A n \in DOMAIN store :
        \/ Ignored(store[n]) \/ store[n] \in Get
        \/ \E i \in 1..Len(events) : Sets(events[i], store[n])

(* With the watch established and nothing waiting, Get has the running pods *)
(* of the API server as they are.                                           *)
CaughtUp ==
    linked /\ events = <<>> =>
        \A n \in DOMAIN api : Ignored(api[n]) \/ api[n] \in Get

\* Notifications are added: those about p are p itself, and p was current or is now told.
LEMMA CurrentGrows ==
    ASSUME NEW s, NEW r, NEW m, NEW p, Len(s) \in Nat, Len(r) \in Nat, Len(s) <= Len(r),
           \A i \in 1..Len(s) : r[i] = s[i],
           \A i \in 1..Len(r) : i \in 1..Len(s) \/ (r[i].pod.uid = p.uid => Sets(r[i], p)),
           \/ Current(s, m, p)
           \/ \E i \in 1..Len(r) : i \notin 1..Len(s) /\ Sets(r[i], p)
    PROVE  Current(r, m, p)
<1>1. ASSUME NEW i \in 1..Len(r), i \notin 1..Len(s), Sets(r[i], p) PROVE Current(r, m, p)
  <2>1. \A j \in i..Len(r) : j \in 1..Len(r) /\ j \notin 1..Len(s)
    BY <1>1
  <2> QED
    BY <1>1, <2>1, Zenon DEF Current
<1>2. ASSUME NEW i \in 1..Len(s), Sets(s[i], p), \A j \in i..Len(s) : s[j].pod.uid = p.uid => Sets(s[j], p)
      PROVE  Current(r, m, p)
  <2>1. i \in 1..Len(r)
    BY <1>2
  <2>2. \A j \in i..Len(r) : j \in 1..Len(r) /\ (j \in 1..Len(s) => j \in i..Len(s))
    BY <1>2
  <2>3. \A j \in i..Len(r) : r[j].pod.uid = p.uid => Sets(r[j], p)
    BY <1>2, <2>2, Zenon
  <2> QED
    BY <1>2, <2>1, <2>3, Zenon DEF Current
<1>3. ASSUME \A i \in 1..Len(r) : i \in 1..Len(s) \/ ~Sets(r[i], p),
             \A j \in 1..Len(s) : s[j].pod.uid # p.uid, Ignored(p) \/ (p.uid \in DOMAIN m /\ m[p.uid] = p)
      PROVE  Current(r, m, p)
  <2>1. \A j \in 1..Len(r) : r[j].pod.uid # p.uid
    BY <1>3, Zenon
  <2> QED
    BY <1>3, <2>1, Zenon DEF Current
<1> QED
  BY <1>1, <1>2, <1>3, Zenon DEF Current

\* The handlers' step from the map m to w at the notification e.
Handles(m, w, e) ==
    \/ e.type = "set" /\ w = IF Ignored(e.pod) THEN m ELSE Put(m, e.pod.uid, e.pod)
    \/ e.type = "delete" /\ w = Without(m, e.pod.uid)
    \/ e.type = "tombstone" /\ w = m

LEMMA CurrentHandled ==
    ASSUME NEW s \in Seq(Event), s # <<>>, NEW m, NEW w, NEW p, Current(s, m, p), Handles(m, w, Head(s))
    PROVE  Current(Tail(s), w, p)
<1>1. PICK t, e, l : t = Tail(s) /\ e = Head(s) /\ l = Len(s)
  BY Zenon
<1>2. /\ e = s[1] /\ l \in Nat /\ l >= 1 /\ Len(t) = l - 1
      /\ \A i \in 1..Len(t) : t[i] = s[i + 1]
  BY <1>1, TakeEvents, Zenon
<1>3. Handles(m, w, e)
  BY <1>1, Zenon
<1>4. ASSUME NEW i \in 1..l, Sets(s[i], p), \A j \in i..l : s[j].pod.uid = p.uid => Sets(s[j], p)
      PROVE  Current(t, w, p)
  <2>1. ASSUME NEW k \in 1..Len(t), i <= k + 1, Sets(t[k], p) PROVE Current(t, w, p)
    <3>1. \A j \in k..Len(t) : j \in 1..Len(t) /\ j + 1 \in i..l
      BY <1>2, <2>1
    <3>2. \A j \in k..Len(t) : t[j].pod.uid = p.uid => Sets(t[j], p)
      BY <1>2, <1>4, <3>1, Zenon
    <3> QED
      BY <2>1, <3>2, Zenon DEF Current
  <2>2. CASE i # 1
    <3>1. i - 1 \in 1..Len(t) /\ (i - 1) + 1 = i /\ i <= (i - 1) + 1
      BY <1>2, <2>2
    <3>2. Sets(t[i - 1], p)
      BY <1>2, <1>4, <3>1, Zenon
    <3> QED
      BY <2>1, <3>1, <3>2, Zenon
  <2>3. CASE i = 1
    <3>1. \A k \in 1..Len(t) : i <= k + 1 /\ k + 1 \in i..l
      BY <1>2, <2>3
    <3>2. \A k \in 1..Len(t) : t[k].pod.uid = p.uid => Sets(t[k], p)
      BY <1>2, <1>4, <3>1, Zenon
    <3>3. CASE \A k \in 1..Len(t) : t[k].pod.uid # p.uid
      <4>1. Sets(e, p)
        BY <1>2, <1>4, <2>3, Zenon
      <4>2. w = IF Ignored(p) THEN m ELSE Put(m, p.uid, p)
        BY <1>3, <4>1 DEF Handles, Sets
      <4>3. Ignored(p) \/ (p.uid \in DOMAIN w /\ w[p.uid] = p)
        BY <4>2, Zenon DEF Put
      <4> QED
        BY <3>3, <4>3, Zenon DEF Current
    <3> QED
      BY <2>1, <3>1, <3>2, <3>3, Zenon
  <2> QED
    BY <2>2, <2>3, Zenon
<1>5. ASSUME \A j \in 1..l : s[j].pod.uid # p.uid, Ignored(p) \/ (p.uid \in DOMAIN m /\ m[p.uid] = p)
      PROVE  Current(t, w, p)
  <2>1. 1 \in 1..l /\ \A j \in 1..Len(t) : j + 1 \in 1..l
    BY <1>2
  <2>2. e.pod.uid # p.uid /\ \A j \in 1..Len(t) : t[j].pod.uid # p.uid
    BY <1>2, <1>5, <2>1, Zenon
  <2>3. p.uid \in DOMAIN m /\ m[p.uid] = p => p.uid \in DOMAIN w /\ w[p.uid] = p
    BY <1>3, <2>2, Zenon DEF Handles, Put, Without
  <2> QED
    BY <1>5, <2>2, <2>3, Zenon DEF Current
<1> QED
  BY <1>1, <1>4, <1>5, Zenon DEF Current

LEMMA SeenStarts ==
    ASSUME Init
    PROVE  SeenInv
<1>1. PodsInv
  BY PodsStart, Zenon
<1>2. DOMAIN api = {} /\ DOMAIN store = {} /\ store = api /\ events = <<>>
  BY Zenon DEF Init, InformerInit, EmptyMap
<1>3. 1..Len(events) = {}
  BY <1>2
<1>4. Objects = {} /\ Served = {} /\ Stored = {} /\ Queued = {}
  BY <1>2, <1>3 DEF Objects, Served, Stored, Queued
<1>5. Agree(Objects, made) /\ InOrder({})
  BY <1>2, <1>3, <1>4, Zenon DEF Agree, InOrder, Before
<1> QED
  BY <1>1, <1>2, <1>5, Zenon DEF SeenInv

\* What the environment notifies.
LEMMA SeenAnnounced ==
    ASSUME SeenInv, UNCHANGED pods, NEW e, Announces(e), NEW n \in DOMAIN store'
    PROVE  Current(events', pods', store'[n])
<1>1. PICK s, r, m, p : s = events /\ r = events' /\ m = pods /\ p = store'[n]
  BY Zenon
<1>2. s \in Seq(Event) /\ e \in Event /\ r = Append(s, e)
  BY <1>1, Zenon DEF SeenInv, PodsInv, InformerInv, InformerTypes, Announces
<1>3. /\ Len(s) \in Nat /\ Len(r) \in Nat /\ Len(s) <= Len(r) /\ Len(r) \in 1..Len(r) /\ Len(r) \notin 1..Len(s)
      /\ \A i \in 1..Len(s) : r[i] = s[i]
      /\ r[Len(r)] = e
      /\ \A i \in 1..Len(r) : i \in 1..Len(s) \/ r[i] = e
  BY <1>2
<1>4. \/ Sets(e, p)
      \/ e.pod.uid # p.uid /\ Current(s, m, p)
  BY <1>1, Zenon DEF Announces, SeenInv, Sets
<1>5. \A i \in 1..Len(r) : i \in 1..Len(s) \/ (r[i].pod.uid = p.uid => Sets(r[i], p))
  BY <1>3, <1>4, Zenon
<1>6. Current(s, m, p) \/ \E i \in 1..Len(r) : i \notin 1..Len(s) /\ Sets(r[i], p)
  BY <1>3, <1>4, Zenon
<1>7. Current(r, m, p)
  BY <1>3, <1>5, <1>6, CurrentGrows, Zenon
<1> QED
  BY <1>1, <1>7, Zenon

LEMMA SeenRelisted ==
    ASSUME SeenInv, UNCHANGED pods, Relist, NEW n \in DOMAIN store'
    PROVE  Current(events', pods', store'[n])
<1>1. PICK s, r, m, p : s = events /\ r = events' /\ m = pods /\ p = store'[n]
  BY Zenon
<1>2. InformerInv /\ Agree(Objects, made) /\ store' = api /\ n \in DOMAIN api /\ p = api[n]
  BY <1>1, Zenon DEF SeenInv, PodsInv, Relist
<1>3. Relisted(s, r)
  BY <1>1, <1>2, RelistEvents, Zenon
<1>4. Len(s) \in Nat /\ Len(r) \in Nat /\ Len(s) <= Len(r) /\ \A i \in 1..Len(s) : r[i] = s[i]
  BY <1>3 DEF Relisted
<1>5. \A k \in DOMAIN api : api[k].uid = p.uid => k = n
  <2>1. Agree({} \cup Objects, made)
    BY <1>2, Zenon DEF Agree
  <2> QED
    BY <1>2, <2>1, OtherUID, Zenon
<1>6. \A k \in DOMAIN store : store[k].uid = p.uid => k = n
  <2> SUFFICES ASSUME NEW k \in DOMAIN store, store[k].uid = p.uid PROVE k = n
    OBVIOUS
  <2>1. store[k] \in Objects /\ p \in Objects
    BY <1>2, Zenon DEF Objects
  <2>2. store[k].name = p.name
    BY <1>2, <2>1, Zenon DEF Agree
  <2>3. store[k].name = k /\ p.name = n
    BY <1>2, Zenon DEF InformerInv, InformerTypes, Filed
  <2> QED
    BY <2>2, <2>3, Zenon
<1>7. ASSUME NEW i \in 1..Len(r), i \notin 1..Len(s), r[i].pod.uid = p.uid PROVE Sets(r[i], p) /\ n \in Changed
  <2>1. \/ r[i].type = "set" /\ \E k \in Changed : r[i].pod = api[k]
        \/ r[i].type = "tombstone" /\ \E k \in Gone : r[i].pod = store[k]
    BY <1>3, <1>7, Zenon DEF Relisted
  <2>2. \A k \in Changed : k \in DOMAIN api
    BY Zenon DEF Changed
  <2>3. \A k \in Gone : k \in DOMAIN store /\ k \notin DOMAIN api
    BY Zenon DEF Gone
  <2> QED
    BY <1>2, <1>5, <1>6, <1>7, <2>1, <2>2, <2>3, Zenon DEF Sets
<1>8. CASE n \in Changed
  <2>1. \E i \in 1..Len(r) : i \notin 1..Len(s) /\ Sets(r[i], p)
    BY <1>2, <1>3, <1>8, Zenon DEF Relisted, Sets
  <2>2. Current(r, m, p)
    BY <1>4, <1>7, <2>1, CurrentGrows, Zenon
  <2> QED
    BY <1>1, <2>2, Zenon
<1>9. CASE n \notin Changed
  <2>1. n \in DOMAIN store /\ store[n] = p
    BY <1>2, <1>9, Zenon DEF Changed
  <2>2. Current(s, m, p)
    BY <1>1, <2>1, Zenon DEF SeenInv
  <2>3. Current(r, m, p)
    BY <1>4, <1>7, <2>2, CurrentGrows, Zenon
  <2> QED
    BY <1>1, <2>3, Zenon
<1> QED
  BY <1>8, <1>9, Zenon

LEMMA SeenEnvironmentStep ==
    ASSUME SeenInv, Environment
    PROVE  SeenInv'
<1>1. Cluster /\ UNCHANGED pods /\ PodsInv' /\ InformerInv
  BY PodsEnvironmentStep, Zenon DEF Environment, SeenInv, PodsInv
<1>2. Agree({} \cup Objects, made) /\ InOrder({})
  BY Zenon DEF SeenInv, Agree
<1>3. Agree({} \cup Objects', made') /\ InOrder({})'
  BY <1>1, <1>2, ClusterAgrees, ClusterOrder, Zenon
<1>4. Agree(Objects', made')
  BY <1>3, Zenon DEF Agree
<1>5. UNCHANGED <<events, store>> \/ Relist \/ \E e : Announces(e)
  BY <1>1, <1>2, ClusterAnnounces, Zenon
<1>6. \A n \in DOMAIN store' : Current(events', pods', store'[n])
  <2>1. CASE UNCHANGED <<events, store>>
    BY <1>1, <2>1, Zenon DEF SeenInv
  <2> QED
    BY <1>1, <1>5, <2>1, SeenRelisted, SeenAnnounced, Zenon
<1> QED
  BY <1>1, <1>3, <1>4, <1>6, Zenon DEF SeenInv, Agree

LEMMA SeenHandlerStep ==
    ASSUME SeenInv, Handler
    PROVE  SeenInv'
<1>1. PodsInv' /\ InformerInv
  BY PodsAddStep, PodsDeleteStep, Zenon DEF Handler, SeenInv, PodsInv
<1>2. PICK type : Take(type) /\ Handles(pods, pods', Head(events))
  BY Zenon DEF Handler, onAddOrUpdate, onDelete, onDeleteOther, Handles, Take
<1>3. /\ events \in Seq(Event) /\ events # <<>> /\ events' = Tail(events) /\ UNCHANGED store
      /\ Objects' \subseteq Objects /\ UNCHANGED made
  BY <1>1, <1>2, TakeStep, Zenon DEF Take, InformerInv, InformerTypes
<1>4. Agree(Objects, made)'
  BY <1>3, Zenon DEF SeenInv, Agree
<1>5. InOrder({})'
  BY <1>1, <1>2, TakeOrder, Zenon DEF SeenInv
<1>6. ASSUME NEW n \in DOMAIN store' PROVE Current(events', pods', store'[n])
  <2>1. PICK s, m, w, p : s = events /\ m = pods /\ w = pods' /\ p = store[n]
    BY Zenon
  <2>2. s \in Seq(Event) /\ s # <<>> /\ Current(s, m, p) /\ Handles(m, w, Head(s))
    BY <1>2, <1>3, <1>6, <2>1, Zenon DEF SeenInv
  <2>3. Current(Tail(s), w, p)
    BY <2>2, CurrentHandled, Zenon
  <2> QED
    BY <1>3, <2>1, <2>3, Zenon
<1> QED
  BY <1>1, <1>4, <1>5, <1>6, Zenon DEF SeenInv

LEMMA SeenNextStep == SeenInv /\ [Next]_vars => SeenInv'
<1> SUFFICES ASSUME SeenInv, [Next]_vars PROVE SeenInv'
  OBVIOUS
<1>1. CASE UNCHANGED vars
  <2>1. UNCHANGED <<now, made, used, api, linked, breaks, store, events, pods>>
    BY <1>1, Zenon DEF vars, informer
  <2>2. PodsInv'
    BY PodsNextStep, Zenon DEF SeenInv
  <2>3. Agree(Objects, made)' /\ InOrder({})'
    BY <2>1, Zenon DEF SeenInv, Objects, InOrder, Queued, Stored, Served
  <2> QED
    BY <2>1, <2>2, <2>3, Zenon DEF SeenInv
<1> QED
  BY <1>1, SeenEnvironmentStep, SeenHandlerStep, Zenon DEF Next

(* Broken watches, lists and resyncs included, and for any number of pods:  *)
(* a running pod the informer stores is what Get returns of it, or a        *)
(* notification that will make it so waits for onAddOrUpdate; once the      *)
(* handler has caught up and the watch is established, Get has every        *)
(* running pod of the API server in its present version.                    *)
THEOREM RunningPodsSeen == Spec => [](SeenOrQueued /\ CaughtUp)
<1>1. Init => SeenInv
  BY SeenStarts, Zenon
<1>2. SeenInv => SeenOrQueued
  <2> SUFFICES ASSUME SeenInv, NEW n \in DOMAIN store
               PROVE  \/ Ignored(store[n]) \/ store[n] \in Get
                      \/ \E i \in 1..Len(events) : Sets(events[i], store[n])
    BY Zenon DEF SeenOrQueued
  <2>1. Current(events, pods, store[n])
    BY Zenon DEF SeenInv
  <2> QED
    BY <2>1, Zenon DEF Current, Get
<1>3. SeenInv => CaughtUp
  <2> SUFFICES ASSUME SeenInv, linked, events = <<>>, NEW n \in DOMAIN api
               PROVE  Ignored(api[n]) \/ api[n] \in Get
    BY Zenon DEF CaughtUp
  <2>1. store = api
    BY Zenon DEF SeenInv, InOrder
  <2>2. 1..Len(events) = {}
    OBVIOUS
  <2>3. SeenOrQueued
    BY <1>2, Zenon
  <2> QED
    BY <2>1, <2>2, <2>3, Zenon DEF SeenOrQueued
<1> QED
  BY <1>1, <1>2, <1>3, SeenNextStep, PTL DEF Spec

-----------------------------------------------------------------------------
(* Attribution: what buildPodNetworkMetric read is what the caches said at  *)
(* some moment of the build.                                                *)


\* The name of a node, or none, and a zone, or none.
Metric == [srcNode : NodeNames \cup {NoNode}, srcZone : Zones \cup {NoZone},
           dstNode : NodeNames \cup {NoNode}, dstZone : Zones \cup {NoZone}]

\* The node n is in zone z according to the caches c.
InZone(c, n, z) == n \in DOMAIN c.nodes /\ c.nodes[n].zone = z

\* What the build has asked for so far is what the caches said at some moment since it
\* began, and they are what they were at the last of these moments.
AttrInv ==
    /\ DOMAIN nodes \subseteq NodeNames /\ \A n \in DOMAIN nodes : nodes[n] \in Node
    /\ placed \in [Private -> NodeNames \cup {NoNode}]
    /\ metric \in Metric
    /\ bpc # "idle" => Caches \in during
    /\ metric.srcZone # NoZone => \E c \in during : InZone(c, metric.srcNode, metric.srcZone)
    /\ metric.dstZone # NoZone => /\ bpc = "built" /\ conn.dst \in Private
                                  /\ \E c \in during : InZone(c, metric.dstNode, metric.dstZone)
    /\ bpc \in {"dstPod", "dstNodeByName", "dstNodeByIP"} => conn.dst \in Private
    /\ bpc = "dstNodeByName" => /\ metric.dstNode # NoNode
                                /\ \E c \in during : c.placed[conn.dst] = metric.dstNode
    /\ bpc = "dstNodeByIP" => \E c \in during : c.placed[conn.dst] = NoNode
    /\ KnownSourceKept
    /\ DestinationFound

LEMMA AttrStarts ==
    ASSUME AttrInit
    PROVE  AttrInv
  BY ZenonT(30) DEF AttrInit, AttrInv, Metric, Blank, KnownSourceKept, DestinationFound

\* The informers add to what the build may have seen.
LEMMA ChangeStep ==
    ASSUME AttrInv, CachesChange,
           DOMAIN nodes' \subseteq NodeNames, \A n \in DOMAIN nodes' : nodes'[n] \in Node,
           placed' \in [Private -> NodeNames \cup {NoNode}]
    PROVE  AttrInv'
<1>1. /\ bpc \notin {"idle", "built", "dropped"} /\ bpc' = bpc /\ conn' = conn /\ metric' = metric
      /\ Caches' \in during' /\ during \subseteq during'
  BY Zenon DEF CachesChange
<1>2. KnownSourceKept' /\ DestinationFound'
  BY <1>1, Zenon DEF KnownSourceKept, DestinationFound
<1>3. metric'.srcZone # NoZone => \E c \in during' : InZone(c, metric'.srcNode, metric'.srcZone)
  BY <1>1, Zenon DEF AttrInv
<1>4. metric'.dstZone = NoZone
  BY <1>1, Zenon DEF AttrInv
<1> QED
  BY <1>1, <1>2, <1>3, <1>4, Zenon DEF AttrInv

LEMMA ChangesStep ==
    ASSUME AttrInv,
           \/ \E name \in NodeNames, node \in Node : NodeSet(name, node)
           \/ \E name \in DOMAIN nodes : NodeDeleted(name)
           \/ \E ip \in Private, name \in NodeNames \cup {NoNode} : PodMoves(ip, name)
    PROVE  AttrInv'
<1>1. ASSUME NEW name \in NodeNames, NEW node \in Node, NodeSet(name, node) PROVE AttrInv'
  BY <1>1, ChangeStep, ZenonT(30) DEF NodeSet, AttrInv
<1>2. ASSUME NEW name \in DOMAIN nodes, NodeDeleted(name) PROVE AttrInv'
  BY <1>2, ChangeStep, ZenonT(30) DEF NodeDeleted, AttrInv
<1>3. ASSUME NEW ip \in Private, NEW name \in NodeNames \cup {NoNode}, PodMoves(ip, name) PROVE AttrInv'
  BY <1>3, ChangeStep, ZenonT(30) DEF PodMoves, AttrInv
<1> QED
  BY <1>1, <1>2, <1>3, Zenon

LEMMA SrcPodStep ==
    ASSUME AttrInv, NEW src \in PodAddrs, NEW dst, FindSrcPod(src, dst)
    PROVE  AttrInv'
<1>1. placed[src] \in NodeNames \cup {NoNode}
  BY Zenon DEF AttrInv, Private
<1>2. /\ metric' = [srcNode |-> placed[src], srcZone |-> NoZone, dstNode |-> NoNode, dstZone |-> NoZone]
      /\ bpc' = IF placed[src] = NoNode THEN "dropped" ELSE "srcNode"
      /\ nodes' = nodes /\ placed' = placed /\ during' = {Caches} /\ Caches' = Caches
  BY Zenon DEF FindSrcPod, Blank, Caches
<1> QED
  BY <1>1, <1>2, ZenonT(30) DEF AttrInv, Metric, KnownSourceKept, DestinationFound

LEMMA SrcNodeStep ==
    ASSUME AttrInv, FindSrcNode
    PROVE  AttrInv'
<1>1. /\ bpc = "srcNode" /\ bpc' = IF conn.dst \in Private THEN "dstPod" ELSE "built"
      /\ nodes' = nodes /\ placed' = placed /\ during' = during /\ conn' = conn /\ Caches' = Caches
  BY Zenon DEF FindSrcNode, Asks, Caches
<1>2. metric \in Metric /\ metric.dstZone = NoZone
  BY <1>1, Zenon DEF AttrInv
<1>3. /\ metric' \in Metric /\ metric'.dstZone = NoZone
      /\ metric'.srcZone # NoZone => \E c \in during : InZone(c, metric'.srcNode, metric'.srcZone)
  <2>1. CASE metric.srcNode \in DOMAIN nodes
    <3>1. metric' = [metric EXCEPT !.srcZone = nodes[metric.srcNode].zone]
      BY <2>1, Zenon DEF FindSrcNode, NodeByName
    <3>2. nodes[metric.srcNode].zone \in Zones \cup {NoZone}
      BY <2>1, Zenon DEF AttrInv, Node
    <3>3. Caches \in during /\ Caches.nodes = nodes
      BY <1>1, Zenon DEF AttrInv, Caches
    <3> QED
      BY <1>2, <2>1, <3>1, <3>2, <3>3, Zenon DEF Metric, InZone
  <2>2. CASE metric.srcNode \notin DOMAIN nodes
    <3>1. metric' = metric
      BY <2>2, Zenon DEF FindSrcNode, NodeByName
    <3> QED
      BY <1>2, <3>1, Zenon DEF AttrInv
  <2> QED
    BY <2>1, <2>2, Zenon
<1>4. KnownSourceKept' /\ DestinationFound'
  BY <1>1, Zenon DEF KnownSourceKept, DestinationFound
<1> QED
  BY <1>1, <1>3, <1>4, Zenon DEF AttrInv

LEMMA DstPodStep ==
    ASSUME AttrInv, FindDstPod
    PROVE  AttrInv'
<1>1. /\ bpc = "dstPod" /\ bpc' = IF placed[conn.dst] = NoNode THEN "dstNodeByIP" ELSE "dstNodeByName"
      /\ nodes' = nodes /\ placed' = placed /\ during' = during /\ conn' = conn /\ Caches' = Caches
  BY Zenon DEF FindDstPod, Asks, Caches
<1>2. metric \in Metric /\ metric.dstZone = NoZone /\ conn.dst \in Private
  BY <1>1, ZenonT(30) DEF AttrInv
<1>3. placed[conn.dst] \in NodeNames \cup {NoNode}
  BY <1>2, Zenon DEF AttrInv
<1>4. /\ metric' \in Metric /\ metric'.dstZone = NoZone /\ metric'.dstNode = placed[conn.dst]
      /\ metric'.srcZone = metric.srcZone /\ metric'.srcNode = metric.srcNode
  BY <1>2, <1>3, Zenon DEF FindDstPod, Metric
<1>5. Caches \in during /\ Caches.placed = placed
  BY <1>1, Zenon DEF AttrInv, Caches
<1>6. KnownSourceKept' /\ DestinationFound'
  BY <1>1, Zenon DEF KnownSourceKept, DestinationFound
<1> QED
  BY <1>1, <1>2, <1>4, <1>5, <1>6, Zenon DEF AttrInv

\* What SetDstNode says of the node it was given, if there is one at most.
LEMMA DstNodeSet ==
    ASSUME AttrInv, NEW found, found \subseteq DOMAIN nodes, \A n, m \in found : n = m,
           bpc # "idle", metric.dstZone = NoZone, SetDstNode(found)
    PROVE  /\ metric' \in Metric
           /\ metric'.srcZone = metric.srcZone /\ metric'.srcNode = metric.srcNode
           /\ metric'.dstZone # NoZone => \E c \in during : InZone(c, metric'.dstNode, metric'.dstZone)
           /\ \A n \in found : metric'.dstNode = n /\ metric'.dstZone = nodes[n].zone
<1>1. metric \in Metric
  BY Zenon DEF AttrInv
<1>2. CASE found = {}
  BY <1>1, <1>2, Zenon DEF SetDstNode, Metric
<1>3. ASSUME NEW n \in found PROVE
           /\ metric' \in Metric
           /\ metric'.srcZone = metric.srcZone /\ metric'.srcNode = metric.srcNode
           /\ metric'.dstZone # NoZone => \E c \in during : InZone(c, metric'.dstNode, metric'.dstZone)
           /\ metric'.dstNode = n /\ metric'.dstZone = nodes[n].zone
  <2>1. (CHOOSE m \in found : TRUE) = n
    OBVIOUS
  <2>2. metric' = [metric EXCEPT !.dstNode = n, !.dstZone = nodes[n].zone]
    BY <2>1, Zenon DEF SetDstNode
  <2>3. n \in NodeNames /\ nodes[n].zone \in Zones \cup {NoZone}
    BY Zenon DEF AttrInv, Node
  <2>4. Caches \in during /\ Caches.nodes = nodes
    BY Zenon DEF AttrInv, Caches
  <2> QED
    BY <1>1, <2>2, <2>3, <2>4, Zenon DEF Metric, InZone
<1> QED
  BY <1>2, <1>3, Zenon

LEMMA DstNodeByNameStep ==
    ASSUME AttrInv, FindDstNodeByName
    PROVE  AttrInv'
<1>1. PICK found : found = NodeByName(metric.dstNode)
  OBVIOUS
<1>2. /\ bpc = "dstNodeByName" /\ bpc' = "built" /\ SetDstNode(found)
      /\ nodes' = nodes /\ placed' = placed /\ during' = during /\ conn' = conn /\ Caches' = Caches
  BY <1>1, Zenon DEF FindDstNodeByName, Asks, Caches
<1>3. conn.dst \in Private /\ metric.dstZone = NoZone /\ Caches \in during /\ Caches.nodes = nodes
  BY <1>2, Zenon DEF AttrInv, Caches
<1>4. /\ metric' \in Metric
      /\ metric'.srcZone = metric.srcZone /\ metric'.srcNode = metric.srcNode
      /\ metric'.dstZone # NoZone => \E c \in during : InZone(c, metric'.dstNode, metric'.dstZone)
      /\ \A n \in found : metric'.dstNode = n /\ metric'.dstZone = nodes[n].zone
  BY <1>1, <1>2, <1>3, DstNodeSet DEF NodeByName
<1>5. DestinationFound'
  <2>1. PICK c1 \in during : c1.placed[conn.dst] = metric.dstNode /\ metric.dstNode # NoNode
    BY <1>2, Zenon DEF AttrInv
  <2>2. ASSUME NEW n \in NodeNames, \A c \in during : c.placed[conn.dst] = n /\ n \in DOMAIN c.nodes
        PROVE  metric'.dstNode = n /\ \E c \in during : c.nodes[n].zone = metric'.dstZone
    <3>1. n \in found
      BY <1>1, <1>3, <2>1, <2>2, Zenon DEF NodeByName
    <3> QED
      BY <1>3, <1>4, <3>1, Zenon
  <2>3. ~\A c \in during : c.placed[conn.dst] = NoNode
    BY <2>1, Zenon
  <2> QED
    BY <1>2, <2>2, <2>3, Zenon DEF DestinationFound
<1>6. KnownSourceKept'
  BY <1>2, Zenon DEF KnownSourceKept
<1> QED
  BY <1>2, <1>3, <1>4, <1>5, <1>6, Zenon DEF AttrInv

LEMMA DstNodeByIPStep ==
    ASSUME AttrInv, FindDstNodeByIP
    PROVE  AttrInv'
<1>1. PICK found : found = NodeByIP(conn.dst)
  OBVIOUS
<1>2. /\ bpc = "dstNodeByIP"
      /\ nodes' = nodes /\ placed' = placed /\ during' = during /\ conn' = conn /\ Caches' = Caches
  BY Zenon DEF FindDstNodeByIP, Asks, Caches
<1>3. conn.dst \in Private /\ metric.dstZone = NoZone /\ Caches \in during /\ Caches.nodes = nodes
  BY <1>2, Zenon DEF AttrInv, Caches
<1>4. CASE \E n, m \in found : n # m
  <2>1. bpc' = "dropped" /\ metric' = metric
    BY <1>1, <1>4, Zenon DEF FindDstNodeByIP, Asks
  <2>2. KnownSourceKept'
    BY <1>1, <1>2, <1>3, <1>4 DEF KnownSourceKept, NodeByIP
  <2>3. DestinationFound'
    BY <2>1, Zenon DEF DestinationFound
  <2> QED
    BY <1>2, <1>3, <2>1, <2>2, <2>3, Zenon DEF AttrInv
<1>5. CASE \A n, m \in found : n = m
  <2>1. bpc' = "built" /\ SetDstNode(found)
    BY <1>1, <1>5, Zenon DEF FindDstNodeByIP, Asks
  <2>2. /\ metric' \in Metric
        /\ metric'.srcZone = metric.srcZone /\ metric'.srcNode = metric.srcNode
        /\ metric'.dstZone # NoZone => \E c \in during : InZone(c, metric'.dstNode, metric'.dstZone)
        /\ \A n \in found : metric'.dstNode = n /\ metric'.dstZone = nodes[n].zone
    BY <1>1, <1>2, <1>3, <1>5, <2>1, DstNodeSet DEF NodeByIP
  <2>3. DestinationFound'
    <3>1. PICK c1 \in during : c1.placed[conn.dst] = NoNode
      BY <1>2, Zenon DEF AttrInv
    <3>2. ASSUME NEW n \in NodeNames PROVE ~\A c \in during : c.placed[conn.dst] = n
      BY <3>1, AttributionAssumption, Zenon
    <3>3. ASSUME NEW n \in NodeNames,
                 \A c \in during : {m \in DOMAIN c.nodes : c.nodes[m].ip = conn.dst} = {n}
          PROVE  metric'.dstNode = n /\ \E c \in during : c.nodes[n].zone = metric'.dstZone
      <4>1. n \in found
        BY <1>1, <1>3, <3>3, Zenon DEF NodeByIP
      <4> QED
        BY <1>3, <2>2, <4>1, Zenon
    <3> QED
      BY <1>2, <3>2, <3>3 DEF DestinationFound
  <2>4. KnownSourceKept'
    BY <2>1, Zenon DEF KnownSourceKept
  <2> QED
    BY <1>2, <1>3, <2>1, <2>2, <2>3, <2>4, Zenon DEF AttrInv
<1> QED
  BY <1>4, <1>5, Zenon

LEMMA NextItemStep ==
    ASSUME AttrInv, NextItem
    PROVE  AttrInv'
<1>1. /\ bpc' = "idle" /\ metric' = Blank /\ nodes' = nodes /\ placed' = placed
      /\ KnownSourceKept' /\ DestinationFound'
  BY Zenon DEF NextItem, KnownSourceKept, DestinationFound
<1> QED
  BY <1>1, Zenon DEF AttrInv, Metric, Blank

LEMMA AttrInvariance == AttrSpec => []AttrInv
<1>1. AttrInv /\ [AttrNext]_attrVars => AttrInv'
  <2> SUFFICES ASSUME AttrInv, [AttrNext]_attrVars PROVE AttrInv'
    OBVIOUS
  <2>1. CASE UNCHANGED attrVars
    BY <2>1, ZenonT(30) DEF attrVars, AttrInv, Caches, KnownSourceKept, DestinationFound
  <2>2. CASE Build
    BY <2>2, SrcPodStep, SrcNodeStep, DstPodStep, DstNodeByNameStep, DstNodeByIPStep, NextItemStep, Zenon
       DEF Build
  <2>3. CASE AttrNext /\ ~Build
    BY <2>3, ChangesStep, Zenon DEF AttrNext
  <2> QED
    BY <2>1, <2>2, <2>3, Zenon
<1> QED
  BY <1>1, AttrStarts, PTL DEF AttrSpec

(* The metric of a connection is lost only if its source had no pod, or its *)
(* destination was the address of two nodes: for any nodes, pods and zones, *)
(* and however often the caches change between two of the questions.        *)
THEOREM SourcesAreKept == AttrSpec => []KnownSourceKept
<1>1. AttrInv => KnownSourceKept
  BY Zenon DEF AttrInv
<1> QED
  BY <1>1, AttrInvariance, PTL

(* cross_zone is "true" only if the two ends were in two known zones.       *)
THEOREM CrossZoneIsSound == AttrSpec => []CrossZoneSound
<1>1. AttrInv => CrossZoneSound
  BY Zenon DEF AttrInv, CrossZoneSound, isCrossZoneValue, InZone, Metric
<1> QED
  BY <1>1, AttrInvariance, PTL

(* A private destination that stays at one node during the build is         *)
(* attributed to that node, with a zone it had meanwhile.                   *)
THEOREM DestinationsAreFound == AttrSpec => []DestinationFound
<1>1. AttrInv => DestinationFound
  BY Zenon DEF AttrInv
<1> QED
  BY <1>1, AttrInvariance, PTL
=============================================================================
