-------------------------- MODULE PodInformerProofs --------------------------
(***************************************************************************)
(* What both pod caches may rely on: while the watch has not broken, the   *)
(* notifications that wait tell how every pod they name ends.              *)
(***************************************************************************)
EXTENDS PodInformer, TLAPS

Filed(m) ==
    /\ DOMAIN m \subseteq Names
    /\ \A n \in DOMAIN m : m[n] \in Pod /\ m[n].name = n

\* The API server has the pod p.
Here(p) == p.name \in DOMAIN api /\ api[p.name].uid = p.uid

\* The i-th notification is of a pod the API server has, or its deletion comes no earlier.
Concludes(i) ==
    \/ Here(events[i].pod)
    \/ \E j \in i..Len(events) :
           events[j].type = "delete" /\ events[j].pod.uid = events[i].pod.uid

InformerTypes ==
    /\ now \in 1..MaxTime /\ made \in 0..MaxPods /\ breaks \in Nat
    /\ Filed(api) /\ Filed(store) /\ events \in Seq(Event)

InformerInv ==
    /\ InformerTypes
    /\ breaks = 0 => linked /\ store = api
    /\ breaks = 0 => \A i \in 1..Len(events) : Concludes(i)

\* The pods the API server and the informer know.
Objects ==
    {api[n] : n \in DOMAIN api} \cup {store[n] : n \in DOMAIN store}
        \cup {events[i].pod : i \in 1..Len(events)}

\* The pods of K agree on the name of a UID, and their UIDs are at most m.
Agree(K, m) ==
    /\ K \subseteq Pod
    /\ \A p \in K : p.uid <= m
    /\ \A p, q \in K : p.uid = q.uid => p.name = q.name

-----------------------------------------------------------------------------
(* Maps and sequences. *)

LEMMA PutFiled ==
    ASSUME NEW m, Filed(m), NEW p \in Pod
    PROVE  /\ Filed(Put(m, p.name, p))
           /\ DOMAIN Put(m, p.name, p) = DOMAIN m \cup {p.name}
           /\ Put(m, p.name, p)[p.name] = p
           /\ \A n \in DOMAIN m \ {p.name} : Put(m, p.name, p)[n] = m[n]
<1>1. p.name \in Names
  BY Zenon DEF Pod
<1> QED
  BY <1>1, Zenon DEF Put, Filed

LEMMA PutServed ==
    ASSUME Filed(api), NEW q \in Pod, api' = Put(api, q.name, q)
    PROVE  /\ DOMAIN api' = DOMAIN api \cup {q.name} /\ api'[q.name] = q
           /\ \A k \in DOMAIN api \ {q.name} : api'[k] = api[k]
  BY PutFiled, ZenonT(30)

LEMMA WithoutFiled ==
    ASSUME NEW m, Filed(m), NEW n
    PROVE  /\ Filed(Without(m, n))
           /\ DOMAIN Without(m, n) = DOMAIN m \ {n}
           /\ \A k \in DOMAIN m \ {n} : Without(m, n)[k] = m[k]
  BY Zenon DEF Without, Filed

\* The sequence t lists the elements of S.
Lists(t, S) == t \in Seq(S) /\ \A x \in S : \E i \in 1..Len(t) : t[i] = x

LEMMA OrdersList ==
    ASSUME NEW S, NEW t \in Orders(S)
    PROVE  Lists(t, S)
<1>1. PICK k \in Nat : t \in [1..k -> S] /\ \A x \in S : \E i \in 1..k : t[i] = x
  BY InformerAssumption DEF Orders, Bijection, Surjection
<1>2. t \in Seq(S) /\ Len(t) = k
  BY <1>1
<1> QED
  BY <1>1, <1>2, Zenon DEF Lists

\* Appending an event.
LEMMA AppendEvents ==
    ASSUME NEW s \in Seq(Event), NEW e \in Event
    PROVE  /\ Append(s, e) \in Seq(Event)
           /\ Len(Append(s, e)) = Len(s) + 1
           /\ \A i \in 1..Len(s) : Append(s, e)[i] = s[i]
           /\ Append(s, e)[Len(s) + 1] = e
  OBVIOUS

\* Taking the oldest event.
LEMMA TakeEvents ==
    ASSUME NEW s \in Seq(Event), s # <<>>
    PROVE  /\ Tail(s) \in Seq(Event) /\ Head(s) \in Event /\ Head(s) = s[1]
           /\ Len(s) \in Nat /\ Len(s) >= 1
           /\ Len(Tail(s)) = Len(s) - 1
           /\ \A i \in 1..Len(Tail(s)) : Tail(s)[i] = s[i + 1]
  OBVIOUS

-----------------------------------------------------------------------------
(* Changes of the API server. *)

\* An event that is appended ends the pods that are gone by it, and itself.
LEMMA AppendEnds ==
    ASSUME InformerTypes, NEW e \in Event, events' = Append(events, e),
           \A i \in 1..Len(events) : Concludes(i),
           \A p \in Pod : Here(p) => Here(p)' \/ (e.type = "delete" /\ e.pod.uid = p.uid),
           Here(e.pod)' \/ e.type = "delete"
    PROVE  \A i \in 1..Len(events') : Concludes(i)'
<1> SUFFICES ASSUME NEW i \in 1..Len(events') PROVE Concludes(i)'
  OBVIOUS
<1> DEFINE l == Len(events)
<1>1. /\ l \in Nat /\ Len(events') = l + 1 /\ events'[l + 1] = e
      /\ \A j \in 1..l : events'[j] = events[j] /\ events[j] \in Event
  BY AppendEvents DEF InformerTypes
<1>2. CASE i = l + 1
  BY <1>1, <1>2 DEF Concludes, Here
<1>3. CASE i \in 1..l
  <2>1. events'[i] = events[i] /\ events[i].pod \in Pod
    BY <1>1, <1>3, Zenon DEF Event
  <2>2. Concludes(i)
    BY <1>3, Zenon
  <2>3. CASE Here(events[i].pod)
    <3>1. Here(events[i].pod)' \/ (e.type = "delete" /\ e.pod.uid = events[i].pod.uid)
      BY <2>1, <2>3, Zenon DEF Here
    <3> QED
      BY <1>1, <1>3, <2>1, <3>1 DEF Concludes, Here
  <2>4. ASSUME NEW j \in i..l, events[j].type = "delete", events[j].pod.uid = events[i].pod.uid
        PROVE  Concludes(i)'
    BY <1>1, <1>3, <2>1, <2>4 DEF Concludes
  <2> QED
    BY <2>2, <2>3, <2>4, Zenon DEF Concludes
<1> QED
  BY <1>1, <1>2, <1>3

LEMMA WatchedStep ==
    ASSUME InformerInv, NEW type \in {"set", "delete"}, NEW pod \in Pod, Watched(type, pod),
           Filed(api'), made' \in 0..MaxPods,
           \A p \in Pod : Here(p) => Here(p)' \/ (type = "delete" /\ pod.uid = p.uid),
           Here(pod)' \/ type = "delete"
    PROVE  InformerInv'
<1> DEFINE e == [type |-> type, pod |-> pod]
<1>1. e \in Event /\ e.type = type /\ e.pod = pod
  BY Zenon DEF Event
<1>2. UNCHANGED <<now, linked, breaks>>
  BY Zenon DEF Watched
<1>3. CASE linked
  <2>1. store' = api' /\ events' = Append(events, e)
    BY <1>3, Zenon DEF Watched
  <2>2. events' \in Seq(Event)
    BY <1>1, <2>1, AppendEvents, Zenon DEF InformerInv, InformerTypes
  <2>3. InformerTypes'
    BY <1>2, <2>1, <2>2, Zenon DEF InformerInv, InformerTypes, Filed
  <2>4. breaks' = 0 => \A i \in 1..Len(events') : Concludes(i)'
    BY <1>1, <1>2, <2>1, AppendEnds, Zenon DEF InformerInv
  <2> QED
    BY <1>2, <1>3, <2>1, <2>3, <2>4, Zenon DEF InformerInv
<1>4. CASE ~linked
  <2>1. UNCHANGED <<store, events>>
    BY <1>4, Zenon DEF Watched
  <2>2. InformerTypes' /\ breaks' # 0
    BY <1>2, <1>4, <2>1, Zenon DEF InformerInv, InformerTypes, Filed
  <2> QED
    BY <2>2, Zenon DEF InformerInv
<1> QED
  BY <1>3, <1>4, Zenon

\* An update keeps the pod's UID and name.
LEMMA UpdateStep ==
    ASSUME InformerInv, NEW n \in DOMAIN api, NEW pod \in Pod,
           pod.name = n, pod.uid = api[n].uid, Update(n, pod)
    PROVE  InformerInv'
<1>1. api' = Put(api, pod.name, pod) /\ Watched("set", pod) /\ UNCHANGED made
  BY Zenon DEF Update
<1>2. Filed(api)
  BY Zenon DEF InformerInv, InformerTypes
<1>3. /\ Filed(api') /\ DOMAIN api' = DOMAIN api \cup {n} /\ api'[n] = pod
      /\ \A k \in DOMAIN api \ {n} : api'[k] = api[k]
  BY <1>1, <1>2, PutFiled
<1>4. \A p \in Pod : Here(p) => Here(p)'
  BY <1>3, Zenon DEF Here
<1>5. Here(pod)'
  BY <1>3, Zenon DEF Here
<1>6. made' \in 0..MaxPods
  BY <1>1, Zenon DEF InformerInv, InformerTypes
<1> QED
  BY <1>1, <1>3, <1>4, <1>5, <1>6, WatchedStep, Zenon

\* The pods the API server's updates make.
LEMMA UpdatedPods ==
    ASSUME InformerInv, NEW n \in DOMAIN api
    PROVE  /\ api[n] \in Pod /\ api[n].name = n
           /\ \A ip \in IPs :
                  LET q == [api[n] EXCEPT !.phase = "Running", !.ip = ip]
                  IN  q \in Pod /\ q.name = n /\ q.uid = api[n].uid
           /\ LET q == [api[n] EXCEPT !.phase = "Succeeded"]
              IN  q \in Pod /\ q.name = n /\ q.uid = api[n].uid
           /\ \A grace \in Graces :
                  LET q == [api[n] EXCEPT !.deleted = now + grace]
                  IN  q \in Pod /\ q.name = n /\ q.uid = api[n].uid
<1>1. api[n] \in Pod /\ api[n].name = n /\ now \in Nat
  BY InformerAssumption DEF InformerInv, InformerTypes, Filed
<1>2. \A grace \in Graces : now + grace \in Nat
  <2>1. \A grace \in Graces : grace \in Nat
    BY InformerAssumption, Zenon
  <2> QED
    BY <1>1, <2>1
<1> QED
  BY <1>1, <1>2, Zenon DEF Pod, Phases

LEMMA CreateStep ==
    ASSUME InformerInv, NEW n \in Names, CreatePod(n)
    PROVE  /\ InformerInv'
           /\ \E q \in Pod : q.uid = made + 1 /\ q.name = n /\ api' = Put(api, n, q) /\ Watched("set", q)
<1>0. PICK q : q = [uid |-> made + 1, name |-> n, ip |-> NoIP, phase |-> "Pending",
                     created |-> now, deleted |-> NoTime]
  BY Zenon
<1>1. made \in 0..MaxPods /\ made < MaxPods /\ MaxPods \in Nat /\ made' = made + 1
      /\ now \in 1..MaxTime
  BY InformerAssumption, Zenon DEF CreatePod, InformerInv, InformerTypes
<1>2. made + 1 \in 1..MaxPods
  BY <1>1
<1>3. q \in Pod /\ q.name = n /\ q.uid = made + 1
  BY <1>0, <1>1, <1>2, Zenon DEF Pod, Phases, NoTime
<1>4. api' = Put(api, q.name, q) /\ n \notin DOMAIN api
  BY <1>0, <1>1, <1>3, Zenon DEF CreatePod
<1>5. Filed(api)
  BY Zenon DEF InformerInv, InformerTypes
<1>6. /\ Filed(api') /\ DOMAIN api' = DOMAIN api \cup {n} /\ api'[n] = q
      /\ \A k \in DOMAIN api \ {n} : api'[k] = api[k]
  BY <1>3, <1>4, <1>5, PutFiled
<1>7. Watched("set", q)
  BY <1>6, Zenon DEF CreatePod
<1>8. \A p \in Pod : Here(p) => Here(p)'
  BY <1>4, <1>6, Zenon DEF Here
<1>9. Here(q)'
  BY <1>3, <1>6, Zenon DEF Here
<1>10. made' \in 0..MaxPods
  BY <1>1
<1>11. InformerInv'
  BY <1>3, <1>6, <1>7, <1>8, <1>9, <1>10, WatchedStep, Zenon
<1> QED
  BY <1>3, <1>4, <1>7, <1>11, Zenon

LEMMA RemoveStep ==
    ASSUME InformerInv, NEW n \in Names, RemovePod(n)
    PROVE  InformerInv'
<1>1. /\ n \in DOMAIN api /\ api' = Without(api, n) /\ Watched("delete", api[n])
      /\ UNCHANGED made /\ Filed(api) /\ made \in 0..MaxPods
  BY Zenon DEF RemovePod, InformerInv, InformerTypes
<1>2. /\ Filed(api') /\ DOMAIN api' = DOMAIN api \ {n}
      /\ \A k \in DOMAIN api \ {n} : api'[k] = api[k]
  BY <1>1, WithoutFiled, Zenon
<1>3. api[n] \in Pod
  BY <1>1, Zenon DEF Filed
<1>4. \A p \in Pod : Here(p) => Here(p)' \/ api[n].uid = p.uid
  BY <1>2, Zenon DEF Here
<1> DEFINE r == api[n]
<1>5. r \in Pod /\ Watched("delete", r) /\ \A p \in Pod : Here(p) => Here(p)' \/ r.uid = p.uid
  BY <1>1, <1>3, <1>4, Zenon
<1>6. PICK k : k = r
  OBVIOUS
<1>7. k \in Pod /\ Watched("delete", k) /\ \A p \in Pod : Here(p) => Here(p)' \/ k.uid = p.uid
  BY <1>5, <1>6, Zenon
<1> HIDE DEF r
<1> QED
  BY <1>1, <1>2, <1>7, WatchedStep, Zenon

LEMMA ResyncStep ==
    ASSUME InformerInv, NEW n \in Names, Resync(n)
    PROVE  InformerInv'
<1>1. PICK r : r = store[n]
  OBVIOUS
<1> DEFINE e == [type |-> "set", pod |-> r]
<1>2. /\ n \in DOMAIN store /\ events' = Append(events, e)
      /\ UNCHANGED <<now, made, api, linked, breaks, store>>
  BY <1>1, Zenon DEF Resync
<1>3. r \in Pod /\ r.name = n
  BY <1>1, <1>2, Zenon DEF InformerInv, InformerTypes, Filed
<1>4. e \in Event /\ e.pod = r /\ e.type = "set"
  BY <1>3, Zenon DEF Event
<1>5. events' \in Seq(Event)
  BY <1>2, <1>4, AppendEvents, Zenon DEF InformerInv, InformerTypes
<1>6. InformerTypes'
  BY <1>2, <1>5, Zenon DEF InformerInv, InformerTypes, Filed
<1>7. ASSUME breaks' = 0 PROVE \A i \in 1..Len(events') : Concludes(i)'
  <2>1. breaks = 0 /\ store = api
    BY <1>2, <1>7, Zenon DEF InformerInv
  <2>2. Here(r)'
    BY <1>1, <1>2, <1>3, <2>1, Zenon DEF Here
  <2>3. \A p \in Pod : Here(p) => Here(p)'
    BY <1>2, Zenon DEF Here
  <2> HIDE DEF e
  <2> QED
    BY <1>2, <1>4, <2>1, <2>2, <2>3, AppendEnds, Zenon DEF InformerInv
<1> QED
  BY <1>2, <1>6, <1>7, Zenon DEF InformerInv

\* Notifications of the pods m files under the names D.
Notices(m, D, type) == {[type |-> type, pod |-> m[n]] : n \in D}

LEMMA ListedEvents ==
    ASSUME NEW m, Filed(m), NEW D \in SUBSET DOMAIN m, NEW type \in {"set", "delete", "tombstone"},
           NEW S, S = Notices(m, D, type), NEW t \in Orders(S)
    PROVE  Lists(t, S) /\ S \subseteq Event
<1>1. S \subseteq Event
  BY DEF Event, Filed, Notices
<1> QED
  BY <1>1, OrdersList, Zenon

\* What a sequence that is put together is made of.
Joined(r, s, A, B) ==
    /\ r \in Seq(Event) /\ Len(s) \in Nat /\ Len(s) <= Len(r)
    /\ \A i \in 1..Len(s) : r[i] = s[i]
    /\ \A i \in 1..Len(r) : i \in 1..Len(s) \/ r[i] \in A \cup B
    /\ \A x \in A : \E i \in 1..Len(r) : i \notin 1..Len(s) /\ r[i] = x

LEMMA ConcatElements ==
    ASSUME NEW s \in Seq(Event), NEW A \in SUBSET Event, NEW B \in SUBSET Event,
           NEW t, Lists(t, A), NEW u, Lists(u, B), NEW r, r = s \o t \o u
    PROVE  Joined(r, s, A, B)
<1>0. t \in Seq(A) /\ u \in Seq(B)
  BY Zenon DEF Lists
<1>1. t \in Seq(Event) /\ u \in Seq(Event) /\ s \o t \in Seq(Event)
  BY <1>0
<1>2. /\ Len(s) \in Nat /\ Len(t) \in Nat /\ Len(u) \in Nat
      /\ Len(s \o t) = Len(s) + Len(t) /\ Len(r) = Len(s) + Len(t) + Len(u) /\ r \in Seq(Event)
  BY <1>1
<1>3. \A i \in 1..Len(t) : t[i] \in A
  BY <1>0
<1>4. \A i \in 1..Len(u) : u[i] \in B
  BY <1>0
<1>5. \A i \in 1..Len(s) : r[i] = s[i]
  BY <1>1, <1>2
<1>6. \A i \in 1..Len(t) : Len(s) + i \in 1..Len(r) /\ Len(s) + i \notin 1..Len(s) /\ r[Len(s) + i] = t[i]
  BY <1>1, <1>2
<1>7. ASSUME NEW i \in 1..Len(r), i \notin 1..Len(s) PROVE r[i] \in A \cup B
  <2>1. CASE i <= Len(s) + Len(t)
    <3>1. r[i] = t[i - Len(s)] /\ i - Len(s) \in 1..Len(t)
      BY <1>1, <1>2, <1>7, <2>1
    <3> QED
      BY <1>3, <3>1, Zenon
  <2>2. CASE Len(s) + Len(t) < i
    <3>1. r[i] = u[i - Len(s \o t)] /\ i - Len(s \o t) \in 1..Len(u)
      BY <1>1, <1>2, <1>7, <2>2
    <3> QED
      BY <1>4, <3>1, Zenon
  <2> QED
    BY <1>2, <2>1, <2>2
<1>8. \A x \in A : \E i \in 1..Len(r) : i \notin 1..Len(s) /\ r[i] = x
  <2> SUFFICES ASSUME NEW x \in A PROVE \E i \in 1..Len(r) : i \notin 1..Len(s) /\ r[i] = x
    OBVIOUS
  <2>1. PICK k \in 1..Len(t) : t[k] = x
    BY Zenon DEF Lists
  <2>2. PICK i : i = Len(s) + k
    OBVIOUS
  <2>3. i \in 1..Len(r) /\ i \notin 1..Len(s) /\ r[i] = x
    BY <1>6, <2>1, <2>2, Zenon
  <2> QED
    BY <2>3, Zenon
<1>9. Len(s) <= Len(r)
  BY <1>2
<1> QED
  BY <1>2, <1>5, <1>7, <1>8, <1>9, Zenon DEF Joined

\* A new list comes after what waits.  It has the pods that changed and the ones that
\* are gone.
Relisted(s, r) ==
    /\ r \in Seq(Event) /\ Len(s) \in Nat /\ Len(s) <= Len(r)
    /\ \A i \in 1..Len(s) : r[i] = s[i]
    /\ \A i \in 1..Len(r) : \/ i \in 1..Len(s)
                            \/ r[i].type = "set" /\ \E n \in Changed : r[i].pod = api[n]
                            \/ r[i].type = "tombstone" /\ \E n \in Gone : r[i].pod = store[n]
    /\ \A n \in Changed :
           \E i \in 1..Len(r) : i \notin 1..Len(s) /\ r[i].type = "set" /\ r[i].pod = api[n]

LEMMA RelistEvents ==
    ASSUME InformerInv, Relist
    PROVE  Relisted(events, events')
<1>1. PICK A : A = Notices(api, Changed, "set")
  OBVIOUS
<1>2. PICK B : B = Notices(store, Gone, "tombstone")
  OBVIOUS
<1>3. PICK s, r : s = events /\ r = events'
  OBVIOUS
<1>7. PICK t \in Orders(A), u \in Orders(B) : r = s \o t \o u
  BY <1>1, <1>2, <1>3, Zenon DEF Relist, Notices
<1>4. Filed(api) /\ Filed(store) /\ s \in Seq(Event)
  BY <1>3, Zenon DEF InformerInv, InformerTypes
<1>5. Lists(t, A) /\ A \subseteq Event
  <2>1. PICK m, D : m = api /\ D = Changed
    OBVIOUS
  <2>2. Filed(m) /\ D \subseteq DOMAIN m /\ A = Notices(m, D, "set")
    BY <1>1, <1>4, <2>1, Zenon DEF Changed
  <2> QED
    BY <2>2, ListedEvents, Zenon
<1>6. Lists(u, B) /\ B \subseteq Event
  <2>1. PICK m, D : m = store /\ D = Gone
    OBVIOUS
  <2>2. Filed(m) /\ D \subseteq DOMAIN m /\ B = Notices(m, D, "tombstone")
    BY <1>2, <1>4, <2>1, Zenon DEF Gone
  <2> QED
    BY <2>2, ListedEvents, Zenon
<1>8. Joined(r, s, A, B)
  BY <1>4, <1>5, <1>6, <1>7, ConcatElements, Zenon
<1>9. /\ \A x \in A : x.type = "set" /\ \E n \in Changed : x.pod = api[n]
      /\ \A x \in B : x.type = "tombstone" /\ \E n \in Gone : x.pod = store[n]
  BY <1>1, <1>2 DEF Notices
<1>10. ASSUME NEW n \in Changed PROVE \E x \in A : x.type = "set" /\ x.pod = api[n]
  <2>1. PICK x : x = [type |-> "set", pod |-> api[n]]
    BY Zenon
  <2>2. x \in A
    BY <1>1, <2>1, Zenon DEF Notices
  <2> QED
    BY <2>1, <2>2, Zenon
<1>11. Relisted(s, r)
  <2>1. r \in Seq(Event) /\ Len(s) \in Nat /\ Len(s) <= Len(r) /\ \A i \in 1..Len(s) : r[i] = s[i]
    BY <1>4, <1>8, Zenon DEF Joined
  <2>2. \A i \in 1..Len(r) : \/ i \in 1..Len(s)
                             \/ r[i].type = "set" /\ \E n \in Changed : r[i].pod = api[n]
                             \/ r[i].type = "tombstone" /\ \E n \in Gone : r[i].pod = store[n]
    <3> TAKE i \in 1..Len(r)
    <3>1. i \in 1..Len(s) \/ r[i] \in A \/ r[i] \in B
      BY <1>8, Zenon DEF Joined
    <3> QED
      BY <1>9, <3>1, Zenon
  <2>3. \A n \in Changed :
            \E i \in 1..Len(r) : i \notin 1..Len(s) /\ r[i].type = "set" /\ r[i].pod = api[n]
    <3> TAKE n \in Changed
    <3>1. PICK x \in A : x.type = "set" /\ x.pod = api[n]
      BY <1>10, Zenon
    <3> QED
      BY <1>8, <3>1, Zenon DEF Joined
  <2> QED
    BY <2>1, <2>2, <2>3, Zenon DEF Relisted
<1> QED
  BY <1>3, <1>11, Zenon

LEMMA RelistStep ==
    ASSUME InformerInv, Relist
    PROVE  InformerInv'
<1>1. /\ ~linked /\ linked' = TRUE /\ store' = api
      /\ UNCHANGED <<now, made, api, breaks>> /\ events' \in Seq(Event)
  BY RelistEvents, ZenonT(30) DEF Relist, Relisted
<1>2. InformerTypes' /\ breaks' # 0
  BY <1>1, Zenon DEF InformerInv, InformerTypes, Filed
<1> QED
  BY <1>2, Zenon DEF InformerInv

LEMMA IdleStep ==
    ASSUME InformerInv, Break \/ Tick \/ UNCHANGED informer
    PROVE  InformerInv' /\ UNCHANGED <<made, api, store, events>>
<1>1. /\ UNCHANGED <<made, api, store, events>>
      /\ now' \in 1..MaxTime /\ breaks' \in Nat
      /\ breaks' = 0 => breaks = 0 /\ linked' = linked
  BY InformerAssumption DEF Break, Tick, informer, InformerInv, InformerTypes
<1>2. InformerTypes'
  BY <1>1, Zenon DEF InformerInv, InformerTypes, Filed
<1>3. \A i : Concludes(i) => Concludes(i)'
  BY <1>1, Zenon DEF Concludes, Here
<1> QED
  BY <1>1, <1>2, <1>3 DEF InformerInv

\* The steps of the API server and of the informer keep the invariant.
LEMMA ClusterStep ==
    ASSUME InformerInv, Cluster
    PROVE  InformerInv'
<1>1. ASSUME NEW n \in Names, NEW ip \in IPs, BeginPod(n, ip) PROVE InformerInv'
  <2>1. PICK q : q = [api[n] EXCEPT !.phase = "Running", !.ip = ip]
    OBVIOUS
  <2>2. n \in DOMAIN api /\ Update(n, q)
    BY <1>1, <2>1, Zenon DEF BeginPod
  <2> QED
    BY <2>1, <2>2, UpdatedPods, UpdateStep, Zenon
<1>2. ASSUME NEW n \in Names, TerminatePod(n) PROVE InformerInv'
  <2>1. PICK q : q = [api[n] EXCEPT !.phase = "Succeeded"]
    BY Zenon
  <2>2. n \in DOMAIN api /\ Update(n, q)
    BY <1>2, <2>1, Zenon DEF TerminatePod
  <2> QED
    BY <2>1, <2>2, UpdatedPods, UpdateStep, Zenon
<1>3. ASSUME NEW n \in Names, NEW grace \in Graces, RequestDelete(n, grace) PROVE InformerInv'
  <2>1. PICK q : q = [api[n] EXCEPT !.deleted = now + grace]
    BY Zenon
  <2>2. n \in DOMAIN api /\ Update(n, q)
    BY <1>3, <2>1, Zenon DEF RequestDelete
  <2> QED
    BY <2>1, <2>2, UpdatedPods, UpdateStep, Zenon
<1> QED
  BY <1>1, <1>2, <1>3, CreateStep, RemoveStep, ResyncStep, RelistStep, IdleStep, Zenon DEF Cluster

LEMMA InformerStarts ==
    ASSUME InformerInit
    PROVE  InformerInv /\ Objects = {} /\ made = 0
<1>1. DOMAIN EmptyMap = {}
  BY Zenon DEF EmptyMap
<1>2. InformerTypes /\ Len(events) = 0
  BY <1>1, InformerAssumption DEF InformerInit, InformerTypes, Filed
<1> QED
  BY <1>1, <1>2 DEF InformerInit, InformerInv, Objects

-----------------------------------------------------------------------------
(* The handler takes a notification. *)

LEMMA TakeStep ==
    ASSUME InformerInv, NEW type, Take(type)
    PROVE  /\ InformerInv'
           /\ Head(events) \in Event /\ Head(events).type = type
           /\ Head(events).pod \in Objects /\ Objects' \subseteq Objects
           /\ UNCHANGED <<api, made, now, breaks>>
<1> DEFINE s == Tail(events)
           l == Len(events)
<1>1. /\ events \in Seq(Event) /\ events # <<>> /\ events' = s
      /\ UNCHANGED <<now, made, api, linked, breaks, store>>
  BY Zenon DEF Take, InformerInv, InformerTypes
<1>2. /\ s \in Seq(Event) /\ Head(events) \in Event /\ Head(events) = events[1]
      /\ l \in Nat /\ l >= 1 /\ Len(s) = l - 1
      /\ \A i \in 1..Len(s) : s[i] = events[i + 1]
  BY <1>1, TakeEvents, Zenon
<1> HIDE DEF s, l
<1>3. InformerTypes'
  BY <1>1, <1>2, Zenon DEF InformerInv, InformerTypes, Filed
<1>4. ASSUME breaks = 0, NEW i \in 1..Len(s) PROVE Concludes(i)'
  <2>1. i + 1 \in 1..l /\ s[i] = events[i + 1]
    BY <1>2
  <2>2. Concludes(i + 1)
    BY <1>4, <2>1, Zenon DEF InformerInv, l
  <2>3. CASE Here(events[i + 1].pod)
    BY <1>1, <2>1, <2>3, Zenon DEF Concludes, Here
  <2>4. ASSUME NEW j \in i + 1..l, events[j].type = "delete", events[j].pod.uid = events[i + 1].pod.uid
        PROVE  Concludes(i)'
    <3>1. j - 1 \in i..Len(s) /\ j - 1 \in 1..Len(s) /\ (j - 1) + 1 = j
      BY <1>2, <2>4
    <3>2. s[j - 1] = events[j]
      BY <1>2, <3>1, Zenon
    <3> QED
      BY <1>1, <2>1, <2>4, <3>1, <3>2, Zenon DEF Concludes
  <2> QED
    BY <2>2, <2>3, <2>4, Zenon DEF Concludes, l
<1>5. InformerInv'
  BY <1>1, <1>3, <1>4, Zenon DEF InformerInv
<1>6. \A i \in 1..Len(s) : \E j \in 1..l : s[i].pod = events[j].pod
  BY <1>2
<1>7. Objects' \subseteq Objects
  BY <1>1, <1>6 DEF Objects, l
<1>8. Head(events).pod \in Objects
  BY <1>2 DEF Objects, l
<1> QED
  BY <1>1, <1>2, <1>5, <1>7, <1>8, Zenon DEF Take

\* The pod p is in the API server, or its deletion waits for the handler.
Settles(p) == Here(p) \/ PendingEvent("delete", p.uid)

\* Taking a notification leaves that to be, unless it was the pod's deletion.
LEMMA TakeSettles ==
    ASSUME InformerInv, NEW type, Take(type)
    PROVE  /\ \A p : Settles(p) =>
                  Settles(p)' \/ (type = "delete" /\ Head(events).pod.uid = p.uid)
           /\ breaks = 0 /\ type # "delete" => Settles(Head(events).pod)
<1> DEFINE s == Tail(events)
           l == Len(events)
<1>1. /\ events \in Seq(Event) /\ events # <<>> /\ events' = s /\ UNCHANGED api
      /\ Head(events).type = type
  BY Zenon DEF Take, InformerInv, InformerTypes
<1>2. /\ s \in Seq(Event) /\ Head(events) = events[1]
      /\ l \in Nat /\ l >= 1 /\ Len(s) = l - 1
      /\ \A i \in 1..Len(s) : s[i] = events[i + 1]
      /\ DOMAIN events = 1..l /\ DOMAIN s = 1..Len(s)
  BY <1>1, TakeEvents
<1> HIDE DEF s, l
<1>3. ASSUME NEW p, Here(p) PROVE Settles(p)'
  BY <1>1, <1>3, Zenon DEF Here, Settles
<1>4. ASSUME NEW p, NEW i \in 1..l, events[i].type = "delete", events[i].pod.uid = p.uid
      PROVE  Settles(p)' \/ (type = "delete" /\ Head(events).pod.uid = p.uid)
  <2>1. CASE i = 1
    BY <1>1, <1>2, <1>4, <2>1, Zenon
  <2>2. CASE i # 1
    <3>1. i - 1 \in 1..Len(s) /\ (i - 1) + 1 = i
      BY <1>2, <1>4, <2>2
    <3>2. s[i - 1] = events[i]
      BY <1>2, <3>1, Zenon
    <3> QED
      BY <1>1, <1>2, <1>4, <3>1, <3>2, Zenon DEF Settles, PendingEvent
  <2> QED
    BY <2>1, <2>2, Zenon
<1>5. ASSUME breaks = 0 PROVE Settles(Head(events).pod)
  <2>1. Concludes(1)
    BY <1>2, <1>5 DEF InformerInv, l
  <2> QED
    BY <1>2, <2>1, Zenon DEF Concludes, Settles, PendingEvent, l
<1> QED
  BY <1>2, <1>3, <1>4, <1>5, Zenon DEF Settles, PendingEvent

-----------------------------------------------------------------------------
(* What the API server's and the informer's steps add to what is known. *)

\* A notification is appended, of q or of a pod of the store, or none is; and
\* who leaves the API server is notified.
Notified(q) ==
    /\ \/ UNCHANGED events
       \/ \E type \in {"set", "delete"} : events' = Append(events, [type |-> type, pod |-> q])
    /\ \A p \in Pod : Here(p) =>
           \/ Here(p)'
           \/ linked => events' = Append(events, [type |-> "delete", pod |-> q]) /\ q.uid = p.uid

\* q is a pod that is known, a later state of one, or new.
Grows(q) ==
    /\ q \in Pod /\ Objects' \subseteq Objects \cup {q}
    /\ \/ made' = made /\ \E p \in Objects : p.uid = q.uid /\ p.name = q.name
       \/ made' = made + 1 /\ q.uid = made + 1

LEMMA WatchedGrows ==
    ASSUME InformerInv, NEW type \in {"set", "delete"}, NEW q \in Pod, Watched(type, q),
           \A n \in DOMAIN api' : api'[n] = q \/ (n \in DOMAIN api /\ api'[n] = api[n])
    PROVE  Objects' \subseteq Objects \cup {q}
<1> DEFINE e == [type |-> type, pod |-> q]
<1>1. e \in Event /\ e.pod = q /\ events \in Seq(Event)
  BY Zenon DEF Event, InformerInv, InformerTypes
<1>2. {api'[n] : n \in DOMAIN api'} \subseteq {api[n] : n \in DOMAIN api} \cup {q}
  OBVIOUS
<1>3. CASE linked
  <2>1. store' = api' /\ events' = Append(events, e)
    BY <1>3, Zenon DEF Watched
  <2> HIDE DEF e
  <2>2. \A i \in 1..Len(events') : events'[i] = e \/ \E j \in 1..Len(events) : events'[i] = events[j]
    BY <1>1, <2>1, AppendEvents
  <2>3. {events'[i].pod : i \in 1..Len(events')} \subseteq {events[i].pod : i \in 1..Len(events)} \cup {q}
    BY <1>1, <2>2
  <2> QED
    BY <1>2, <2>1, <2>3, Zenon DEF Objects
<1>4. CASE ~linked
  BY <1>2, <1>4, Zenon DEF Watched, Objects
<1> QED
  BY <1>3, <1>4, Zenon

LEMMA UpdateGrows ==
    ASSUME InformerInv, NEW n \in DOMAIN api, NEW q \in Pod,
           q.name = n, q.uid = api[n].uid, Update(n, q)
    PROVE  Grows(q) /\ Notified(q)
<1>1. api' = Put(api, q.name, q) /\ Watched("set", q) /\ UNCHANGED made /\ Filed(api)
  BY Zenon DEF Update, InformerInv, InformerTypes
<1>2. /\ DOMAIN api' = DOMAIN api \cup {n} /\ api'[n] = q
      /\ \A k \in DOMAIN api \ {n} : api'[k] = api[k]
  <2>1. /\ DOMAIN api' = DOMAIN api \cup {q.name} /\ api'[q.name] = q
        /\ \A k \in DOMAIN api \ {q.name} : api'[k] = api[k]
    BY <1>1, PutFiled
  <2> QED
    BY <2>1, Zenon
<1>3. \A p \in Pod : Here(p) => Here(p)'
  BY <1>2, Zenon DEF Here
<1>4. Objects' \subseteq Objects \cup {q}
  BY <1>1, <1>2, WatchedGrows, Zenon
<1>5. api[n] \in Objects /\ api[n].uid = q.uid /\ api[n].name = q.name
  BY <1>1, Zenon DEF Objects, Filed
<1>6. UNCHANGED events \/ events' = Append(events, [type |-> "set", pod |-> q])
  BY <1>1, Zenon DEF Watched
<1>7. Grows(q)
  BY <1>1, <1>4, <1>5, Zenon DEF Grows
<1>8. Notified(q)
  BY <1>3, <1>6, Zenon DEF Notified
<1> QED
  BY <1>7, <1>8, Zenon

LEMMA CreateGrows ==
    ASSUME InformerInv, NEW n \in Names, CreatePod(n)
    PROVE  \E q : Grows(q) /\ Notified(q)
<1>1. PICK q \in Pod : q.uid = made + 1 /\ q.name = n /\ api' = Put(api, n, q) /\ Watched("set", q)
  BY CreateStep, Zenon
<1>2. Filed(api) /\ n \notin DOMAIN api /\ made' = made + 1 /\ api' = Put(api, q.name, q)
  BY <1>1, Zenon DEF CreatePod, InformerInv, InformerTypes
<1>3. /\ DOMAIN api' = DOMAIN api \cup {n} /\ api'[n] = q
      /\ \A k \in DOMAIN api \ {n} : api'[k] = api[k]
  <2>1. /\ DOMAIN api' = DOMAIN api \cup {q.name} /\ api'[q.name] = q
        /\ \A k \in DOMAIN api \ {q.name} : api'[k] = api[k]
    BY <1>2, PutFiled, ZenonT(30)
  <2> QED
    BY <1>1, <2>1, Zenon
<1>4. \A p \in Pod : Here(p) => Here(p)'
  BY <1>2, <1>3, Zenon DEF Here
<1>5. Objects' \subseteq Objects \cup {q}
  BY <1>1, <1>3, WatchedGrows, Zenon
<1>6. UNCHANGED events \/ events' = Append(events, [type |-> "set", pod |-> q])
  BY <1>1, Zenon DEF Watched
<1>7. Grows(q)
  BY <1>1, <1>2, <1>5, Zenon DEF Grows
<1>8. Notified(q)
  BY <1>4, <1>6, Zenon DEF Notified
<1> QED
  BY <1>7, <1>8, Zenon

LEMMA RemoveGrows ==
    ASSUME InformerInv, NEW n \in Names, RemovePod(n)
    PROVE  \E q : Grows(q) /\ Notified(q)
<1>1. PICK q : q = api[n]
  OBVIOUS
<1>2. /\ n \in DOMAIN api /\ api' = Without(api, n) /\ Watched("delete", q)
      /\ UNCHANGED made /\ Filed(api)
  BY <1>1, Zenon DEF RemovePod, InformerInv, InformerTypes
<1>3. /\ DOMAIN api' = DOMAIN api \ {n}
      /\ \A k \in DOMAIN api \ {n} : api'[k] = api[k]
  BY <1>2, WithoutFiled, Zenon
<1>4. q \in Pod /\ q \in Objects
  BY <1>1, <1>2, Zenon DEF Filed, Objects
<1>5. Objects' \subseteq Objects \cup {q}
  BY <1>2, <1>3, <1>4, WatchedGrows, Zenon
<1>6. \A p \in Pod : Here(p) => Here(p)' \/ q.uid = p.uid
  BY <1>1, <1>3, Zenon DEF Here
<1>7. IF linked THEN events' = Append(events, [type |-> "delete", pod |-> q]) ELSE UNCHANGED events
  BY <1>2, Zenon DEF Watched
<1>8. Grows(q)
  BY <1>2, <1>4, <1>5, Zenon DEF Grows
<1>9. UNCHANGED events \/ \E type \in {"set", "delete"} : events' = Append(events, [type |-> type, pod |-> q])
  BY <1>7, Zenon
<1>10. Notified(q)
  BY <1>6, <1>7, <1>9, Zenon DEF Notified
<1> QED
  BY <1>8, <1>10, Zenon

LEMMA ResyncGrows ==
    ASSUME InformerInv, NEW n \in Names, Resync(n)
    PROVE  \E q : Grows(q) /\ Notified(q)
<1>1. PICK q : q = store[n]
  OBVIOUS
<1> DEFINE e == [type |-> "set", pod |-> q]
<1>2. /\ n \in DOMAIN store /\ events' = Append(events, e)
      /\ UNCHANGED <<made, api, store>>
  BY <1>1, Zenon DEF Resync
<1>3. q \in Pod /\ q \in Objects /\ events \in Seq(Event)
  BY <1>1, <1>2, Zenon DEF InformerInv, InformerTypes, Filed, Objects
<1>4. e \in Event /\ e.pod = q
  BY <1>3, Zenon DEF Event
<1>5. Notified(q)
  BY <1>2, Zenon DEF Notified, Here
<1> HIDE DEF e
<1>6. \A i \in 1..Len(events') : events'[i] = e \/ \E j \in 1..Len(events) : events'[i] = events[j]
  BY <1>2, <1>3, <1>4, AppendEvents
<1>7. Objects' \subseteq Objects
  <2>1. \A i \in 1..Len(events') : events'[i].pod \in Objects
    BY <1>3, <1>4, <1>6 DEF Objects
  <2> QED
    BY <1>2, <2>1 DEF Objects
<1> QED
  BY <1>2, <1>3, <1>5, <1>7, Zenon DEF Grows

\* Every such step grows by one pod at most, or says nothing new.
LEMMA ClusterGrows ==
    ASSUME InformerInv, Cluster
    PROVE  \/ \E q : Grows(q) /\ Notified(q)
           \/ /\ Objects' \subseteq Objects /\ UNCHANGED <<made, api>>
              /\ breaks' = 0 => UNCHANGED events
<1>1. ASSUME NEW n \in Names, NEW ip \in IPs, BeginPod(n, ip) PROVE \E q : Grows(q) /\ Notified(q)
  <2>1. PICK q : q = [api[n] EXCEPT !.phase = "Running", !.ip = ip]
    OBVIOUS
  <2>2. n \in DOMAIN api /\ Update(n, q)
    BY <1>1, <2>1, Zenon DEF BeginPod
  <2> QED
    BY <2>1, <2>2, UpdatedPods, UpdateGrows, ZenonT(30)
<1>2. ASSUME NEW n \in Names, TerminatePod(n) PROVE \E q : Grows(q) /\ Notified(q)
  <2>1. PICK q : q = [api[n] EXCEPT !.phase = "Succeeded"]
    BY Zenon
  <2>2. n \in DOMAIN api /\ Update(n, q)
    BY <1>2, <2>1, Zenon DEF TerminatePod
  <2> QED
    BY <2>1, <2>2, UpdatedPods, UpdateGrows, ZenonT(30)
<1>3. ASSUME NEW n \in Names, NEW grace \in Graces, RequestDelete(n, grace)
      PROVE  \E q : Grows(q) /\ Notified(q)
  <2>1. PICK q : q = [api[n] EXCEPT !.deleted = now + grace]
    BY Zenon
  <2>2. n \in DOMAIN api /\ Update(n, q)
    BY <1>3, <2>1, Zenon DEF RequestDelete
  <2> QED
    BY <2>1, <2>2, UpdatedPods, UpdateGrows, Zenon
<1>4. ASSUME Relist PROVE Objects' \subseteq Objects /\ UNCHANGED <<made, api>> /\ breaks' # 0
  <2>1. UNCHANGED <<made, api, breaks>> /\ store' = api /\ breaks # 0
    BY <1>4, Zenon DEF Relist, InformerInv
  <2>2. \A i \in 1..Len(events') :
            \/ i \in 1..Len(events) /\ events'[i] = events[i]
            \/ \E n \in DOMAIN api : events'[i].pod = api[n]
            \/ \E n \in DOMAIN store : events'[i].pod = store[n]
    BY <1>4, RelistEvents DEF Relisted, Changed, Gone
  <2> QED
    BY <2>1, <2>2 DEF Objects
<1>5. ASSUME Break \/ Tick PROVE Objects' \subseteq Objects /\ UNCHANGED <<made, api, events>>
  BY <1>5, IdleStep, Zenon DEF Objects
<1> QED
  BY <1>1, <1>2, <1>3, <1>4, <1>5, CreateGrows, RemoveGrows, ResyncGrows, Zenon DEF Cluster

-----------------------------------------------------------------------------
(* The two facts the caches use. *)

LEMMA BreaksGrow ==
    ASSUME InformerInv, Cluster
    PROVE  breaks' = 0 => breaks = 0
<1>1. breaks' = breaks \/ breaks' = breaks + 1
  BY Zenon DEF Cluster, CreatePod, TerminatePod, RemovePod, Resync, BeginPod, RequestDelete, Update,
         Watched, Break, Relist, Tick
<1>2. breaks \in Nat
  BY Zenon DEF InformerInv, InformerTypes
<1> QED
  BY <1>1, <1>2

LEMMA ClusterSettles ==
    ASSUME InformerInv, Cluster, breaks' = 0, NEW p \in Pod, Settles(p)
    PROVE  Settles(p)'
<1>1. breaks = 0 /\ linked /\ events \in Seq(Event)
  BY BreaksGrow, Zenon DEF InformerInv, InformerTypes
<1>2. CASE UNCHANGED <<api, events>>
  BY <1>2, Zenon DEF Settles, Here, PendingEvent
<1>3. ASSUME NEW q, Grows(q), Notified(q) PROVE Settles(p)'
  <2>1. ASSUME NEW type \in {"set", "delete"}, NEW e \in Event, e.type = type, e.pod = q,
               events' = Append(events, e)
        PROVE  /\ PendingEvent("delete", p.uid) => PendingEvent("delete", p.uid)'
               /\ type = "delete" /\ q.uid = p.uid => PendingEvent("delete", p.uid)'
    <3>1. /\ Len(events) \in Nat /\ Len(events') = Len(events) + 1 /\ events'[Len(events) + 1] = e
          /\ \A i \in 1..Len(events) : events'[i] = events[i]
          /\ DOMAIN events = 1..Len(events) /\ DOMAIN events' = 1..Len(events')
      BY <1>1, <2>1, AppendEvents
    <3> QED
      BY <2>1, <3>1 DEF PendingEvent
  <2>2. \A type \in {"set", "delete"} : [type |-> type, pod |-> q] \in Event
    BY <1>3, Zenon DEF Grows, Event
  <2>3. PendingEvent("delete", p.uid) => PendingEvent("delete", p.uid)'
    <3>1. CASE UNCHANGED events
      BY <3>1, Zenon DEF PendingEvent
    <3>2. ASSUME NEW type \in {"set", "delete"}, events' = Append(events, [type |-> type, pod |-> q])
          PROVE  PendingEvent("delete", p.uid) => PendingEvent("delete", p.uid)'
      BY <2>1, <2>2, <3>2, Zenon
    <3> QED
      BY <1>3, <3>1, <3>2, Zenon DEF Notified
  <2>4. Here(p) => Here(p)' \/ PendingEvent("delete", p.uid)'
    BY <1>1, <1>3, <2>1, <2>2, Zenon DEF Notified
  <2> QED
    BY <2>3, <2>4, Zenon DEF Settles
<1> QED
  BY <1>2, <1>3, ClusterGrows, Zenon

LEMMA ClusterAgrees ==
    ASSUME InformerInv, Cluster, NEW K, Agree(K \cup Objects, made)
    PROVE  Agree(K \cup Objects', made')
<1>1. made \in Nat
  BY InformerAssumption DEF InformerInv, InformerTypes
<1>2. CASE Objects' \subseteq Objects /\ UNCHANGED made
  BY <1>2, Zenon DEF Agree
<1>3. ASSUME NEW q, Grows(q), made' = made, NEW p \in Objects, p.uid = q.uid, p.name = q.name
      PROVE  Agree(K \cup Objects', made')
  BY <1>3 DEF Agree, Grows
<1>4. ASSUME NEW q, Grows(q), made' = made + 1, q.uid = made + 1
      PROVE  Agree(K \cup Objects', made')
  <2>1. K \cup Objects' \subseteq (K \cup Objects) \cup {q} /\ q \in Pod
    BY <1>4, Zenon DEF Grows
  <2>2. \A r \in K \cup Objects : r.uid \in Int /\ r.uid <= made /\ r.uid # q.uid
    BY <1>1, <1>4 DEF Agree, Pod
  <2>3. \A r \in K \cup Objects' : r.uid <= made'
    BY <1>1, <1>4, <2>1, <2>2
  <2> QED
    BY <2>1, <2>2, <2>3, Zenon DEF Agree
<1> QED
  BY <1>2, <1>3, <1>4, ClusterGrows, Zenon DEF Grows

-----------------------------------------------------------------------------
(* Versions of a pod.  A pod is deleted once and terminates once, and what  *)
(* waits for the handler, what the informer stores and what the API server  *)
(* has are ever later versions.                                             *)

Later(p, q) ==
    p.uid = q.uid => /\ p.deleted # NoTime => q.deleted = p.deleted
                     /\ p.phase = "Succeeded" => q.phase = "Succeeded"

Before(K, S) == \A p \in K : \A q \in S : Later(p, q)

Served == {api[n] : n \in DOMAIN api}

Stored == {store[n] : n \in DOMAIN store}

Queued == {events[i].pod : i \in 1..Len(events)}

\* K is what a cache has taken from the notifications.
InOrder(K) ==
    /\ linked => store = api
    /\ Before(K, Queued) /\ Before(K \cup Queued, Stored) /\ Before(K \cup Queued \cup Stored, Served)
    /\ \A i, j \in 1..Len(events) : i < j => Later(events[i].pod, events[j].pod)

LEMMA LaterFacts ==
    ASSUME NEW p, NEW q, NEW r
    PROVE  /\ Later(p, p)
           /\ Later(p, q) /\ Later(q, r) /\ q.uid = r.uid => Later(p, r)
  BY Zenon DEF Later

\* One version of a pod at a time.
LEMMA OneVersion ==
    ASSUME NEW m, Filed(m), NEW c, Agree({m[n] : n \in DOMAIN m}, c)
    PROVE  Before({m[n] : n \in DOMAIN m}, {m[n] : n \in DOMAIN m})
<1> SUFFICES ASSUME NEW n \in DOMAIN m, NEW k \in DOMAIN m PROVE Later(m[n], m[k])
  BY Zenon DEF Before
<1>1. m[n].uid = m[k].uid => n = k
  BY DEF Agree, Filed
<1> QED
  BY <1>1, Zenon DEF Later

LEMMA ServedOnce ==
    ASSUME InformerInv, NEW K, Agree(K \cup Objects, made)
    PROVE  Before(Served, Served) /\ Before(Stored, Stored)
<1>1. /\ Agree({api[n] : n \in DOMAIN api}, made) /\ Agree({store[n] : n \in DOMAIN store}, made)
      /\ Filed(api) /\ Filed(store)
  BY Zenon DEF Agree, Objects, InformerInv, InformerTypes
<1> QED
  BY <1>1, OneVersion, Zenon DEF Served, Stored

\* q is notified, and nothing that is known is later.
LEMMA WatchedOrder ==
    ASSUME InformerInv, NEW K, InOrder(K), NEW type \in {"set", "delete"}, NEW q \in Pod, Watched(type, q),
           Served' \subseteq Served \cup {q}, Before(K \cup Queued \cup Stored, {q}),
           Before({q} \cup Served', Served')
    PROVE  InOrder(K)'
<1> DEFINE e == [type |-> type, pod |-> q]
<1>1. e \in Event /\ e.pod = q /\ events \in Seq(Event) /\ linked' = linked
  BY Zenon DEF Event, InformerInv, InformerTypes, Watched
<1>2. CASE linked
  <2>1. store' = api' /\ events' = Append(events, e) /\ Stored' = Served' /\ Stored = Served
    BY <1>2, Zenon DEF Watched, Stored, Served, InOrder
  <2> HIDE DEF e
  <2> DEFINE l == Len(events)
  <2>2. /\ l \in Nat /\ Len(events') = l + 1 /\ events'[l + 1] = e
        /\ \A i \in 1..l : events'[i] = events[i]
    BY <1>1, <2>1, AppendEvents
  <2>3. Queued' = Queued \cup {q}
    BY <1>1, <2>2 DEF Queued
  <2>4. \A i, j \in 1..Len(events') : i < j => Later(events'[i].pod, events'[j].pod)
    <3> SUFFICES ASSUME NEW i \in 1..(l + 1), NEW j \in 1..(l + 1), i < j
                 PROVE  Later(events'[i].pod, events'[j].pod)
      BY <2>2, Zenon
    <3>1. i \in 1..l /\ events'[i] = events[i]
      BY <2>2
    <3>2. CASE j = l + 1
      BY <1>1, <2>2, <3>1, <3>2, Zenon DEF Before, Queued
    <3>3. CASE j \in 1..l
      BY <2>2, <3>1, <3>3, Zenon DEF InOrder
    <3> QED
      BY <2>2, <3>2, <3>3
  <2>5. Before(K, Queued') /\ Before(K \cup Queued', Served') /\ Before(K \cup Queued' \cup Served', Served')
    BY <2>1, <2>3, Zenon DEF Before, InOrder
  <2> QED
    BY <2>1, <2>4, <2>5, Zenon DEF InOrder
<1>3. CASE ~linked
  <2>1. UNCHANGED <<store, events>> /\ Stored' = Stored /\ Queued' = Queued
    BY <1>3, Zenon DEF Watched, Stored, Queued
  <2>2. Before(K \cup Queued \cup Stored, Served')
    BY Zenon DEF Before, InOrder
  <2> QED
    BY <1>1, <1>3, <2>1, <2>2, Zenon DEF InOrder
<1> QED
  BY <1>2, <1>3, Zenon

\* An update makes a later version.
LEMMA UpdateOrder ==
    ASSUME InformerInv, NEW K, Agree(K \cup Objects, made), InOrder(K),
           NEW n \in DOMAIN api, NEW q \in Pod, q.name = n, q.uid = api[n].uid, Later(api[n], q),
           Update(n, q)
    PROVE  InOrder(K)'
<1>1. api' = Put(api, q.name, q) /\ Watched("set", q) /\ Filed(api)
  BY Zenon DEF Update, InformerInv, InformerTypes
<1>2. /\ DOMAIN api' = DOMAIN api \cup {n} /\ api'[n] = q
      /\ \A k \in DOMAIN api \ {n} : api'[k] = api[k]
  <2>1. /\ DOMAIN api' = DOMAIN api \cup {q.name} /\ api'[q.name] = q
        /\ \A k \in DOMAIN api \ {q.name} : api'[k] = api[k]
    BY <1>1, PutServed, Zenon
  <2> QED
    BY <2>1, Zenon
<1>3. Served' \subseteq Served \cup {q}
  BY <1>2 DEF Served
<1>4. Before(K \cup Queued \cup Stored, {q})
  <2>1. Before(K \cup Queued \cup Stored, {api[n]})
    BY Zenon DEF InOrder, Before, Served
  <2> QED
    BY <2>1, LaterFacts, Zenon DEF Before
<1>5. \A k \in DOMAIN api \ {n} : api[k].uid # q.uid
  <2>1. \A k \in DOMAIN api : api[k] \in Objects /\ api[k].name = k
    BY <1>1, Zenon DEF Objects, Filed
  <2> QED
    BY <2>1 DEF Agree
<1>6. \A r \in Served' : r = q \/ (r \in Served /\ r.uid # q.uid)
  BY <1>2, <1>5 DEF Served
<1>7. Before(Served, Served)
  BY ServedOnce, Zenon
<1>8. Before({q} \cup Served', Served')
  <2> SUFFICES ASSUME NEW r \in {q} \cup Served', NEW s \in Served' PROVE Later(r, s)
    BY Zenon DEF Before
  <2>1. CASE r = q /\ s = q
    BY <2>1, LaterFacts, Zenon
  <2>2. CASE (r = q \/ s = q) /\ r.uid # s.uid
    BY <2>2, Zenon DEF Later
  <2>3. CASE r \in Served /\ s \in Served
    BY <1>7, <2>3, Zenon DEF Before
  <2> QED
    BY <1>6, <2>1, <2>2, <2>3, Zenon
<1> QED
  BY <1>1, <1>3, <1>4, <1>8, WatchedOrder, Zenon

LEMMA CreateOrder ==
    ASSUME InformerInv, NEW K, Agree(K \cup Objects, made), InOrder(K), NEW n \in Names, CreatePod(n)
    PROVE  InOrder(K)'
<1>1. PICK q \in Pod : q.uid = made + 1 /\ q.name = n /\ api' = Put(api, n, q) /\ Watched("set", q)
  BY CreateStep, Zenon
<1>2. Filed(api) /\ api' = Put(api, q.name, q) /\ made \in Nat
  BY <1>1, InformerAssumption DEF InformerInv, InformerTypes
<1>3. /\ DOMAIN api' = DOMAIN api \cup {q.name} /\ api'[q.name] = q
      /\ \A k \in DOMAIN api \ {q.name} : api'[k] = api[k]
  BY <1>2, PutServed, Zenon
<1>4. \A r \in K \cup Objects : r.uid # q.uid
  BY <1>1, <1>2 DEF Agree, Pod
<1>5. Served \cup Stored \cup Queued = Objects
  BY Zenon DEF Served, Stored, Queued, Objects
<1>6. Served' \subseteq Served \cup {q}
  BY <1>3 DEF Served
<1>7. Before(K \cup Queued \cup Stored, {q})
  BY <1>4, <1>5, Zenon DEF Before, Later
<1>8. Before(Served, Served)
  BY ServedOnce, Zenon
<1>9. Before({q} \cup Served', Served')
  BY <1>4, <1>5, <1>6, <1>8, Zenon DEF Before, Later
<1> QED
  BY <1>1, <1>6, <1>7, <1>9, WatchedOrder, Zenon

LEMMA RemoveOrder ==
    ASSUME InformerInv, NEW K, Agree(K \cup Objects, made), InOrder(K), NEW n \in Names, RemovePod(n)
    PROVE  InOrder(K)'
<1>1. PICK q : q = api[n]
  OBVIOUS
<1>2. n \in DOMAIN api /\ api' = Without(api, n) /\ Watched("delete", q) /\ Filed(api)
  BY <1>1, Zenon DEF RemovePod, InformerInv, InformerTypes
<1>3. /\ DOMAIN api' = DOMAIN api \ {n}
      /\ \A k \in DOMAIN api \ {n} : api'[k] = api[k]
  BY <1>2, WithoutFiled, Zenon
<1>4. q \in Pod /\ q \in Served /\ Served' \subseteq Served
  BY <1>1, <1>2, <1>3 DEF Filed, Served
<1>5. Before(K \cup Queued \cup Stored, {q})
  BY <1>4, Zenon DEF InOrder, Before
<1>6. Before({q} \cup Served', Served')
  BY <1>4, ServedOnce, Zenon DEF Before
<1> QED
  BY <1>2, <1>4, <1>5, <1>6, WatchedOrder, Zenon

LEMMA ResyncOrder ==
    ASSUME InformerInv, NEW K, Agree(K \cup Objects, made), InOrder(K), NEW n \in Names, Resync(n)
    PROVE  InOrder(K)'
<1>1. PICK q : q = store[n]
  OBVIOUS
<1> DEFINE e == [type |-> "set", pod |-> q]
           l == Len(events)
<1>2. n \in DOMAIN store /\ events' = Append(events, e) /\ UNCHANGED <<api, store, linked>>
  BY <1>1, Zenon DEF Resync
<1>3. q \in Pod /\ q \in Stored /\ events \in Seq(Event)
  BY <1>1, <1>2, Zenon DEF InformerInv, InformerTypes, Filed, Stored
<1>4. e \in Event /\ e.pod = q
  BY <1>3, Zenon DEF Event
<1> HIDE DEF e
<1>5. /\ l \in Nat /\ Len(events') = l + 1 /\ events'[l + 1] = e
      /\ \A i \in 1..l : events'[i] = events[i]
  BY <1>2, <1>3, <1>4, AppendEvents
<1>6. Queued' = Queued \cup {q} /\ Stored' = Stored /\ Served' = Served
  BY <1>2, <1>4, <1>5 DEF Queued, Stored, Served
<1>7. \A i, j \in 1..Len(events') : i < j => Later(events'[i].pod, events'[j].pod)
  <2> SUFFICES ASSUME NEW i \in 1..(l + 1), NEW j \in 1..(l + 1), i < j
               PROVE  Later(events'[i].pod, events'[j].pod)
    BY <1>5, Zenon
  <2>1. i \in 1..l /\ events'[i] = events[i]
    BY <1>5
  <2>2. CASE j = l + 1
    BY <1>3, <1>4, <1>5, <2>1, <2>2, ZenonT(30) DEF InOrder, Before, Queued
  <2>3. CASE j \in 1..l
    BY <1>5, <2>1, <2>3, Zenon DEF InOrder
  <2> QED
    BY <1>5, <2>2, <2>3
<1>8. Before(Stored, Stored)
  BY ServedOnce, Zenon
<1>9. Before(K, Queued') /\ Before(K \cup Queued', Stored) /\ Before(K \cup Queued' \cup Stored, Served)
  BY <1>3, <1>6, <1>8, Zenon DEF InOrder, Before
<1> QED
  BY <1>2, <1>6, <1>7, <1>9, Zenon DEF InOrder

LEMMA RelistOrder ==
    ASSUME InformerInv, NEW K, Agree(K \cup Objects, made), InOrder(K), Relist
    PROVE  InOrder(K)'
<1> DEFINE l == Len(events)
           New == {api[n] : n \in Changed} \cup {store[n] : n \in Gone}
<1>1. store' = api /\ UNCHANGED api /\ Stored' = Served /\ Served' = Served
  BY Zenon DEF Relist, Stored, Served
<1>2. /\ l \in Nat /\ l <= Len(events') /\ Len(events') \in Nat
      /\ \A i \in 1..l : events'[i] = events[i]
      /\ \A i \in 1..Len(events') : i \in 1..l \/ events'[i].pod \in New
  BY RelistEvents DEF Relisted
<1>3. Before(Served, Served) /\ Before(Stored, Stored)
  BY ServedOnce, Zenon
<1>4. New \subseteq Served \cup Stored
  BY Zenon DEF Changed, Gone, Served, Stored
<1>5. \A n \in DOMAIN api : \A k \in Gone : api[n].uid # store[k].uid
  <2>1. \A n \in DOMAIN api : api[n] \in Objects /\ api[n].name = n
    BY Zenon DEF Objects, InformerInv, InformerTypes, Filed
  <2>2. \A k \in Gone : store[k] \in Objects /\ store[k].name = k /\ k \notin DOMAIN api
    BY Zenon DEF Objects, InformerInv, InformerTypes, Filed, Gone
  <2> QED
    BY <2>1, <2>2 DEF Agree
<1>6. Before(New, New)
  <2> SUFFICES ASSUME NEW p \in New, NEW q \in New PROVE Later(p, q)
    BY Zenon DEF Before
  <2>1. CASE q \in Served
    BY <1>3, <1>4, <2>1, Zenon DEF Before, InOrder
  <2>2. CASE p \in Stored /\ q \in Stored
    BY <1>3, <2>2, Zenon DEF Before
  <2>3. ASSUME NEW n \in Changed, p = api[n], NEW k \in Gone, q = store[k] PROVE Later(p, q)
    BY <1>5, <2>3, Zenon DEF Later, Changed
  <2>4. \A n \in Changed : api[n] \in Served
    BY Zenon DEF Changed, Served
  <2>5. \A n \in Gone : store[n] \in Stored
    BY Zenon DEF Gone, Stored
  <2> QED
    BY <2>1, <2>2, <2>3, <2>4, <2>5, Zenon
<1>7. Before(K \cup Queued, New) /\ Before(New, Served)
  BY <1>3, <1>4, Zenon DEF Before, InOrder
<1> HIDE DEF New
<1>8. Queued' \subseteq Queued \cup New
  BY <1>2, Zenon DEF Queued
<1>9. Before(K, Queued') /\ Before(K \cup Queued' \cup Served, Served)
  BY <1>3, <1>7, <1>8, Zenon DEF Before, InOrder
<1>10. ASSUME NEW i \in 1..Len(events'), NEW j \in 1..Len(events'), i < j
       PROVE  Later(events'[i].pod, events'[j].pod)
  <2>1. CASE j \in 1..l
    <3>1. i \in 1..l
      BY <1>2, <1>10, <2>1
    <3> QED
      BY <1>2, <1>10, <2>1, <3>1, Zenon DEF InOrder
  <2>2. CASE i \in 1..l /\ events'[j].pod \in New
    BY <1>2, <1>7, <2>2, Zenon DEF Before, Queued
  <2>3. CASE events'[i].pod \in New /\ events'[j].pod \in New
    BY <1>6, <2>3, Zenon DEF Before
  <2> QED
    BY <1>2, <2>1, <2>2, <2>3, Zenon
<1> QED
  BY <1>1, <1>9, <1>10, Zenon DEF InOrder, Before

\* The steps of the API server and of the informer keep the order.
LEMMA ClusterOrder ==
    ASSUME InformerInv, NEW K, Agree(K \cup Objects, made), InOrder(K), Cluster
    PROVE  InOrder(K)'
<1>1. ASSUME NEW n \in Names, NEW ip \in IPs, BeginPod(n, ip) PROVE InOrder(K)'
  <2>1. PICK q : q = [api[n] EXCEPT !.phase = "Running", !.ip = ip]
    OBVIOUS
  <2>2. n \in DOMAIN api /\ Update(n, q) /\ api[n].phase = "Pending"
    BY <1>1, <2>1, Zenon DEF BeginPod
  <2>3. q \in Pod /\ q.name = n /\ q.uid = api[n].uid /\ api[n] \in Pod
    BY <2>1, <2>2, UpdatedPods, ZenonT(30)
  <2>4. Later(api[n], q)
    BY <2>1, <2>2, <2>3, Zenon DEF Later, Pod
  <2> QED
    BY <2>2, <2>3, <2>4, UpdateOrder, Zenon
<1>2. ASSUME NEW n \in Names, TerminatePod(n) PROVE InOrder(K)'
  <2>1. PICK q : q = [api[n] EXCEPT !.phase = "Succeeded"]
    BY Zenon
  <2>2. n \in DOMAIN api /\ Update(n, q)
    BY <1>2, <2>1, Zenon DEF TerminatePod
  <2>3. q \in Pod /\ q.name = n /\ q.uid = api[n].uid /\ api[n] \in Pod
    BY <2>1, <2>2, UpdatedPods, Zenon
  <2>4. Later(api[n], q)
    BY <2>1, <2>3, Zenon DEF Later, Pod
  <2> QED
    BY <2>2, <2>3, <2>4, UpdateOrder, Zenon
<1>3. ASSUME NEW n \in Names, NEW grace \in Graces, RequestDelete(n, grace) PROVE InOrder(K)'
  <2>1. PICK d : d = now + grace
    OBVIOUS
  <2>2. PICK q : q = [api[n] EXCEPT !.deleted = d]
    BY Zenon
  <2>3. n \in DOMAIN api /\ Update(n, q) /\ api[n].deleted = NoTime
    BY <1>3, <2>1, <2>2, Zenon DEF RequestDelete
  <2>4. q \in Pod /\ q.name = n /\ q.uid = api[n].uid /\ api[n] \in Pod
    <3>1. q = [api[n] EXCEPT !.deleted = now + grace]
      BY <2>1, <2>2, Zenon
    <3> QED
      BY <2>3, <3>1, UpdatedPods, Zenon
  <2>5. Later(api[n], q)
    BY <2>2, <2>3, <2>4, Zenon DEF Later, Pod
  <2> QED
    BY <2>3, <2>4, <2>5, UpdateOrder, Zenon
<1>4. ASSUME Break \/ Tick PROVE InOrder(K)'
  <2>1. UNCHANGED <<api, store, events>> /\ (linked' => linked)
    BY <1>4 DEF Break, Tick
  <2> QED
    BY <2>1, Zenon DEF InOrder, Queued, Stored, Served
<1> QED
  BY <1>1, <1>2, <1>3, <1>4, CreateOrder, RemoveOrder, ResyncOrder, RelistOrder, Zenon DEF Cluster

\* Who takes a notification has a version that is no later than the rest.
LEMMA TakeOrder ==
    ASSUME InformerInv, NEW K, InOrder(K), NEW type, Take(type),
           NEW L, L \subseteq K \cup {Head(events).pod}
    PROVE  InOrder(L)'
<1> DEFINE s == Tail(events)
           l == Len(events)
<1>1. events \in Seq(Event) /\ events # <<>> /\ events' = s /\ UNCHANGED <<api, linked, store>>
  BY Zenon DEF Take, InformerInv, InformerTypes
<1>2. /\ Head(events) = events[1] /\ l \in Nat /\ l >= 1 /\ Len(s) = l - 1
      /\ \A i \in 1..Len(s) : s[i] = events[i + 1]
  BY <1>1, TakeEvents, Zenon
<1> HIDE DEF s, l
<1>3. \A i \in 1..Len(s) : i + 1 \in 1..l /\ 1 < i + 1 /\ s[i] = events[i + 1]
  BY <1>2
<1>4. 1 \in 1..l /\ \A i, j \in 1..l : i < j => Later(events[i].pod, events[j].pod)
  BY <1>2 DEF InOrder, l
<1>5. \A i \in 1..Len(s) : Later(events[1].pod, s[i].pod)
  BY <1>3, <1>4, Zenon
<1>6. \A i, j \in 1..Len(s) : i < j => Later(s[i].pod, s[j].pod)
  <2> SUFFICES ASSUME NEW i \in 1..Len(s), NEW j \in 1..Len(s), i < j PROVE Later(s[i].pod, s[j].pod)
    OBVIOUS
  <2>1. i + 1 < j + 1
    BY <1>2
  <2> QED
    BY <1>3, <1>4, <2>1, Zenon
<1>7. Queued' \subseteq Queued /\ events[1].pod \in Queued /\ Stored' = Stored /\ Served' = Served
  BY <1>1, <1>3, <1>4 DEF Queued, Stored, Served, l
<1>8. \A q \in Queued' : Later(events[1].pod, q)
  BY <1>1, <1>5, Zenon DEF Queued
<1>9. Before(L, Queued') /\ Before(L \cup Queued', Stored) /\ Before(L \cup Queued' \cup Stored, Served)
  BY <1>2, <1>7, <1>8 DEF Before, InOrder
<1> QED
  BY <1>1, <1>6, <1>7, <1>9, Zenon DEF InOrder

\* e is notified; what the informer stores is the pod of e, or what it stored before of
\* another pod than e is about.
Announces(e) ==
    /\ e \in Event /\ events' = Append(events, e)
    /\ e.type = "set" \/ (e.type = "delete" /\ e.pod \in Stored /\ e.pod.deleted # NoTime)
    /\ \A n \in DOMAIN store' :
           \/ e.type = "set" /\ store'[n] = e.pod
           \/ n \in DOMAIN store /\ store'[n] = store[n] /\ store[n].uid # e.pod.uid

LEMMA OtherUID ==
    ASSUME InformerInv, NEW K, Agree(K \cup Objects, made), NEW n \in DOMAIN api, NEW k \in DOMAIN api,
           api[k].uid = api[n].uid
    PROVE  k = n
<1>1. PICK p, q : p = api[k] /\ q = api[n]
  OBVIOUS
<1>2. p \in K \cup Objects /\ q \in K \cup Objects
  BY <1>1, Zenon DEF Objects
<1>3. p.name = k /\ q.name = n
  BY <1>1, Zenon DEF InformerInv, InformerTypes, Filed
<1>4. p.uid = q.uid
  BY <1>1, Zenon
<1> QED
  BY <1>2, <1>3, <1>4, Zenon DEF Agree

LEMMA UpdateAnnounces ==
    ASSUME InformerInv, NEW K, Agree(K \cup Objects, made), InOrder(K),
           NEW n \in DOMAIN api, NEW q \in Pod, q.name = n, q.uid = api[n].uid, Update(n, q)
    PROVE  UNCHANGED <<events, store>> \/ \E e : Announces(e)
<1>1. api' = Put(api, q.name, q) /\ Watched("set", q) /\ Filed(api)
  BY Zenon DEF Update, InformerInv, InformerTypes
<1>2. /\ DOMAIN api' = DOMAIN api \cup {n} /\ api'[n] = q
      /\ \A k \in DOMAIN api \ {n} : api'[k] = api[k]
  <2>1. /\ DOMAIN api' = DOMAIN api \cup {q.name} /\ api'[q.name] = q
        /\ \A k \in DOMAIN api \ {q.name} : api'[k] = api[k]
    BY <1>1, PutServed, Zenon
  <2> QED
    BY <2>1, Zenon
<1>3. \A k \in DOMAIN api \ {n} : api[k].uid # q.uid
  BY OtherUID, Zenon
<1>4. CASE linked
  <2>1. PICK e : e = [type |-> "set", pod |-> q]
    BY Zenon
  <2>2. e \in Event /\ e.type = "set" /\ e.pod = q
    BY <2>1, Zenon DEF Event
  <2>3. store' = api' /\ store = api /\ events' = Append(events, e)
    BY <1>1, <1>4, <2>1, Zenon DEF Watched, InOrder
  <2>4. Announces(e)
    BY <1>2, <1>3, <2>2, <2>3, Zenon DEF Announces
  <2> QED
    BY <2>4, Zenon
<1>5. CASE ~linked
  BY <1>1, <1>5, Zenon DEF Watched
<1> QED
  BY <1>4, <1>5, Zenon

LEMMA CreateAnnounces ==
    ASSUME InformerInv, NEW K, Agree(K \cup Objects, made), InOrder(K), NEW n \in Names, CreatePod(n)
    PROVE  UNCHANGED <<events, store>> \/ \E e : Announces(e)
<1>1. PICK q \in Pod : q.uid = made + 1 /\ q.name = n /\ api' = Put(api, n, q) /\ Watched("set", q)
  BY CreateStep, Zenon
<1>2. Filed(api) /\ api' = Put(api, q.name, q) /\ made \in Nat
  BY <1>1, InformerAssumption DEF InformerInv, InformerTypes
<1>3. /\ DOMAIN api' = DOMAIN api \cup {q.name} /\ api'[q.name] = q
      /\ \A k \in DOMAIN api \ {q.name} : api'[k] = api[k]
  BY <1>2, PutServed, Zenon
<1>4. ASSUME NEW k \in DOMAIN api PROVE api[k].uid # q.uid
  <2>1. PICK p : p = api[k]
    OBVIOUS
  <2>2. p \in K \cup Objects
    BY <2>1, Zenon DEF Objects
  <2>3. p.uid <= made /\ p.uid \in Int
    BY <2>2 DEF Agree, Pod
  <2> QED
    BY <1>1, <1>2, <2>1, <2>3
<1>5. CASE linked
  <2>1. PICK e : e = [type |-> "set", pod |-> q]
    BY Zenon
  <2>2. e \in Event /\ e.type = "set" /\ e.pod = q
    BY <2>1, Zenon DEF Event
  <2>3. store' = api' /\ store = api /\ events' = Append(events, e)
    BY <1>1, <1>5, <2>1, Zenon DEF Watched, InOrder
  <2>4. Announces(e)
    BY <1>3, <1>4, <2>2, <2>3, Zenon DEF Announces
  <2> QED
    BY <2>4, Zenon
<1>6. CASE ~linked
  BY <1>1, <1>6, Zenon DEF Watched
<1> QED
  BY <1>5, <1>6, Zenon

LEMMA RemoveAnnounces ==
    ASSUME InformerInv, NEW K, Agree(K \cup Objects, made), InOrder(K), NEW n \in Names, RemovePod(n)
    PROVE  UNCHANGED <<events, store>> \/ \E e : Announces(e)
<1>1. PICK q : q = api[n]
  OBVIOUS
<1>2. /\ n \in DOMAIN api /\ q.deleted # NoTime /\ api' = Without(api, n) /\ Watched("delete", q)
      /\ Filed(api)
  BY <1>1, Zenon DEF RemovePod, InformerInv, InformerTypes
<1>3. /\ DOMAIN api' = DOMAIN api \ {n}
      /\ \A k \in DOMAIN api \ {n} : api'[k] = api[k]
  BY <1>2, WithoutFiled, Zenon
<1>4. CASE linked
  <2>1. PICK e : e = [type |-> "delete", pod |-> q]
    BY Zenon
  <2>2. e \in Event /\ e.type = "delete" /\ e.pod = q
    BY <1>1, <1>2, <2>1, Zenon DEF Event, Filed
  <2>3. store' = api' /\ store = api /\ events' = Append(events, e)
    BY <1>2, <1>4, <2>1, Zenon DEF Watched, InOrder
  <2>4. \A k \in DOMAIN api \ {n} : api[k].uid # q.uid
    BY <1>1, <1>2, OtherUID, Zenon
  <2>5. Announces(e)
    BY <1>1, <1>2, <1>3, <2>2, <2>3, <2>4, Zenon DEF Announces, Stored
  <2> QED
    BY <2>5, Zenon
<1>5. CASE ~linked
  BY <1>2, <1>5, Zenon DEF Watched
<1> QED
  BY <1>4, <1>5, Zenon

LEMMA ResyncAnnounces ==
    ASSUME InformerInv, NEW K, Agree(K \cup Objects, made), NEW n \in Names, Resync(n)
    PROVE  \E e : Announces(e)
<1>1. PICK e : e = [type |-> "set", pod |-> store[n]]
  BY Zenon
<1>2. n \in DOMAIN store /\ events' = Append(events, e) /\ store' = store /\ Filed(store)
  BY <1>1, Zenon DEF Resync, InformerInv, InformerTypes
<1>3. e \in Event /\ e.type = "set" /\ e.pod = store[n]
  BY <1>1, <1>2, Zenon DEF Event, Filed
<1>4. \A k \in DOMAIN store : store[k].uid = store[n].uid => k = n
  <2>1. \A k \in DOMAIN store : store[k] \in Objects /\ store[k].name = k
    BY <1>2, Zenon DEF Objects, Filed
  <2> QED
    BY <1>2, <2>1, Zenon DEF Agree
<1>5. Announces(e)
  BY <1>2, <1>3, <1>4, Zenon DEF Announces
<1> QED
  BY <1>5, Zenon

LEMMA ClusterAnnounces ==
    ASSUME InformerInv, NEW K, Agree(K \cup Objects, made), InOrder(K), Cluster
    PROVE  UNCHANGED <<events, store>> \/ Relist \/ \E e : Announces(e)
<1> DEFINE G == UNCHANGED <<events, store>> \/ \E e : Announces(e)
<1>1. ASSUME NEW n \in Names, NEW ip \in IPs, BeginPod(n, ip) PROVE G
  <2>1. PICK q : q = [api[n] EXCEPT !.phase = "Running", !.ip = ip]
    OBVIOUS
  <2>2. n \in DOMAIN api /\ Update(n, q)
    BY <1>1, <2>1, Zenon DEF BeginPod
  <2> QED
    BY <2>1, <2>2, UpdatedPods, UpdateAnnounces, Zenon
<1>2. ASSUME NEW n \in Names, TerminatePod(n) PROVE G
  <2>1. PICK q : q = [api[n] EXCEPT !.phase = "Succeeded"]
    BY Zenon
  <2>2. n \in DOMAIN api /\ Update(n, q)
    BY <1>2, <2>1, Zenon DEF TerminatePod
  <2> QED
    BY <2>1, <2>2, UpdatedPods, UpdateAnnounces, ZenonT(30)
<1>3. ASSUME NEW n \in Names, NEW grace \in Graces, RequestDelete(n, grace) PROVE G
  <2>1. PICK q : q = [api[n] EXCEPT !.deleted = now + grace]
    BY Zenon
  <2>2. n \in DOMAIN api /\ Update(n, q)
    BY <1>3, <2>1, Zenon DEF RequestDelete
  <2> QED
    BY <2>1, <2>2, UpdatedPods, UpdateAnnounces, Zenon
<1>4. ASSUME Break \/ Tick PROVE G
  BY <1>4, Zenon DEF Break, Tick
<1> QED
  BY <1>1, <1>2, <1>3, <1>4, CreateAnnounces, RemoveAnnounces, ResyncAnnounces, Zenon DEF Cluster

LEMMA TimePasses ==
    ASSUME InformerInv, Cluster
    PROVE  now \in Nat /\ now' \in Nat /\ now <= now'
<1>1. now' = now \/ now' = now + 1
  BY Zenon DEF Cluster, CreatePod, TerminatePod, RemovePod, Resync, BeginPod, RequestDelete, Update,
         Watched, Break, Relist, Tick
<1>2. now \in Nat
  BY InformerAssumption DEF InformerInv, InformerTypes
<1> QED
  BY <1>1, <1>2
=============================================================================
