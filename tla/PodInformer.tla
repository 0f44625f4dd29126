----------------------------- MODULE PodInformer -----------------------------
(***************************************************************************)
(* What the pod caches of kube/ are fed by, none of it under src/: pods in *)
(* the API server, and a client-go shared informer that watches them.  The *)
(* informer keeps a store and a queue of notifications for its handler;    *)
(* it resyncs (both programs ask for 30 seconds), and when its watch broke  *)
(* it lists again: changed objects are notified as updates, objects that   *)
(* are gone as tombstones (cache.DeletedFinalStateUnknown).                *)
(***************************************************************************)
EXTENDS Integers, Sequences, FiniteSets, Functions

CONSTANTS
    Names,          \* namespace/name of pods
    IPs,            \* addresses the network gives to pods
    NameReuse,      \* whether a name may be used again (StatefulSets)
    Graces,         \* deletion grace periods
    MaxPods,        \* bound on the pods ever created
    MaxBreaks,      \* bound on broken watches
    MaxEvents,      \* bound on pending notifications
    LastChange,     \* bound on the time of changes in the API server
    MaxTime         \* bound on the clock

ASSUME InformerAssumption ==
    /\ Cardinality(Names) \in Nat /\ NameReuse \in BOOLEAN /\ Graces \subseteq Nat
    /\ MaxPods \in Nat /\ MaxBreaks \in Nat /\ MaxEvents \in Nat
    /\ LastChange \in Nat /\ MaxTime \in Nat \ {0}

VARIABLES
    now,        \* wall clock; 0 stands for a nil DeletionTimestamp
    made,       \* pods created so far: the UID of the last one
    used,       \* names used so far
    api,        \* the API server's pods: name -> pod
    linked,     \* the informer's watch is established
    breaks,     \* how often it broke
    store,      \* the informer's own store: name -> pod
    events      \* notifications its handler has not processed yet

informer == <<now, made, used, api, linked, breaks, store, events>>

NoTime == 0

NoIP == ""

Phases == {"Pending", "Running", "Succeeded"}

Pod == [uid : 1..MaxPods, name : Names, ip : IPs \cup {NoIP}, phase : Phases,
        created : 1..MaxTime, deleted : Nat]

Event == [type : {"set", "delete", "tombstone"}, pod : Pod]

\* Go map and store operations.
Put(m, k, v) == [x \in DOMAIN m \cup {k} |-> IF x = k THEN v ELSE m[x]]

Without(m, k) == [x \in DOMAIN m \ {k} |-> m[x]]

EmptyMap == [x \in {} |-> x]

InformerInit ==
    /\ now = 1 /\ made = 0 /\ used = {}
    /\ api = EmptyMap /\ linked = TRUE /\ breaks = 0
    /\ store = EmptyMap /\ events = <<>>

-----------------------------------------------------------------------------
\* The change of the API server reaches an established watch.
Watched(type, pod) ==
    /\ now <= LastChange
    /\ Len(events) < MaxEvents
    /\ IF linked
       THEN store' = api' /\ events' = Append(events, [type |-> type, pod |-> pod])
       ELSE UNCHANGED <<store, events>>
    /\ UNCHANGED <<now, linked, breaks>>

CreatePod(n) ==
    /\ made < MaxPods
    /\ n \notin DOMAIN api
    /\ NameReuse \/ n \notin used
    /\ made' = made + 1
    /\ used' = used \cup {n}
    /\ api' = Put(api, n, [uid |-> made', name |-> n, ip |-> NoIP, phase |-> "Pending",
                           created |-> now, deleted |-> NoTime])
    /\ Watched("set", api'[n])

Update(n, pod) ==
    /\ api' = Put(api, n, pod)
    /\ Watched("set", pod)
    /\ UNCHANGED <<made, used>>

\* The pod runs, with an address no pod that has not terminated holds.
BeginPod(n, ip) ==
    /\ n \in DOMAIN api /\ api[n].phase = "Pending"
    /\ \A m \in DOMAIN api : api[m].ip = ip => api[m].phase = "Succeeded"
    /\ Update(n, [api[n] EXCEPT !.phase = "Running", !.ip = ip])

\* The pod terminates; its status keeps the address.
TerminatePod(n) ==
    /\ n \in DOMAIN api /\ api[n].phase = "Running"
    /\ Update(n, [api[n] EXCEPT !.phase = "Succeeded"])

\* A deletion request: DeletionTimestamp is when the grace period ends.
RequestDelete(n, grace) ==
    /\ n \in DOMAIN api /\ api[n].deleted = NoTime
    /\ Update(n, [api[n] EXCEPT !.deleted = now + grace])

RemovePod(n) ==
    /\ n \in DOMAIN api /\ api[n].deleted # NoTime
    /\ api' = Without(api, n)
    /\ Watched("delete", api[n])
    /\ UNCHANGED <<made, used>>

-----------------------------------------------------------------------------
Break ==
    /\ linked /\ breaks < MaxBreaks
    /\ linked' = FALSE
    /\ breaks' = breaks + 1
    /\ UNCHANGED <<now, made, used, api, store, events>>

\* What a new list changes: a namesake created meanwhile is an update.
Changed == {n \in DOMAIN api : n \notin DOMAIN store \/ store[n] # api[n]}

Gone == DOMAIN store \ DOMAIN api

\* The notifications of a list, at most one for a name, come in any order.
Orders(S) == UNION {Bijection(1..k, S) : k \in 0..Cardinality(Names)}

Relist ==
    /\ ~linked
    /\ linked' = TRUE
    /\ store' = api
    /\ \E set \in Orders({[type |-> "set", pod |-> api[n]] : n \in Changed}),
          tombstone \in Orders({[type |-> "tombstone", pod |-> store[n]] : n \in Gone}) :
          events' = events \o set \o tombstone
    /\ UNCHANGED <<now, made, used, api, breaks>>

Resync(n) ==
    /\ n \in DOMAIN store
    /\ Len(events) < MaxEvents
    /\ events' = Append(events, [type |-> "set", pod |-> store[n]])
    /\ UNCHANGED <<now, made, used, api, linked, breaks, store>>

Tick ==
    /\ now < MaxTime
    /\ now' = now + 1
    /\ UNCHANGED <<made, used, api, linked, breaks, store, events>>

Cluster ==
    \/ \E n \in Names : CreatePod(n) \/ TerminatePod(n) \/ RemovePod(n) \/ Resync(n)
    \/ \E n \in Names, ip \in IPs : BeginPod(n, ip)
    \/ \E n \in Names, grace \in Graces : RequestDelete(n, grace)
    \/ Break \/ Relist \/ Tick

\* The handler goroutine takes the oldest notification.
Take(type) ==
    /\ events # <<>>
    /\ Head(events).type = type
    /\ events' = Tail(events)
    /\ UNCHANGED <<now, made, used, api, linked, breaks, store>>

\* Notifications about a pod that its handler has yet to see.
PendingEvent(type, uid) ==
    \E i \in DOMAIN events : events[i].type = type /\ events[i].pod.uid = uid
=============================================================================
