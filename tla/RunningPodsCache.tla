--------------------------- MODULE RunningPodsCache ---------------------------
(***************************************************************************)
(* kube/watcher.go, RunningPodsCache: the pods of the collector's node,    *)
(* kept by UID from the informer's notifications.  Get copies the map      *)
(* under the same mutex as the handlers, so each of them is one step.      *)
(***************************************************************************)
EXTENDS PodInformer

VARIABLE pods   \* p.pods: UID -> pod

vars == <<informer, pods>>

Init == InformerInit /\ pods = EmptyMap

Environment == Cluster /\ UNCHANGED pods

\* Mutant: only terminated pods are ignored.
IgnoredTerminated(pod) == pod.phase \notin {"Pending", "Running"}

\* A pod without an address, or one that does not run, is neither added nor
\* updated nor removed.
Ignored(pod) == pod.ip = NoIP \/ pod.phase # "Running"

\* Mutant: updates of a known UID are dropped.
AddUnknown ==
    /\ Take("set")
    /\ pods' = IF Ignored(Head(events).pod) \/ Head(events).pod.uid \in DOMAIN pods
               THEN pods ELSE Put(pods, Head(events).pod.uid, Head(events).pod)

onAddOrUpdate ==
    /\ Take("set")
    /\ pods' = IF Ignored(Head(events).pod)
               THEN pods ELSE Put(pods, Head(events).pod.uid, Head(events).pod)

\* Mutant: a deletion is taken for a pod that does not run and dropped.
DeleteRunningOnly ==
    /\ Take("delete")
    /\ pods' = IF Ignored(Head(events).pod) THEN pods ELSE Without(pods, Head(events).pod.uid)

onDelete ==
    /\ Take("delete")
    /\ pods' = Without(pods, Head(events).pod.uid)

\* onDelete of a tombstone: not a *corev1.Pod.
onDeleteOther ==
    /\ Take("tombstone")
    /\ UNCHANGED pods

Handler == onAddOrUpdate \/ onDelete \/ onDeleteOther

Next == Environment \/ Handler

Spec == Init /\ [][Next]_vars

\* What Get returns.
Get == {pods[u] : u \in DOMAIN pods}

\* The handler goroutine processes its notifications; a broken watch is
\* established again; the informer resyncs.
Fairness ==
    /\ WF_vars(Handler)
    /\ WF_vars(Relist /\ UNCHANGED pods)
    /\ \A n \in Names : SF_vars(Resync(n) /\ UNCHANGED pods)

FairSpec == Spec /\ Fairness

-----------------------------------------------------------------------------
(* Types: a pod is filed under its UID, and every pod Get returns has an    *)
(* address (the collector parses it with netaddr.MustParseIP).              *)
TypeOK ==
    /\ \A u \in DOMAIN pods : pods[u] \in Pod /\ pods[u].uid = u
    /\ \A p \in Get : p.ip \in IPs

(* While the watch has not broken, a pod Get returns is a pod of the API    *)
(* server or its deletion waits to be handled: pods that terminated, and    *)
(* names that were used again, leave nothing behind.                        *)
NoLeak ==
    breaks = 0 =>
        \A u \in DOMAIN pods :
            \/ \E n \in DOMAIN api : api[n].uid = u
            \/ PendingEvent("delete", u)

(* A running pod is seen by the collector, a broken watch notwithstanding.  *)
RunningIsSeen ==
    \A n \in Names :
        []<>(n \in DOMAIN store => Ignored(store[n]) \/ store[n] \in Get)
=============================================================================
