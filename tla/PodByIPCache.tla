----------------------------- MODULE PodByIPCache -----------------------------
(***************************************************************************)
(* kube/podbyipcache.go: the exporter's pods by address.  The informer's   *)
(* handler goroutine (onAddOrUpdate, onDelete), the export loop (Get) and  *)
(* the cleanup goroutine share the indexer, which locks each call by       *)
(* itself, and deletedPods, under deletedPodsMu.  Export calls Get from    *)
(* one goroutine only.                                                     *)
(***************************************************************************)
EXTENDS PodInformer

CONSTANT PodTimeout     \* c.podTimeout

ASSUME TimeoutAssumption == PodTimeout \in Nat

VARIABLES
    indexer,        \* c.indexer: name -> pod
    deletedPods,    \* c.deletedPods: UID -> pod
    deletedPodsMu,  \* holder of c.deletedPodsMu
    cleanupNow,     \* now of the cleanup round
    todo,           \* keys of deletedPods its range has not reached
    gpc,            \* where Get is
    earliestPod     \* its local

cleanup == <<cleanupNow, todo>>
get     == <<gpc, earliestPod>>
vars    == <<informer, indexer, deletedPods, deletedPodsMu, cleanup, get>>

NoPod == EmptyMap

Init ==
    /\ InformerInit
    /\ indexer = EmptyMap /\ deletedPods = EmptyMap /\ deletedPodsMu = "free"
    /\ cleanupNow = NoTime /\ todo = {}
    /\ gpc = "idle" /\ earliestPod = NoPod

Environment == Cluster /\ UNCHANGED <<indexer, deletedPods, deletedPodsMu, cleanup, get>>

-----------------------------------------------------------------------------
(* The informer's handler. *)

\* Mutant: an update of a name that is present is dropped.
AddOnly ==
    /\ Take("set")
    /\ indexer' = IF Head(events).pod.name \in DOMAIN indexer
                  THEN indexer ELSE Put(indexer, Head(events).pod.name, Head(events).pod)
    /\ UNCHANGED <<deletedPods, deletedPodsMu, cleanup, get>>

onAddOrUpdate ==
    /\ Take("set")
    /\ indexer' = Put(indexer, Head(events).pod.name, Head(events).pod)
    /\ UNCHANGED <<deletedPods, deletedPodsMu, cleanup, get>>

\* Mutant: the deletion is not recorded.
DeleteIgnored ==
    /\ Take("delete")
    /\ UNCHANGED <<indexer, deletedPods, deletedPodsMu, cleanup, get>>

onDelete ==
    /\ Take("delete")
    /\ deletedPodsMu = "free"
    /\ deletedPods' = Put(deletedPods, Head(events).pod.uid, Head(events).pod)
    /\ UNCHANGED <<indexer, deletedPodsMu, cleanup, get>>

\* onDelete of a tombstone: not a *corev1.Pod.
onDeleteOther ==
    /\ Take("tombstone")
    /\ UNCHANGED <<indexer, deletedPods, deletedPodsMu, cleanup, get>>

-----------------------------------------------------------------------------
(* Get, on the export goroutine. *)

\* c.indexer.ByIndex(podIPIdx, ip).
ByIndex(ip) == {p \in {indexer[n] : n \in DOMAIN indexer} : p.ip = ip}

\* The pods Get may pick: created first, ties as the index happens to list them.
Earliest(ip) == {p \in ByIndex(ip) : \A q \in ByIndex(ip) : p.created <= q.created}

Terminated(p) == p.phase \notin {"Pending", "Running"}

\* Get picks p. A pod that may still run is returned as it is, and so is
\* ErrNotFound (which changes nothing); a terminated one is dropped first.
GetLookup(ip, p) ==
    /\ gpc = "idle"
    /\ p \in Earliest(ip)
    /\ IF Terminated(p)
       THEN gpc' = "delete" /\ earliestPod' = p
       ELSE UNCHANGED get
    /\ UNCHANGED <<informer, indexer, deletedPods, deletedPodsMu, cleanup>>

\* c.indexer.Delete(pod) removes what the indexer holds under the pod's name.
GetDelete ==
    /\ gpc = "delete"
    /\ gpc' = "mark"
    /\ indexer' = Without(indexer, earliestPod.name)
    /\ UNCHANGED <<informer, deletedPods, deletedPodsMu, cleanup, earliestPod>>

GetMark ==
    /\ gpc = "mark"
    /\ deletedPodsMu = "free"
    /\ gpc' = "idle"
    /\ earliestPod' = NoPod
    /\ deletedPods' = Put(deletedPods, earliestPod.uid, earliestPod)
    /\ UNCHANGED <<informer, indexer, deletedPodsMu, cleanup>>

-----------------------------------------------------------------------------
(* runCleanupExpiredLoop.  The range over the map takes its keys in any     *)
(* order.  Nobody sees deletedPods during a round, so an iteration is one   *)
(* step although the indexer is not locked across it.                       *)

\* The ticker fires. (A round over an empty map changes nothing.)
CleanupStart ==
    /\ deletedPodsMu = "free"
    /\ DOMAIN deletedPods # {}
    /\ deletedPodsMu' = "cleanup"
    /\ cleanupNow' = now
    /\ todo' = DOMAIN deletedPods
    /\ UNCHANGED <<informer, indexer, deletedPods, get>>

\* Mutant: off by one at the timeout.
NotTimedOutStrict(p) == p.deleted # NoTime /\ cleanupNow - p.deleted < PodTimeout

NotTimedOut(p) == p.deleted # NoTime /\ cleanupNow - p.deleted <= PodTimeout

\* Mutants: the entry stays in the indexer; the range meets a key again.
DropKeepsEntry(uid) ==
    /\ uid \in todo
    /\ ~NotTimedOut(deletedPods[uid])
    /\ deletedPods' = Without(deletedPods, uid)
    /\ todo' = todo \ {uid}
    /\ UNCHANGED <<informer, indexer, deletedPodsMu, cleanupNow, get>>

DropRevisits(uid) ==
    /\ uid \in todo
    /\ ~NotTimedOut(deletedPods[uid])
    /\ indexer' = Without(indexer, deletedPods[uid].name)
    /\ deletedPods' = Without(deletedPods, uid)
    /\ UNCHANGED <<informer, deletedPodsMu, cleanup, get>>

CleanupDrop(uid) ==
    /\ uid \in todo
    /\ ~NotTimedOut(deletedPods[uid])
    /\ indexer' = Without(indexer, deletedPods[uid].name)
    /\ deletedPods' = Without(deletedPods, uid)
    /\ todo' = todo \ {uid}
    /\ UNCHANGED <<informer, deletedPodsMu, cleanupNow, get>>

CleanupEnd ==
    /\ deletedPodsMu' = "free"
    /\ cleanupNow' = NoTime
    /\ todo' = {}
    /\ UNCHANGED <<informer, indexer, deletedPods, get>>

\* The first pod that is not timed out ends the round.
CleanupBreak(uid) ==
    /\ uid \in todo
    /\ NotTimedOut(deletedPods[uid])
    /\ CleanupEnd

CleanupDone ==
    /\ deletedPodsMu = "cleanup"
    /\ todo = {}
    /\ CleanupEnd

UIDs == 1..MaxPods

CleanupStep ==
    \/ \E uid \in UIDs : CleanupDrop(uid) \/ CleanupBreak(uid)
    \/ CleanupDone

Handler == onAddOrUpdate \/ onDelete \/ onDeleteOther

Next ==
    \/ Environment
    \/ Handler
    \/ \E ip \in IPs : \E p \in Earliest(ip) : GetLookup(ip, p)
    \/ GetDelete \/ GetMark
    \/ CleanupStart \/ CleanupStep

Spec == Init /\ [][Next]_vars

(***************************************************************************)
(* Fairness.  Time passes, a broken watch is established again, and the    *)
(* informer resyncs every object.  The goroutines go on; those that wait   *)
(* for deletedPodsMu get it (Go's mutex starves no waiter), and the        *)
(* cleanup ticker keeps firing.                                            *)
(***************************************************************************)
cache == <<indexer, deletedPods, deletedPodsMu, cleanup, get>>

Fairness ==
    /\ WF_vars(Tick /\ UNCHANGED cache)
    /\ WF_vars(Relist /\ UNCHANGED cache)
    /\ \A n \in Names : SF_vars(Resync(n) /\ UNCHANGED cache)
    /\ SF_vars(Handler)
    /\ WF_vars(GetDelete) /\ SF_vars(GetMark)
    /\ SF_vars(CleanupStart) /\ WF_vars(CleanupStep)

FairSpec == Spec /\ Fairness

-----------------------------------------------------------------------------
(* Types: the indexer files a pod under its own name and deletedPods under  *)
(* its own UID, and the keys of a round are keys of deletedPods, so that    *)
(* the range never meets a key that is gone.                                *)
TypeOK ==
    /\ \A n \in DOMAIN indexer : indexer[n] \in Pod /\ indexer[n].name = n
    /\ \A u \in DOMAIN deletedPods : deletedPods[u] \in Pod /\ deletedPods[u].uid = u
    /\ deletedPodsMu \in {"free", "cleanup"}
    /\ cleanupNow \in 0..MaxTime
    /\ todo \subseteq DOMAIN deletedPods
    /\ gpc \in {"idle", "delete", "mark"}
    /\ gpc # "idle" => earliestPod \in Pod

\* The indexer still resolves to a pod that the API server no longer has.
Ghost(u) ==
    \E n \in DOMAIN indexer :
        indexer[n].uid = u /\ (n \notin DOMAIN api \/ api[n].uid # u)

(* While the watch has not broken, a pod that is gone but can still be      *)
(* resolved is on its way out: its deletion is known to deletedPods or      *)
(* waits for onDelete.  No interleaving of Get's two-step removal, a resync *)
(* and a cleanup round puts a pod back for good.                            *)
GhostsAreTracked ==
    breaks = 0 =>
        \A u \in UIDs : Ghost(u) => u \in DOMAIN deletedPods \/ PendingEvent("delete", u)

\* Another pod of the same name is known to some part of the cache.
HasNamesake(p) ==
    \E q \in {deletedPods[u] : u \in DOMAIN deletedPods}
           \cup {events[i].pod : i \in DOMAIN events}
           \cup (IF gpc = "idle" THEN {} ELSE {earliestPod}) :
        q.name = p.name /\ q.uid # p.uid

(* "there are cases when connections might be kept in conntrack for 120     *)
(* seconds": no step takes a pod out of the indexer before podTimeout after *)
(* its DeletionTimestamp.  It is about pods that have not terminated (Get   *)
(* drops those once used) and whose name no other pod around has (it would  *)
(* replace them).                                                           *)
RetainsDeleted ==
    [][\A n \in DOMAIN indexer :
          LET p == indexer[n]
          IN  /\ ~Terminated(p) /\ ~HasNamesake(p)
              /\ p.deleted = NoTime \/ now - p.deleted <= PodTimeout
              => n \in DOMAIN indexer' /\ indexer'[n].uid = p.uid]_vars

(* While the watch has not broken, a pod that is gone is eventually no      *)
(* longer resolved, so that traffic of the next pod with its address is not *)
(* given to it for ever.                                                    *)
GhostsLeave == \A u \in UIDs : []<>(Ghost(u) => breaks > 0)

(* A pod the informer knows can be resolved again and again, although Get   *)
(* and cleanup remove entries by name, a running namesake's too: the resync *)
(* repairs what they took.                                                  *)
ResyncRepairs ==
    \A n \in Names :
        []<>(n \in DOMAIN store => n \in DOMAIN indexer /\ indexer[n] = store[n])

(* Test "when there are two pods with the same IP, prefers newest running". *)
PrefersNewestRunning ==
    [][\A ip \in IPs : \A p \in Earliest(ip) :
          GetLookup(ip, p) =>
              \A q \in ByIndex(ip) :
                  q.phase = "Running" =>
                      p.phase = "Running" /\ p.created >= q.created]_vars

(* Test "cleanup deleted pods": cleanup takes deleted pods out of the       *)
(* cache, not a pod whose deletion nobody asked for.                        *)
CleanupSparesOthers ==
    [][\A u \in UIDs :
          CleanupDrop(u) =>
              \A n \in DOMAIN indexer \ DOMAIN indexer' :
                  indexer[n].uid = u]_vars

(* Test "cleanup deleted pods": a pod that was deleted leaves the cache,    *)
(* whether or not the watch saw the deletion.                               *)
DeletedPodsLeave == \A u \in UIDs : Ghost(u) ~> ~Ghost(u)
=============================================================================
