----------------------------- MODULE Attribution -----------------------------
(***************************************************************************)
(* exporter/exporter.go buildPodNetworkMetric and the caches it asks       *)
(* (kube/watcher.go): who is at the two ends of a connection a collector   *)
(* reported.  The caches are asked one after the other while the informers *)
(* change them, so the answers can be of different moments.                *)
(*                                                                         *)
(* What PodByIPCache answers is modelled by itself in that module; here it *)
(* is the node of the pod it finds for an address.  The DNS name of a      *)
(* public destination is DomainNames.                                      *)
(***************************************************************************)
EXTENDS Integers

CONSTANTS
    NodeNames,
    NodeIPs,        \* private addresses of nodes
    PodAddrs,       \* private addresses of pods
    Public,         \* other addresses
    Zones,
    NoZone,         \* no label topology.kubernetes.io/zone
    NoNode,         \* no pod found, or no node
    NoAddr,         \* no address of type InternalIP
    MaxChanges      \* bound on the changes of the caches

ASSUME AttributionAssumption ==
    /\ NoZone \notin Zones /\ NoNode \notin NodeNames /\ NoAddr \notin NodeIPs
    /\ MaxChanges \in Nat

Private == NodeIPs \cup PodAddrs

Node == [ip : NodeIPs \cup {NoAddr}, zone : Zones \cup {NoZone}]

VARIABLES
    nodes,          \* the nodes informer's store: name -> node
    placed,         \* address -> node name of the pod GetPodByIP finds
    bpc,            \* where buildPodNetworkMetric is
    conn,           \* the connection
    metric,         \* its metric
    during,         \* the caches since the build began
    changes         \* changes of the caches

attrVars == <<nodes, placed, bpc, conn, metric, during, changes>>

Caches == [nodes |-> nodes, placed |-> placed]

Blank == [srcNode |-> NoNode, srcZone |-> NoZone, dstNode |-> NoNode, dstZone |-> NoZone]

AttrInit ==
    /\ nodes \in UNION {[N -> Node] : N \in SUBSET NodeNames}
    /\ placed \in [Private -> NodeNames \cup {NoNode}]
    /\ bpc = "idle"
    /\ conn = [src |-> NoAddr, dst |-> NoAddr]
    /\ metric = Blank
    /\ during = {}
    /\ changes = 0

-----------------------------------------------------------------------------
(* The informers. *)

CachesChange ==
    /\ bpc \notin {"idle", "built", "dropped"}
    /\ changes < MaxChanges
    /\ changes' = changes + 1
    /\ during' = during \cup {Caches'}
    /\ UNCHANGED <<bpc, conn, metric>>

\* A node is added or updated; the transform keeps its addresses and labels.
NodeSet(name, node) ==
    /\ nodes' = [n \in DOMAIN nodes \cup {name} |-> IF n = name THEN node ELSE nodes[n]]
    /\ UNCHANGED placed
    /\ CachesChange

NodeDeleted(name) ==
    /\ nodes' = [n \in DOMAIN nodes \ {name} |-> nodes[n]]
    /\ UNCHANGED placed
    /\ CachesChange

PodMoves(ip, name) ==
    /\ placed' = [placed EXCEPT ![ip] = name]
    /\ UNCHANGED nodes
    /\ CachesChange

-----------------------------------------------------------------------------
(* The lookups. *)

\* NodeByNameCache.Get; the name is the key of the store, so one node at most.
NodeByName(name) == {n \in DOMAIN nodes : n = name}

\* NodeByIPCache.Get: indexed by the InternalIP, if there is one; more than one
\* node is an error that is not ErrNotFound.
NodeByIP(ip) == {n \in DOMAIN nodes : nodes[n].ip = ip}

Asks(to) == bpc' = to /\ UNCHANGED <<nodes, placed, conn, during, changes>>

\* GetPodByIP of the source; any error drops the metric.
FindSrcPod(src, dst) ==
    /\ bpc = "idle"
    /\ conn' = [src |-> src, dst |-> dst]
    /\ metric' = [Blank EXCEPT !.srcNode = placed[src]]
    /\ bpc' = IF placed[src] = NoNode THEN "dropped" ELSE "srcNode"
    /\ during' = {Caches}
    /\ UNCHANGED <<nodes, placed, changes>>

FindSrcNode ==
    /\ bpc = "srcNode"
    /\ metric' = IF NodeByName(metric.srcNode) = {} THEN metric
                 ELSE [metric EXCEPT !.srcZone = nodes[metric.srcNode].zone]
    /\ Asks(IF conn.dst \in Private THEN "dstPod" ELSE "built")

\* Mutants: a destination without a pod is an error; it is not looked for among the nodes.
DstPodRequired ==
    /\ bpc = "dstPod"
    /\ metric' = [metric EXCEPT !.dstNode = placed[conn.dst]]
    /\ Asks(IF placed[conn.dst] = NoNode THEN "dropped" ELSE "dstNodeByName")

DstPodOnly ==
    /\ bpc = "dstPod"
    /\ metric' = [metric EXCEPT !.dstNode = placed[conn.dst]]
    /\ Asks(IF placed[conn.dst] = NoNode THEN "built" ELSE "dstNodeByName")

\* GetPodByIP of the destination; metric.dstNode holds dstPod.Spec.NodeName
\* until the node is found.
FindDstPod ==
    /\ bpc = "dstPod"
    /\ metric' = [metric EXCEPT !.dstNode = placed[conn.dst]]
    /\ Asks(IF placed[conn.dst] = NoNode THEN "dstNodeByIP" ELSE "dstNodeByName")

SetDstNode(found) ==
    metric' = IF found = {} THEN [metric EXCEPT !.dstNode = NoNode]
              ELSE LET n == CHOOSE m \in found : TRUE
                   IN  [metric EXCEPT !.dstNode = n, !.dstZone = nodes[n].zone]

FindDstNodeByName ==
    /\ bpc = "dstNodeByName"
    /\ SetDstNode(NodeByName(metric.dstNode))
    /\ Asks("built")

FindDstNodeByIP ==
    /\ bpc = "dstNodeByIP"
    /\ LET found == NodeByIP(conn.dst)
           many == \E n, m \in found : n # m
       IN  /\ IF many THEN UNCHANGED metric ELSE SetDstNode(found)
           /\ Asks(IF many THEN "dropped" ELSE "built")

\* The caller takes the metric, or logs and continues.
NextItem ==
    /\ bpc \in {"built", "dropped"}
    /\ bpc' = "idle" /\ metric' = Blank /\ during' = {}
    /\ conn' = [src |-> NoAddr, dst |-> NoAddr]
    /\ UNCHANGED <<nodes, placed, changes>>

Build ==
    \/ \E src \in PodAddrs, dst \in Private \cup Public : FindSrcPod(src, dst)
    \/ FindSrcNode \/ FindDstPod \/ FindDstNodeByName \/ FindDstNodeByIP \/ NextItem

AttrNext ==
    \/ Build
    \/ \E name \in NodeNames, node \in Node : NodeSet(name, node)
    \/ \E name \in DOMAIN nodes : NodeDeleted(name)
    \/ \E ip \in Private, name \in NodeNames \cup {NoNode} : PodMoves(ip, name)

AttrSpec == AttrInit /\ [][AttrNext]_attrVars

-----------------------------------------------------------------------------
\* Mutant: a zone that is not known is a zone of its own.
ZonesDiffer(m) == m.srcZone # m.dstZone

isCrossZoneValue(m) == m.srcZone # NoZone /\ m.dstZone # NoZone /\ m.srcZone # m.dstZone

(* The metric of a connection is dropped only if its source had no pod when *)
(* it was looked up, or its destination was the address of two nodes at     *)
(* some moment of the build: a node, a zone or a destination pod that is    *)
(* gone meanwhile never costs the metric.                                   *)
KnownSourceKept ==
    bpc = "dropped" =>
        \/ metric.srcNode = NoNode
        \/ \E c \in during : \E n, m \in DOMAIN c.nodes :
               n # m /\ c.nodes[n].ip = conn.dst /\ c.nodes[m].ip = conn.dst

(* cross_zone is "true" only if the zones of the two ends were known and    *)
(* differed, each at some moment of the build: a missing label, a node that *)
(* is gone and a public destination do not make traffic cross a zone.       *)
CrossZoneSound ==
    bpc = "built" /\ isCrossZoneValue(metric) =>
        /\ conn.dst \in Private
        /\ \E c \in during : /\ metric.srcNode \in DOMAIN c.nodes
                             /\ c.nodes[metric.srcNode].zone = metric.srcZone
        /\ \E c \in during : /\ metric.dstNode \in DOMAIN c.nodes
                             /\ c.nodes[metric.dstNode].zone = metric.dstZone
        /\ {metric.srcZone, metric.dstZone} \subseteq Zones

(* A private destination that is at one node during the whole build, as the *)
(* pod's node or, without a pod, as the only node of that address, is       *)
(* attributed to that node, with a zone it had during the build.            *)
DestinationFound ==
    bpc = "built" /\ conn.dst \in Private =>
        \A n \in NodeNames :
            \/ \A c \in during : c.placed[conn.dst] = n /\ n \in DOMAIN c.nodes
            \/ \A c \in during : /\ c.placed[conn.dst] = NoNode
                                 /\ {m \in DOMAIN c.nodes : c.nodes[m].ip = conn.dst} = {n}
            =>
            /\ metric.dstNode = n
            /\ \E c \in during : c.nodes[n].zone = metric.dstZone
=============================================================================
