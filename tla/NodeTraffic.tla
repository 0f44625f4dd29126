----------------------------- MODULE NodeTraffic -----------------------------
(***************************************************************************)
(* conntrack/: what the two conntrack clients list on every node while     *)
(* pods talk to pods, services and the outside.                            *)
(*                                                                         *)
(* The kernel's side is external.  A flow goes from a client's end to the  *)
(* address it asks for; the node translates a service's address to one of  *)
(* its pods, and the client's end where it has to: to its own address      *)
(* towards the outside and for a pod that calls itself, to another port    *)
(* when two flows would look the same to the server.  nf_conntrack has one *)
(* session of a flow on every node it passes, with counters if accounting  *)
(* was on when it began; Cilium has a record for each end on that end's    *)
(* node ("Cilium stores two records for single flow").                     *)
(***************************************************************************)
EXTENDS Integers, FiniteSets

CONSTANTS
    Hosts,          \* nodes
    PodIPs,         \* addresses of pods that have one of their own
    Home,           \* the node of each pod
    Tracked,        \* pods getNodePods keeps
    VIPs,           \* addresses of services
    Outside,        \* addresses outside the cluster
    HostIP,         \* the address of each node
    Ports,          \* ports clients send from and nodes translate to
    Protos,         \* protocols, by their numbers
    MaxFlows,       \* bound on the flows at a time
    MaxBytes        \* bound on the bytes of a flow

\* The port all servers listen on.
ServerPort == 0

ASSUME TrafficAssumption ==
    /\ Home \in [PodIPs -> Hosts] /\ Tracked \subseteq PodIPs
    /\ \A n \in Hosts : HostIP[n] \notin PodIPs \cup Outside
    /\ ServerPort \notin Ports /\ 0 \notin Protos
    /\ MaxFlows \in Nat /\ MaxBytes \in Nat

VARIABLES
    client,         \* the conntrack client the collectors chose
    acct,           \* nf_conntrack_acct
    flows           \* flows in the conntrack tables

trafficVars == <<client, acct, flows>>

End(ip, port) == [ip |-> ip, port |-> port]

IsPod(e) == e.ip \in PodIPs

TrafficInit ==
    /\ client \in {"cilium", "netfilter"}
    /\ acct = FALSE
    /\ flows = {}

-----------------------------------------------------------------------------
(* The kernel. *)

\* How the server sees the client.
Seen(cl, sv, port) ==
    IF IsPod(cl) /\ (sv.ip \in Outside \/ sv.ip = cl.ip)
    THEN End(HostIP[Home[cl.ip]], port)
    ELSE End(cl.ip, port)

\* The server has a flow with a client that it sees so.
Taken(sv, seen, proto) == \E f \in flows : f.sv = sv /\ f.seen = seen /\ f.proto = proto

\* A flow from cl to the address asked, which sv answers.
Open(cl, asked, sv, port, proto) ==
    /\ IsPod(cl) \/ IsPod(sv)
    /\ \A f \in flows : ~(f.cl = cl /\ f.asked = asked /\ f.proto = proto)
    /\ ~Taken(sv, Seen(cl, sv, port), proto)
    /\ port # cl.port => IsPod(cl) /\ Taken(sv, Seen(cl, sv, cl.port), proto)
    /\ flows' = flows \cup {[cl |-> cl, asked |-> asked, sv |-> sv, seen |-> Seen(cl, sv, port),
                             proto |-> proto, up |-> 0, down |-> 0, counted |-> acct]}
    /\ UNCHANGED <<client, acct>>

Carry(f, up, down) ==
    /\ f.up + up + f.down + down <= MaxBytes
    /\ flows' = (flows \ {f}) \cup {[f EXCEPT !.up = @ + up, !.down = @ + down]}
    /\ UNCHANGED <<client, acct>>

Forget(f) ==
    /\ flows' = flows \ {f}
    /\ UNCHANGED <<client, acct>>

\* runInit: without Cilium's maps accounting is switched on.
InitNetfilterAccounting ==
    /\ client = "netfilter"
    /\ acct' = TRUE
    /\ UNCHANGED <<client, flows>>

Passes(f, n) == (IsPod(f.cl) /\ Home[f.cl.ip] = n) \/ (IsPod(f.sv) /\ Home[f.sv.ip] = n)

\* nf_conntrack's session of f on n: translated where the client is, or comes in.
Session(f, n) ==
    LET translates == IsPod(f.cl) => Home[f.cl.ip] = n
    IN  [originSrc |-> IF translates THEN f.cl ELSE f.seen,
         originDst |-> IF translates THEN f.asked ELSE f.sv,
         replySrc |-> f.sv, proto |-> f.proto,
         up |-> f.up, down |-> f.down, counters |-> f.counted]

\* What each end of f sends and receives.
Ends(f) == {[own |-> f.cl, other |-> f.sv, tx |-> f.up, rx |-> f.down],
            [own |-> f.sv, other |-> f.cl, tx |-> f.down, rx |-> f.up]}

\* Cilium's records of f on n, addresses swapped (its issue #21346), and an unused one.
Records(f, n) ==
    {[sourceAddr |-> x.other.ip, destAddr |-> x.own.ip, sourcePort |-> x.own.port,
      destPort |-> x.other.port, tx |-> x.tx, rx |-> x.rx, nextHeader |-> f.proto] :
        x \in {y \in Ends(f) : IsPod(y.own) /\ Home[y.own.ip] = n}}
    \cup
    {[sourceAddr |-> f.sv.ip, destAddr |-> f.cl.ip, sourcePort |-> 0, destPort |-> 0,
      tx |-> 0, rx |-> 0, nextHeader |-> 0]}

-----------------------------------------------------------------------------
(* The clients.  An item of a listing is an entry and what it was made of:  *)
(* two sessions with equal entries are listed twice.                        *)

Entry(src, dst, proto, tx, rx) ==
    [src |-> src, dst |-> dst, proto |-> proto, tx |-> tx, rx |-> rx]

Item(f, nth, entry) == [of |-> f, nth |-> nth, entry |-> entry]

\* FilterBySrcIP of the addresses of the node's pods.
FilterBySrcIP(n, e) == e.src.ip \in Tracked /\ Home[e.src.ip] = n

\* Mutant: the destination is left as the client asked for it.
EntriesAsAsked(s) ==
    <<Entry(s.originSrc, s.originDst, s.proto, s.up, s.down),
      Entry(s.originDst, s.originSrc, s.proto, s.down, s.up)>>

\* The two entries of a session. "Probably ClusterIP service, remap destination
\* to actual pod IP."
sessionEntries(s) ==
    LET dst == IF s.originDst # s.replySrc THEN s.replySrc ELSE s.originDst
    IN  <<Entry(s.originSrc, dst, s.proto, s.up, s.down),
          Entry(dst, s.originSrc, s.proto, s.down, s.up)>>

\* netfilterClient.ListEntries; a session without counters is skipped.
netfilterEntries(n) ==
    UNION {{Item(f, i, sessionEntries(Session(f, n))[i]) : i \in 1..2} :
               f \in {g \in flows : Passes(g, n) /\ Session(g, n).counters}}

\* listRecords; an unused record is skipped.
ciliumEntries(n) ==
    UNION {{Item(f, k, Entry(End(k.destAddr, k.sourcePort), End(k.sourceAddr, k.destPort),
                             k.nextHeader, k.tx, k.rx)) :
               k \in {r \in Records(f, n) : r.nextHeader # 0}} : f \in flows}

\* ListEntries(FilterBySrcIP(getPodIPs(pods))) of the collector on n.
ListEntries(n) ==
    {x \in IF client = "cilium" THEN ciliumEntries(n) ELSE netfilterEntries(n) :
        FilterBySrcIP(n, x.entry)}

\* Mutant: the ports are left out.
KeyWithoutPorts(e) == <<e.src.ip, e.dst.ip, e.proto>>

conntrackEntryKey(e) == <<e.src, e.dst, e.proto>>

-----------------------------------------------------------------------------
ClientEnds == {End(ip, port) : ip \in PodIPs \cup Outside, port \in Ports}

Asked == {End(ip, ServerPort) : ip \in PodIPs \cup VIPs \cup Outside \cup {HostIP[n] : n \in Hosts}}

\* Who may answer: one of the pods for a service.
Servers(asked) == IF asked.ip \in VIPs THEN {e \in Asked : IsPod(e)} ELSE {asked}

TrafficNext ==
    \/ /\ Cardinality(flows) < MaxFlows
       /\ \E cl \in ClientEnds, asked \in Asked, port \in Ports, proto \in Protos :
              \E sv \in Servers(asked) : Open(cl, asked, sv, port, proto)
    \/ \E f \in flows : Carry(f, 1, 0) \/ Carry(f, 0, 1) \/ Forget(f)
    \/ InitNetfilterAccounting

TrafficSpec == TrafficInit /\ [][TrafficNext]_trafficVars

-----------------------------------------------------------------------------
(* Every end of a flow that is a tracked pod is listed once in the whole    *)
(* cluster, with what that pod sent and received and with the pod that      *)
(* really is at the other end, or what the node sees of it: by either       *)
(* client, whichever nodes the flow passes and whatever was translated on   *)
(* its way.  Excepted are sessions older than accounting.                   *)
EachEndOnce ==
    LET listed == UNION {ListEntries(n) : n \in Hosts}
    IN  \A f \in {g \in flows : client = "netfilter" => g.counted} :
            \A x \in {y \in Ends(f) : y.own.ip \in Tracked} :
                \E e \in listed :
                    /\ {d \in listed : d.of = f /\ d.entry.src = x.own} = {e}
                    /\ e.entry.dst \in {x.other, f.seen}
                    /\ e.entry.tx = x.tx /\ e.entry.rx = x.rx

\* Another flow of the client's port goes to the same server, by another address.
Twin(f) == \E g \in flows \ {f} : g.cl = f.cl /\ g.sv = f.sv /\ g.proto = f.proto

(* Entries of one listing have keys of their own in the collector's cache,  *)
(* so that no connection is counted against another's last value, unless a  *)
(* port of a client has two flows to one server.                            *)
KeysDiffer ==
    \A n \in Hosts :
        LET listed == ListEntries(n)
        IN  \A x, y \in listed :
                x # y /\ conntrackEntryKey(x.entry) = conntrackEntryKey(y.entry) => Twin(x.of)
=============================================================================
