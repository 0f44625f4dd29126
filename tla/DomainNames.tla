----------------------------- MODULE DomainNames -----------------------------
(***************************************************************************)
(* From DNS responses to the names of destinations: the packet filter, the *)
(* tracer and its queue, IP2DNS, the records a collector sends with its    *)
(* metrics and the exporter's storage of them.  One collector, with the    *)
(* requests the exporter makes of it.  Caches keep what is left of a       *)
(* lifetime, in ticks, so that no clock is needed.                         *)
(***************************************************************************)
EXTENDS Integers, Sequences, Functions

CONSTANTS
    IPs,            \* addresses
    Names,          \* domain names
    NoName,         \* the empty string
    ZeroIP,         \* 0.0.0.0
    Packets,        \* what reaches the sockets of the node
    QueueSize,      \* capacity of the tracer's channel
    TTL,            \* defaultDNSTTL of the collector
    StorageTTL,     \* defaultDNSTTL of the exporter
    FetchTimeout,   \* CollectorFetchTimeout
    MaxWait         \* bound: how long a batch waits for the export loop

Answer == [type : {"A"}, name : Names, value : IPs]
          \cup [type : {"CNAME"}, name : Names, value : Names]
          \cup [type : {"other"}, name : Names]

Packet == [inet : BOOLEAN, fullsock : BOOLEAN, udp : BOOLEAN, sport : Nat, dport : Nat,
           dns : BOOLEAN, answers : Seq(Answer)]

ASSUME NamesAssumption == NoName \notin Names

ASSUME PacketsAssumption == Packets \subseteq Packet

ASSUME BoundsAssumption ==
    /\ QueueSize \in Nat \ {0}
    /\ TTL \in Nat \ {0} /\ StorageTTL \in Nat \ {0}
    /\ FetchTimeout \in Nat \ {0} /\ MaxWait \in Nat

VARIABLES
    tpc,            \* Tracer.Run: "off", "load", "check", "read", "done"
    events,         \* Tracer.events
    errch,          \* Run has returned and its result was not read
    cancelled,      \* the context of the process is done
    spc,            \* IP2DNS.Start: "init", "select", "answers", "done"
    answers,        \* answers of the event that are still to be handled
    ipToName,       \* IP2DNS.ipToName
    cnameToName,    \* IP2DNS.cnameToName
    fetch,          \* a request of the exporter: "idle", "waiting", "reading", "got"
    timer,          \* what is left of its timeout, then how long its batch waited
    keys,           \* Records: keys whose name was not looked up yet
    items,          \* Records: what it has found
    storage,        \* dnsStorage.ipToName of the exporter
    age             \* history: ticks since an address was last given a name

tracer == <<tpc, events, errch>>

start == <<spc, answers, ipToName, cnameToName, age>>

request == <<fetch, timer, keys, items>>

vars == <<tracer, cancelled, start, request, storage>>

-----------------------------------------------------------------------------
(* The cache of go-generics-cache: expired items stay until its janitor    *)
(* removes them, and are not found.                                        *)

EmptyCache == [k \in {} |-> NoName]

Put(cache, k, v, ttl) ==
    [x \in DOMAIN cache \cup {k} |-> IF x = k THEN [name |-> v, left |-> ttl] ELSE cache[x]]

Found(cache, k) == k \in DOMAIN cache /\ cache[k].left > 0

Get(cache, k) == IF Found(cache, k) THEN cache[k].name ELSE NoName

Older(cache) ==
    [k \in DOMAIN cache |-> [cache[k] EXCEPT !.left = IF @ > 0 THEN @ - 1 ELSE 0]]

Expired(cache) == {k \in DOMAIN cache : cache[k].left = 0}

-----------------------------------------------------------------------------
(* What a name's age can be at most when the exporter uses it. *)
MaxAge == TTL + FetchTimeout + MaxWait + StorageTTL

\* The age of a name that was never given, or longer ago than MaxAge.
Stale == MaxAge + 1

Init ==
    /\ tpc = "off" /\ events = <<>> /\ errch = FALSE
    /\ cancelled = FALSE
    /\ spc = "init" /\ answers = <<>>
    /\ ipToName = EmptyCache /\ cnameToName = EmptyCache
    /\ fetch = "idle" /\ timer = 0 /\ keys = {} /\ items = [ip \in {} |-> NoName]
    /\ storage = EmptyCache
    /\ age = [ip \in IPs |-> [n \in Names |-> Stale]]

-----------------------------------------------------------------------------
(* The kernel. *)

\* The packets the filter lets through: IPv4 UDP whose lower port is 53.
cgroup_skb_generic(p) ==
    /\ p.inet
    /\ p.fullsock
    /\ p.udp
    /\ (IF p.sport < p.dport THEN p.sport ELSE p.dport) = 53

-----------------------------------------------------------------------------
(* Tracer.Run. *)

\* Mutant: a send that does not look whether the queue is full.
SendAlways(event) == events' = Append(events, event)

\* Start's own context, which ends with it.
ContextDone == cancelled \/ spc = "done"

TracerReturns ==
    /\ tpc' = "done"
    /\ errch' = TRUE
    /\ UNCHANGED <<events, cancelled, start, request, storage>>

\* Loading and attaching the filter, or any of its errors.
TracerLoads ==
    /\ tpc = "load"
    /\ \/ TracerReturns
       \/ /\ tpc' = "check"
          /\ UNCHANGED <<events, errch, cancelled, start, request, storage>>

TracerChecks ==
    /\ tpc = "check"
    /\ IF ContextDone
       THEN TracerReturns
       ELSE /\ tpc' = "read"
            /\ UNCHANGED <<events, errch, cancelled, start, request, storage>>

\* The select that drops the event when the queue is full.
Send(event) == events' = IF Len(events) < QueueSize THEN Append(events, event) ELSE events

\* reader.Read blocks until the filter has let a packet through; the context does
\* not end it. The perf buffer only delays or loses packets.
TracerReads(p) ==
    /\ tpc = "read"
    /\ cgroup_skb_generic(p)
    /\ IF p.dns THEN Send(p.answers) ELSE UNCHANGED events
    /\ tpc' = "check"
    /\ UNCHANGED <<errch, cancelled, start, request, storage>>

TracerReadFails == tpc = "read" /\ TracerReturns

-----------------------------------------------------------------------------
(* IP2DNS.Start. *)

\* Mutant: a select without the case of the context.
SelectNever == FALSE /\ UNCHANGED vars

\* The caches are made, and Run is started.
StartInit ==
    /\ spc = "init"
    /\ spc' = "select"
    /\ tpc' = "load"
    /\ UNCHANGED <<events, errch, cancelled, answers, ipToName, cnameToName, age,
                   request, storage>>

SelectCancelled ==
    /\ spc = "select"
    /\ cancelled
    /\ spc' = "done"
    /\ UNCHANGED <<tracer, cancelled, answers, ipToName, cnameToName, age, request, storage>>

SelectTracerDone ==
    /\ spc = "select"
    /\ errch
    /\ errch' = FALSE
    /\ spc' = "done"
    /\ UNCHANGED <<tpc, events, cancelled, answers, ipToName, cnameToName, age,
                   request, storage>>

SelectEvent ==
    /\ spc = "select"
    /\ events # <<>>
    /\ events' = Tail(events)
    /\ answers' = Head(events)
    /\ spc' = IF Head(events) = <<>> THEN "select" ELSE "answers"
    /\ UNCHANGED <<tpc, errch, cancelled, ipToName, cnameToName, age, request, storage>>

\* The name an A answer is cached under: one alias back, if one is known.
NameOf(n) == IF Found(cnameToName, n) THEN Get(cnameToName, n) ELSE n

\* Mutant: an address keeps the lifetime it was first cached with.
HandleAOnce(a) ==
    /\ a.type = "A"
    /\ ipToName' = IF a.value \in DOMAIN ipToName
                   THEN [ipToName EXCEPT ![a.value].name = NameOf(a.name)]
                   ELSE Put(ipToName, a.value, NameOf(a.name), TTL)
    /\ age' = [age EXCEPT ![a.value][NameOf(a.name)] = 0]
    /\ UNCHANGED cnameToName

HandleA(a) ==
    /\ a.type = "A"
    /\ ipToName' = Put(ipToName, a.value, NameOf(a.name), TTL)
    /\ age' = [age EXCEPT ![a.value][NameOf(a.name)] = 0]
    /\ UNCHANGED cnameToName

HandleCNAME(a) ==
    /\ a.type = "CNAME"
    /\ cnameToName' = Put(cnameToName, a.value, a.name, TTL)
    /\ UNCHANGED <<ipToName, age>>

HandleOther(a) ==
    /\ a.type = "other"
    /\ UNCHANGED <<ipToName, cnameToName, age>>

\* Mutant: an answer that is no A answer ends the loop.
HandleUntilOther ==
    /\ spc = "answers"
    /\ answers # <<>>
    /\ HandleA(Head(answers)) \/ HandleCNAME(Head(answers)) \/ HandleOther(Head(answers))
    /\ answers' = IF Head(answers).type = "A" THEN Tail(answers) ELSE <<>>
    /\ spc' = IF answers' = <<>> THEN "select" ELSE "answers"
    /\ UNCHANGED <<tracer, cancelled, request, storage>>

HandleAnswer ==
    /\ spc = "answers"
    /\ answers # <<>>
    /\ HandleA(Head(answers)) \/ HandleCNAME(Head(answers)) \/ HandleOther(Head(answers))
    /\ answers' = Tail(answers)
    /\ spc' = IF Tail(answers) = <<>> THEN "select" ELSE "answers"
    /\ UNCHANGED <<tracer, cancelled, request, storage>>

-----------------------------------------------------------------------------
(* A request: the exporter fetches, the handler calls Records. *)

FetchBegins ==
    /\ fetch = "idle"
    /\ fetch' = "waiting"
    /\ timer' = FetchTimeout
    /\ UNCHANGED <<tracer, cancelled, start, keys, items, storage>>

\* It failed, timed out, or brought no metrics.
FetchFails ==
    /\ fetch \in {"waiting", "reading"}
    /\ fetch' = "idle"
    /\ timer' = 0
    /\ keys' = {}
    /\ items' = [ip \in {} |-> NoName]
    /\ UNCHANGED <<tracer, cancelled, start, storage>>

\* Records starts; before Start has made the caches it panics, and the request fails.
RecordsKeys ==
    /\ fetch = "waiting"
    /\ spc # "init"
    /\ fetch' = "reading"
    /\ keys' = DOMAIN ipToName
    /\ UNCHANGED <<tracer, cancelled, start, timer, items, storage>>

\* The name of one key; whether it was found is not looked at.
RecordsGet(ip) ==
    /\ fetch = "reading"
    /\ ip \in keys
    /\ keys' = keys \ {ip}
    /\ items' = [x \in DOMAIN items \cup {ip} |-> IF x = ip THEN Get(ipToName, ip) ELSE items[x]]
    /\ UNCHANGED <<tracer, cancelled, start, fetch, timer, storage>>

FetchEnds ==
    /\ fetch = "reading"
    /\ keys = {}
    /\ fetch' = "got"
    /\ timer' = 0
    /\ UNCHANGED <<tracer, cancelled, start, keys, items, storage>>

\* Mutant: everything that is stored is given a new lifetime.
FillRefreshes ==
    /\ fetch = "got"
    /\ storage' = [ip \in DOMAIN storage \cup DOMAIN items |->
                      [name |-> IF ip \in DOMAIN items THEN items[ip] ELSE storage[ip].name,
                       left |-> StorageTTL]]
    /\ fetch' = "idle"
    /\ timer' = 0
    /\ items' = [ip \in {} |-> NoName]
    /\ UNCHANGED <<tracer, cancelled, start, keys>>

\* The export loop takes the batch.
Fill ==
    /\ fetch = "got"
    /\ storage' = [ip \in DOMAIN storage \cup DOMAIN items |->
                      IF ip \in DOMAIN items
                      THEN [name |-> items[ip], left |-> StorageTTL] ELSE storage[ip]]
    /\ fetch' = "idle"
    /\ timer' = 0
    /\ items' = [ip \in {} |-> NoName]
    /\ UNCHANGED <<tracer, cancelled, start, keys>>

\* The name a metric to ip is given.
Lookup(ip) == IF ip = ZeroIP THEN NoName ELSE Get(storage, ip)

-----------------------------------------------------------------------------
(* Time and the process. *)

\* A request ends by its timeout, a batch is taken within MaxWait.
Tick ==
    /\ \/ fetch = "idle" /\ timer' = timer
       \/ fetch \in {"waiting", "reading"} /\ timer > 0 /\ timer' = timer - 1
       \/ fetch = "got" /\ timer < MaxWait /\ timer' = timer + 1
    /\ ipToName' = Older(ipToName)
    /\ cnameToName' = Older(cnameToName)
    /\ storage' = Older(storage)
    /\ age' = [ip \in IPs |-> [n \in Names |-> IF age[ip][n] < Stale THEN age[ip][n] + 1 ELSE Stale]]
    /\ UNCHANGED <<tracer, cancelled, spc, answers, fetch, keys, items>>

\* The janitors of the three caches.
Janitor ==
    \/ /\ \E ip \in Expired(ipToName) : ipToName' = Restrict(ipToName, DOMAIN ipToName \ {ip})
       /\ UNCHANGED <<tracer, cancelled, spc, answers, cnameToName, age, request, storage>>
    \/ /\ \E n \in Expired(cnameToName) : cnameToName' = Restrict(cnameToName, DOMAIN cnameToName \ {n})
       /\ UNCHANGED <<tracer, cancelled, spc, answers, ipToName, age, request, storage>>
    \/ /\ \E ip \in Expired(storage) : storage' = Restrict(storage, DOMAIN storage \ {ip})
       /\ UNCHANGED <<tracer, cancelled, start, request>>

Cancel ==
    /\ ~cancelled
    /\ cancelled' = TRUE
    /\ UNCHANGED <<tracer, start, request, storage>>

\* The collector's process ends, and another one begins; a request it was in fails.
Restart ==
    /\ tpc' = "off" /\ events' = <<>> /\ errch' = FALSE
    /\ cancelled' = FALSE
    /\ spc' = "init" /\ answers' = <<>>
    /\ ipToName' = EmptyCache /\ cnameToName' = EmptyCache
    /\ IF fetch = "got" THEN UNCHANGED request
       ELSE fetch' = "idle" /\ timer' = 0 /\ keys' = {} /\ items' = [ip \in {} |-> NoName]
    /\ UNCHANGED <<storage, age>>

TracerStep == TracerLoads \/ TracerChecks

StartStep == StartInit \/ SelectCancelled \/ SelectTracerDone \/ SelectEvent \/ HandleAnswer

RecordsStep == RecordsKeys \/ (\E ip \in IPs : RecordsGet(ip)) \/ FetchEnds

Run ==
    \/ TracerStep \/ (\E p \in Packets : TracerReads(p)) \/ TracerReadFails
    \/ StartStep
    \/ FetchBegins \/ FetchFails \/ RecordsStep \/ Fill
    \/ Tick \/ Janitor
    \/ Cancel

Next == Run \/ Restart

Spec == Init /\ [][Next]_vars

\* Both goroutines go on, and select does not pass over a ready case for ever.
Fairness == WF_vars(TracerStep) /\ WF_vars(StartStep) /\ SF_vars(SelectCancelled)

FairSpec == Spec /\ Fairness

-----------------------------------------------------------------------------
(* Properties. *)

(* Types; Tracer.events stays within its capacity, though Run never waits  *)
(* to send.                                                                *)
TypeOK ==
    /\ tpc \in {"off", "load", "check", "read", "done"}
    /\ events \in Seq(Seq(Answer)) /\ Len(events) <= QueueSize
    /\ errch \in BOOLEAN /\ cancelled \in BOOLEAN
    /\ spc \in {"init", "select", "answers", "done"}
    /\ answers \in Seq(Answer)
    /\ fetch \in {"idle", "waiting", "reading", "got"}
    /\ timer \in Nat
    /\ keys \subseteq IPs
    /\ DOMAIN ipToName \subseteq IPs /\ DOMAIN cnameToName \subseteq Names
    /\ DOMAIN items \subseteq IPs /\ DOMAIN storage \subseteq IPs
    /\ \A ip \in DOMAIN ipToName : ipToName[ip] \in [name : Names, left : 0 .. TTL]
    /\ \A n \in DOMAIN cnameToName : cnameToName[n] \in [name : Names, left : 0 .. TTL]
    /\ \A ip \in DOMAIN items : items[ip] \in Names \cup {NoName}
    /\ \A ip \in DOMAIN storage : storage[ip] \in [name : Names \cup {NoName}, left : 0 .. StorageTTL]
    /\ age \in [IPs -> [Names -> 0 .. Stale]]

(* A metric is given a destination name only if a DNS answer gave that     *)
(* address the name at most MaxAge ago: the lifetimes of the collector's   *)
(* cache, of a request and of the exporter's storage add up, and nothing   *)
(* (an expired key in Records, a restart, a late batch) prolongs them.     *)
FreshNames ==
    \A ip \in IPs : Lookup(ip) # NoName => age[ip][Lookup(ip)] <= MaxAge

(* Records sends an address with an empty domain, which overwrites the     *)
(* name the exporter has, only when no answer gave the address a name for  *)
(* the TTL: never for an address in use, whatever the janitor does between *)
(* Keys and Get.                                                           *)
EmptyOnlyWhenStale ==
    [][\A ip \in DOMAIN items' \ DOMAIN items :
          items'[ip] = NoName => \A n \in Names : age[ip][n] >= TTL]_vars

(* Start returns once the context is done, however many events arrive.     *)
StartStops == []<>(cancelled => spc = "done")

\* An A answer for ip is queued, or in the event that Start handles.
Waiting(ip) ==
    \E q \in {answers} \cup Range(events) : \E a \in Range(q) : a.type = "A" /\ a.value = ip

(* An answer that Run has queued gives its address a name, whatever it is   *)
(* queued behind, which answers precede it in its packet and how long       *)
(* requests read the cache meanwhile, unless Start returns or the process   *)
(* ends first.  Only a full queue loses answers.                            *)
AnswersFiled ==
    \A ip \in IPs :
        Waiting(ip) ~> ((\E n \in Names : age[ip][n] = 0) \/ spc \in {"init", "done"})

-----------------------------------------------------------------------------
(* The inductive invariant of the last two safety properties. *)

\* A cached name is as old as the part of its lifetime that is over, and every
\* other name of the address is older.
CacheAges ==
    \A ip \in DOMAIN ipToName :
        /\ ipToName[ip].left > 0 => age[ip][ipToName[ip].name] + ipToName[ip].left <= TTL
        /\ \A n \in Names : age[ip][n] + ipToName[ip].left >= TTL

\* A key that left the cache while Records ran had expired.
KeysAges ==
    /\ fetch # "reading" => keys = {}
    /\ \A ip \in keys \ DOMAIN ipToName : \A n \in Names : age[ip][n] >= TTL

\* How long ago the request began.
Elapsed == IF fetch = "got" THEN FetchTimeout + timer ELSE FetchTimeout - timer

\* A name in a batch was alive when the request began, or was given since.
ItemsAges ==
    /\ fetch \in {"idle", "waiting"} => DOMAIN items = {}
    /\ fetch \in {"waiting", "reading"} => timer <= FetchTimeout
    /\ fetch = "got" => timer <= MaxWait
    /\ \A ip \in DOMAIN items : items[ip] # NoName => age[ip][items[ip]] <= TTL + Elapsed

\* A stored name is at most as old as when it was stored and the time since.
StorageAges ==
    \A ip \in DOMAIN storage :
        storage[ip].left > 0 /\ storage[ip].name # NoName =>
            age[ip][storage[ip].name] + storage[ip].left <= MaxAge

AgesInv == CacheAges /\ KeysAges /\ ItemsAges /\ StorageAges
=============================================================================
