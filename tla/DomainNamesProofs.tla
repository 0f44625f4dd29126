-------------------------- MODULE DomainNamesProofs --------------------------
(***************************************************************************)
(* Types of the caches, the queue and a request, and how old the names are *)
(* that a metric is given: the lifetimes of the collector's cache, of a    *)
(* request and of the exporter's storage add up.  For all addresses,       *)
(* names, packets, lifetimes and queue sizes.                              *)
(***************************************************************************)
EXTENDS DomainNames, TLAPS

-----------------------------------------------------------------------------
(* Caches. *)

CacheOf(cache, K, V, ttl) ==
    /\ DOMAIN cache \subseteq K
    /\ \A k \in DOMAIN cache : cache[k] \in [name : V, left : 0 .. ttl]

(* No key is in a new cache. *)
LEMMA EmptyFacts ==
    ASSUME NEW K, NEW V, NEW ttl
    PROVE  CacheOf(EmptyCache, K, V, ttl) /\ DOMAIN EmptyCache = {}
BY Zenon DEF CacheOf, EmptyCache

(* Set adds one key. *)
LEMMA PutFacts ==
    ASSUME NEW cache, NEW K, NEW V, NEW ttl \in Nat, CacheOf(cache, K, V, ttl),
           NEW k \in K, NEW v \in V
    PROVE  /\ CacheOf(Put(cache, k, v, ttl), K, V, ttl)
           /\ DOMAIN Put(cache, k, v, ttl) = DOMAIN cache \cup {k}
           /\ Put(cache, k, v, ttl)[k] = [name |-> v, left |-> ttl]
           /\ \A x \in DOMAIN cache : x # k => Put(cache, k, v, ttl)[x] = cache[x]
BY DEF CacheOf, Put

(* Time takes one tick of every lifetime that is left. *)
LEMMA OlderFacts ==
    ASSUME NEW cache, NEW K, NEW V, NEW ttl \in Nat, CacheOf(cache, K, V, ttl)
    PROVE  /\ CacheOf(Older(cache), K, V, ttl)
           /\ DOMAIN Older(cache) = DOMAIN cache
           /\ \A x \in DOMAIN cache : /\ Older(cache)[x].name = cache[x].name
                                      /\ Older(cache)[x].left =
                                           IF cache[x].left > 0 THEN cache[x].left - 1 ELSE 0
<1>1. DOMAIN Older(cache) = DOMAIN cache
  BY Zenon DEF Older
<1>2. ASSUME NEW x \in DOMAIN cache
      PROVE  /\ Older(cache)[x] \in [name : V, left : 0 .. ttl]
             /\ Older(cache)[x].name = cache[x].name
             /\ Older(cache)[x].left = IF cache[x].left > 0 THEN cache[x].left - 1 ELSE 0
  <2>1. cache[x] \in [name : V, left : 0 .. ttl]
    BY Zenon DEF CacheOf
  <2>2. Older(cache)[x] = [cache[x] EXCEPT !.left = IF cache[x].left > 0 THEN cache[x].left - 1 ELSE 0]
    BY Zenon DEF Older
  <2> QED
    BY <2>1, <2>2
<1> QED
  BY <1>1, <1>2, Zenon DEF CacheOf

(* The janitor removes keys and changes none. *)
LEMMA RestrictFacts ==
    ASSUME NEW cache, NEW K, NEW V, NEW ttl, CacheOf(cache, K, V, ttl), NEW D, D \subseteq DOMAIN cache
    PROVE  /\ CacheOf(Restrict(cache, D), K, V, ttl)
           /\ DOMAIN Restrict(cache, D) = D
           /\ \A x \in D : Restrict(cache, D)[x] = cache[x]
BY Zenon DEF CacheOf, Restrict

-----------------------------------------------------------------------------
(* Types. *)

QueueType ==
    /\ tpc \in {"off", "load", "check", "read", "done"}
    /\ events \in Seq(Seq(Answer)) /\ Len(events) <= QueueSize
    /\ errch \in BOOLEAN /\ cancelled \in BOOLEAN
    /\ spc \in {"init", "select", "answers", "done"}
    /\ answers \in Seq(Answer)

CacheType ==
    /\ CacheOf(ipToName, IPs, Names, TTL)
    /\ CacheOf(cnameToName, Names, Names, TTL)
    /\ CacheOf(storage, IPs, Names \cup {NoName}, StorageTTL)
    /\ age \in [IPs -> [Names -> 0 .. Stale]]

RequestType ==
    /\ fetch \in {"idle", "waiting", "reading", "got"}
    /\ timer \in Nat
    /\ keys \subseteq IPs
    /\ DOMAIN items \subseteq IPs
    /\ \A ip \in DOMAIN items : items[ip] \in Names \cup {NoName}

LEMMA TypeParts == TypeOK <=> QueueType /\ CacheType /\ RequestType
BY Zenon DEF TypeOK, QueueType, CacheType, RequestType, CacheOf

(* A queue, as one end and the other move. *)
LEMMA QueueFacts ==
    ASSUME NEW S, NEW q \in Seq(S)
    PROVE  /\ \A e \in S : Append(q, e) \in Seq(S) /\ Len(Append(q, e)) = Len(q) + 1
           /\ q # <<>> => Head(q) \in S /\ Tail(q) \in Seq(S) /\ Len(Tail(q)) = Len(q) - 1
           /\ Len(q) \in Nat
OBVIOUS

(* The queue, the event at hand and the goroutines. *)
LEMMA QueueStep == QueueType /\ [Next]_vars => QueueType'
<1> SUFFICES ASSUME QueueType, [Next]_vars PROVE QueueType'
  OBVIOUS
<1> USE BoundsAssumption DEF QueueType
<1>1. ASSUME TracerReturns PROVE QueueType'
  BY <1>1, Zenon DEF TracerReturns, start
<1>2. CASE TracerLoads \/ TracerChecks \/ TracerReadFails
  BY <1>1, <1>2, Zenon DEF TracerLoads, TracerChecks, TracerReadFails, start
<1>3. ASSUME NEW p \in Packets, TracerReads(p) PROVE QueueType'
  <2>1. p.answers \in Seq(Answer)
    BY PacketsAssumption, Zenon DEF Packet
  <2>2. events' = events \/ (Len(events) < QueueSize /\ events' = Append(events, p.answers))
    BY <1>3, Zenon DEF TracerReads, Send
  <2>3. Append(events, p.answers) \in Seq(Seq(Answer)) /\ Len(Append(events, p.answers)) = Len(events) + 1
    <3> DEFINE S == Seq(Answer)
    <3>1. p.answers \in S /\ events \in Seq(S)
      BY <2>1, Zenon
    <3> HIDE DEF S
    <3>2. Append(events, p.answers) \in Seq(S) /\ Len(Append(events, p.answers)) = Len(events) + 1
      BY <3>1, QueueFacts, Zenon
    <3> QED
      BY <3>2, Zenon DEF S
  <2>4. Len(events) \in Nat
    BY QueueFacts, Zenon
  <2>5. Len(events) < QueueSize => Len(events) + 1 <= QueueSize
    BY <2>4
  <2>6. events' \in Seq(Seq(Answer)) /\ Len(events') <= QueueSize
    BY <2>2, <2>3, <2>5, Zenon
  <2>7. tpc' = "check" /\ UNCHANGED <<errch, cancelled, spc, answers>>
    BY <1>3, Zenon DEF TracerReads, start
  <2> QED
    BY <2>6, <2>7, Zenon
<1>4. CASE StartInit \/ SelectCancelled \/ SelectTracerDone
  BY <1>4, Zenon DEF StartInit, SelectCancelled, SelectTracerDone, tracer
<1>5. CASE SelectEvent
  <2>1. Head(events) \in Seq(Answer) /\ Tail(events) \in Seq(Seq(Answer)) /\ Len(Tail(events)) = Len(events) - 1
    BY <1>5, QueueFacts, Zenon DEF SelectEvent
  <2>2. Len(events) \in Nat
    BY QueueFacts, Zenon
  <2> QED
    BY <1>5, <2>1, <2>2 DEF SelectEvent
<1>6. CASE HandleAnswer
  <2>1. Tail(answers) \in Seq(Answer)
    BY <1>6, QueueFacts, Zenon DEF HandleAnswer
  <2> QED
    BY <1>6, <2>1, Zenon DEF HandleAnswer, tracer
<1>7. CASE FetchBegins \/ FetchFails \/ RecordsStep \/ Fill \/ Tick \/ Cancel
  BY <1>7, ZenonT(30)
     DEF FetchBegins, FetchFails, RecordsStep, RecordsKeys, RecordsGet, FetchEnds, Fill, Tick,
              Cancel, tracer, start
<1>8. CASE Janitor
  BY <1>8, Zenon DEF Janitor, tracer, start
<1>9. CASE Restart
  <2>1. <<>> \in Seq(Seq(Answer)) /\ <<>> \in Seq(Answer) /\ Len(<<>>) = 0
    OBVIOUS
  <2>2. Len(<<>>) <= QueueSize
    BY <2>1
  <2>3. /\ tpc' = "off" /\ spc' = "init" /\ events' = <<>> /\ answers' = <<>>
        /\ errch' = FALSE /\ cancelled' = FALSE
    BY <1>9, Zenon DEF Restart
  <2> QED
    BY <2>1, <2>2, <2>3, Zenon
<1>10. CASE UNCHANGED vars
  BY <1>10, Zenon DEF vars, tracer, start
<1> QED
  BY <1>2, <1>3, <1>4, <1>5, <1>6, <1>7, <1>8, <1>9, <1>10, Zenon DEF Next, Run, TracerStep, StartStep

(* The request: Records finds names or nothing. *)
LEMMA RequestStep == CacheType /\ RequestType /\ [Next]_vars => RequestType'
<1> SUFFICES ASSUME CacheType, RequestType, [Next]_vars PROVE RequestType'
  OBVIOUS
<1> USE BoundsAssumption DEF RequestType
<1>0. DOMAIN [ip \in {} |-> NoName] = {}
  OBVIOUS
<1>1. ASSUME UNCHANGED request PROVE RequestType'
  BY <1>1, Zenon DEF request
<1>2. CASE TracerStep \/ TracerReadFails \/ (\E p \in Packets : TracerReads(p)) \/ StartStep \/ Janitor \/ Cancel
  BY <1>1, <1>2, Zenon
     DEF TracerStep, TracerLoads, TracerChecks, TracerReturns, TracerReadFails, TracerReads, StartStep,
       StartInit, SelectCancelled, SelectTracerDone, SelectEvent, HandleAnswer, Janitor, Cancel
<1>3. CASE FetchBegins \/ FetchFails \/ FetchEnds \/ Fill
  BY <1>0, <1>3 DEF FetchBegins, FetchFails, FetchEnds, Fill
<1>4. CASE RecordsKeys
  BY <1>4, Zenon DEF RecordsKeys, CacheType, CacheOf
<1>5. ASSUME NEW ip \in IPs, RecordsGet(ip) PROVE RequestType'
  <2>1. Get(ipToName, ip) \in Names \cup {NoName}
    BY Zenon DEF CacheType, CacheOf, Get, Found
  <2> QED
    BY <1>5, <2>1, Zenon DEF RecordsGet
<1>6. CASE Tick
  BY <1>6 DEF Tick
<1>7. CASE Restart
  BY <1>0, <1>7 DEF Restart, request
<1>8. CASE UNCHANGED vars
  BY <1>1, <1>8, Zenon DEF vars
<1> QED
  BY <1>2, <1>3, <1>4, <1>5, <1>6, <1>7, <1>8, Zenon DEF Next, Run, RecordsStep

(* The kinds of steps, as the caches see them. *)
LEMMA CacheCases ==
    ASSUME [Next]_vars
    PROVE  \/ HandleAnswer \/ Fill \/ Tick \/ Janitor \/ Restart
           \/ UNCHANGED <<ipToName, cnameToName, storage, age>>
BY Zenon
   DEF Next, Run, vars, start, TracerStep, TracerLoads, TracerChecks, TracerReturns, TracerReadFails, TracerReads,
       StartStep, StartInit, SelectCancelled, SelectTracerDone, SelectEvent, Cancel,
       FetchBegins, FetchFails, RecordsStep, RecordsKeys, RecordsGet, FetchEnds

(* What an answer does to the caches. *)
LEMMA AnswerCases ==
    ASSUME QueueType, CacheType, HandleAnswer
    PROVE  /\ storage' = storage
           /\ \/ \E ip \in IPs, n \in Names :
                    /\ ipToName' = Put(ipToName, ip, n, TTL)
                    /\ age' = [age EXCEPT ![ip][n] = 0]
                    /\ cnameToName' = cnameToName
              \/ \E c \in Names, n \in Names :
                    /\ cnameToName' = Put(cnameToName, c, n, TTL)
                    /\ ipToName' = ipToName /\ age' = age
              \/ UNCHANGED <<ipToName, cnameToName, age>>
<1> DEFINE a == Head(answers)
<1>1. a \in Answer
  BY QueueFacts, Zenon DEF HandleAnswer, QueueType
<1>2. storage' = storage /\ (HandleA(a) \/ HandleCNAME(a) \/ HandleOther(a))
  BY Zenon DEF HandleAnswer
<1> HIDE DEF a
<1>3. CASE HandleA(a)
  <2>1. a.value \in IPs /\ a.name \in Names
    BY <1>1, <1>3, Zenon DEF Answer, HandleA
  <2>2. NameOf(a.name) \in Names
    BY <2>1, Zenon DEF NameOf, Get, Found, CacheType, CacheOf
  <2> QED
    BY <2>1, <2>2, <1>2, <1>3, Zenon DEF HandleA
<1>4. CASE HandleCNAME(a)
  <2>1. a.value \in Names /\ a.name \in Names
    BY <1>1, <1>4, Zenon DEF Answer, HandleCNAME
  <2> QED
    BY <2>1, <1>2, <1>4, Zenon DEF HandleCNAME
<1>5. CASE HandleOther(a)
  BY <1>2, <1>5, Zenon DEF HandleOther
<1> QED
  BY <1>2, <1>3, <1>4, <1>5, Zenon

(* What the janitor does to them. *)
LEMMA JanitorCases ==
    ASSUME CacheType, Janitor
    PROVE  /\ age' = age /\ request' = request
           /\ \/ \E D \in SUBSET DOMAIN ipToName :
                    /\ ipToName' = Restrict(ipToName, D)
                    /\ \A ip \in DOMAIN ipToName \ D : ipToName[ip].left = 0
                    /\ UNCHANGED <<cnameToName, storage>>
              \/ \E D \in SUBSET DOMAIN cnameToName :
                    cnameToName' = Restrict(cnameToName, D) /\ UNCHANGED <<ipToName, storage>>
              \/ \E D \in SUBSET DOMAIN storage :
                    storage' = Restrict(storage, D) /\ UNCHANGED <<ipToName, cnameToName>>
<1>1. CASE \E ip \in Expired(ipToName) : ipToName' = Restrict(ipToName, DOMAIN ipToName \ {ip})
                                        /\ UNCHANGED <<cnameToName, age, request, storage>>
  BY <1>1, Zenon DEF Expired
<1>2. CASE \E n \in Expired(cnameToName) : cnameToName' = Restrict(cnameToName, DOMAIN cnameToName \ {n})
                                         /\ UNCHANGED <<ipToName, age, request, storage>>
  BY <1>2, Zenon
<1>3. CASE \E ip \in Expired(storage) : storage' = Restrict(storage, DOMAIN storage \ {ip})
                                        /\ UNCHANGED <<ipToName, cnameToName, age, request>>
  BY <1>3, Zenon
<1> QED
  BY <1>1, <1>2, <1>3, Zenon DEF Janitor, start

(* Fill stores what Records found, for StorageTTL. *)
LEMMA FillFacts ==
    ASSUME CacheType, RequestType, Fill
    PROVE  /\ UNCHANGED <<ipToName, cnameToName, age>>
           /\ CacheOf(storage', IPs, Names \cup {NoName}, StorageTTL)
           /\ DOMAIN storage' = DOMAIN storage \cup DOMAIN items
           /\ \A ip \in DOMAIN storage' :
                 storage'[ip] = IF ip \in DOMAIN items
                                THEN [name |-> items[ip], left |-> StorageTTL] ELSE storage[ip]
<1>1. /\ UNCHANGED <<ipToName, cnameToName, age>>
      /\ storage' = [ip \in DOMAIN storage \cup DOMAIN items |->
                        IF ip \in DOMAIN items
                        THEN [name |-> items[ip], left |-> StorageTTL] ELSE storage[ip]]
  BY Zenon DEF Fill, start
<1>2. StorageTTL \in 0 .. StorageTTL
  BY BoundsAssumption
<1>3. ASSUME NEW ip \in DOMAIN storage \cup DOMAIN items
      PROVE  storage'[ip] \in [name : Names \cup {NoName}, left : 0 .. StorageTTL]
  <2>1. CASE ip \in DOMAIN items
    BY <2>1, <1>1, <1>2, Zenon DEF RequestType
  <2>2. CASE ip \notin DOMAIN items
    BY <2>2, <1>1, Zenon DEF CacheType, CacheOf
  <2> QED
    BY <2>1, <2>2, Zenon
<1>4. DOMAIN storage' = DOMAIN storage \cup DOMAIN items /\ DOMAIN storage' \subseteq IPs
  BY <1>1, Zenon DEF CacheType, CacheOf, RequestType
<1> QED
  BY <1>1, <1>3, <1>4, Zenon DEF CacheOf

(* The caches hold names with a lifetime, and ages are counted. *)
LEMMA CacheStep == QueueType /\ CacheType /\ RequestType /\ [Next]_vars => CacheType'
<1> SUFFICES ASSUME QueueType, CacheType, RequestType, [Next]_vars PROVE CacheType'
  OBVIOUS
<1>n. TTL \in Nat /\ StorageTTL \in Nat /\ Stale \in Nat
  BY BoundsAssumption DEF Stale, MaxAge
<1>t. /\ CacheOf(ipToName, IPs, Names, TTL) /\ CacheOf(cnameToName, Names, Names, TTL)
      /\ CacheOf(storage, IPs, Names \cup {NoName}, StorageTTL)
      /\ age \in [IPs -> [Names -> 0 .. Stale]]
  BY Zenon DEF CacheType
<1>1. CASE HandleAnswer
  <2>1. CASE \E ip \in IPs, n \in Names :
                 /\ ipToName' = Put(ipToName, ip, n, TTL)
                 /\ age' = [age EXCEPT ![ip][n] = 0]
                 /\ cnameToName' = cnameToName
    <3> PICK ip \in IPs, n \in Names :
                 /\ ipToName' = Put(ipToName, ip, n, TTL)
                 /\ age' = [age EXCEPT ![ip][n] = 0]
                 /\ cnameToName' = cnameToName
      BY <2>1, Zenon
    <3>1. CacheOf(ipToName', IPs, Names, TTL)
      BY <1>n, <1>t, PutFacts, Zenon
    <3>2. age' \in [IPs -> [Names -> 0 .. Stale]]
      <4>1. 0 \in 0 .. Stale
        BY <1>n
      <4> DEFINE A == 0 .. Stale
      <4> HIDE DEF A
      <4>2. ASSUME 0 \in A, age \in [IPs -> [Names -> A]] PROVE age' \in [IPs -> [Names -> A]]
        BY <4>2, Zenon
      <4> QED
        BY <4>1, <4>2, <1>t, Zenon DEF A
    <3> QED
      BY <3>1, <3>2, <1>t, <1>1, AnswerCases, Zenon DEF CacheType
  <2>2. CASE \E c \in Names, n \in Names :
                 /\ cnameToName' = Put(cnameToName, c, n, TTL)
                 /\ ipToName' = ipToName /\ age' = age
    <3> PICK c \in Names, n \in Names :
                 /\ cnameToName' = Put(cnameToName, c, n, TTL)
                 /\ ipToName' = ipToName /\ age' = age
      BY <2>2, Zenon
    <3>1. CacheOf(cnameToName', Names, Names, TTL)
      BY <1>n, <1>t, PutFacts, Zenon
    <3> QED
      BY <3>1, <1>t, <1>1, AnswerCases, Zenon DEF CacheType
  <2> QED
    BY <2>1, <2>2, <1>1, AnswerCases, Zenon DEF CacheType
<1>2. CASE Fill
  BY <1>2, <1>t, FillFacts, Zenon DEF CacheType
<1>3. CASE Tick
  <2>1. /\ CacheOf(ipToName', IPs, Names, TTL) /\ CacheOf(cnameToName', Names, Names, TTL)
        /\ CacheOf(storage', IPs, Names \cup {NoName}, StorageTTL)
    BY <1>3, <1>n, <1>t, OlderFacts, Zenon DEF Tick
  <2>2. age' \in [IPs -> [Names -> 0 .. Stale]]
    <3>1. age' = [ip \in IPs |-> [n \in Names |-> IF age[ip][n] < Stale THEN age[ip][n] + 1 ELSE Stale]]
      BY <1>3, Zenon DEF Tick
    <3>2. ASSUME NEW ip \in IPs, NEW n \in Names
          PROVE  (IF age[ip][n] < Stale THEN age[ip][n] + 1 ELSE Stale) \in 0 .. Stale
      BY <1>n, <1>t
    <3> QED
      BY <3>1, <3>2, Zenon
  <2> QED
    BY <2>1, <2>2, Zenon DEF CacheType
<1>4. CASE Janitor
  <2>1. ASSUME NEW D \in SUBSET DOMAIN ipToName, ipToName' = Restrict(ipToName, D)
        PROVE  CacheOf(ipToName', IPs, Names, TTL)
    BY <2>1, <1>t, RestrictFacts, Zenon
  <2>2. ASSUME NEW D \in SUBSET DOMAIN cnameToName, cnameToName' = Restrict(cnameToName, D)
        PROVE  CacheOf(cnameToName', Names, Names, TTL)
    BY <2>2, <1>t, RestrictFacts, Zenon
  <2>3. ASSUME NEW D \in SUBSET DOMAIN storage, storage' = Restrict(storage, D)
        PROVE  CacheOf(storage', IPs, Names \cup {NoName}, StorageTTL)
    BY <2>3, <1>t, RestrictFacts, Zenon
  <2> QED
    BY <2>1, <2>2, <2>3, <1>4, <1>t, JanitorCases, Zenon DEF CacheType
<1>5. CASE Restart
  BY <1>5, <1>t, EmptyFacts, Zenon DEF Restart, CacheType
<1>6. CASE UNCHANGED <<ipToName, cnameToName, storage, age>>
  BY <1>6, <1>t, Zenon DEF CacheType
<1> QED
  BY <1>1, <1>2, <1>3, <1>4, <1>5, <1>6, CacheCases, Zenon

(* The types of the whole path, and the bound of the tracer's queue, for   *)
(* every queue size and all packets.                                       *)
THEOREM NamesTypeCorrect == Spec => []TypeOK
<1>1. Init => QueueType
  <2>1. <<>> \in Seq(Seq(Answer)) /\ <<>> \in Seq(Answer) /\ Len(<<>>) = 0
    OBVIOUS
  <2>2. Len(<<>>) <= QueueSize
    BY <2>1, BoundsAssumption
  <2>3. Init => /\ tpc = "off" /\ spc = "init" /\ events = <<>> /\ answers = <<>>
                /\ errch = FALSE /\ cancelled = FALSE
    BY Zenon DEF Init
  <2> QED
    BY <2>1, <2>2, <2>3, Zenon DEF QueueType
<1>2. Init => RequestType
  BY DEF Init, RequestType
<1>3. Init => CacheType
  <2>1. Stale \in 0 .. Stale
    BY BoundsAssumption DEF Stale, MaxAge
  <2> QED
    BY <2>1, EmptyFacts DEF Init, CacheType
<1>4. (QueueType /\ CacheType /\ RequestType) /\ [Next]_vars => (QueueType /\ CacheType /\ RequestType)'
  BY QueueStep, CacheStep, RequestStep, Zenon
<1> QED
  BY <1>1, <1>2, <1>3, <1>4, TypeParts, PTL DEF Spec

-----------------------------------------------------------------------------
(* What AnswersFiled and StartStops need besides fairness. *)

\* The loop over the answers is left when none is left.
LoopInv == spc = "answers" <=> answers # <<>>

\* Guards of StartStep; one of them is that an answer at hand is of a type the switch has.
StartReady ==
    \/ spc = "init"
    \/ spc = "select" /\ (cancelled \/ errch \/ events # <<>>)
    \/ spc = "answers" /\ answers # <<>> /\ Head(answers).type \in {"A", "CNAME", "other"}

(* With an event in the queue or the context done, Start can go on.         *)
StartNeverStuck == (cancelled \/ events # <<>>) /\ spc # "done" => StartReady

\* Steps of Start before it takes the next event.
StartLeft == IF spc = "init" THEN 1 ELSE Len(answers)

(* While the queue is full, each step of Start makes room, returns or comes *)
(* nearer to it; no other step puts it back.                                *)
FullQueueAdvances ==
    [][Len(events) = QueueSize /\ spc # "done" =>
          \/ Len(events') < QueueSize \/ spc' = "done"
          \/ IF StartStep THEN StartLeft' < StartLeft /\ events' = events
                          ELSE UNCHANGED <<events, spc, answers>>]_vars

\* What the steps of Start and of the others do to the loop.
LEMMA StartCases ==
    ASSUME QueueType, StartStep
    PROVE  \/ spc = "init" /\ spc' = "select" /\ UNCHANGED <<events, answers>>
           \/ spc = "select" /\ spc' = "done" /\ UNCHANGED <<events, answers>>
           \/ /\ spc = "select" /\ events # <<>> /\ events' = Tail(events) /\ answers' = Head(events)
              /\ spc' = IF Head(events) = <<>> THEN "select" ELSE "answers"
           \/ /\ spc = "answers" /\ answers # <<>> /\ answers' = Tail(answers) /\ UNCHANGED events
              /\ spc' = IF Tail(answers) = <<>> THEN "select" ELSE "answers"
  BY Zenon DEF StartStep, StartInit, SelectCancelled, SelectTracerDone, SelectEvent, HandleAnswer, tracer

LEMMA OtherCases ==
    ASSUME [Next]_vars, ~StartStep
    PROVE  \/ UNCHANGED <<events, spc, answers>>
           \/ spc' = "init" /\ answers' = <<>> /\ events' = <<>>
           \/ UNCHANGED <<spc, answers>> /\ \E p \in Packets : Send(p.answers)
<1>1. CASE TracerStep \/ TracerReadFails
  BY <1>1, Zenon DEF TracerStep, TracerLoads, TracerChecks, TracerReadFails, TracerReturns, start
<1>2. ASSUME NEW p \in Packets, TracerReads(p)
      PROVE  UNCHANGED <<spc, answers>> /\ (UNCHANGED events \/ Send(p.answers))
  BY <1>2, Zenon DEF TracerReads, start
<1>3. CASE FetchBegins \/ FetchFails \/ RecordsStep \/ Fill \/ Tick \/ Cancel
  BY <1>3, Zenon
     DEF FetchBegins, FetchFails, RecordsStep, RecordsKeys, RecordsGet, FetchEnds, Fill, Tick,
              Cancel, tracer, start
<1>4. CASE Janitor
  BY <1>4, Zenon DEF Janitor, tracer, start
<1>5. CASE Restart
  BY <1>5, Zenon DEF Restart
<1>6. CASE UNCHANGED vars
  BY <1>6, Zenon DEF vars, tracer, start
<1> QED
  BY <1>1, <1>2, <1>3, <1>4, <1>5, <1>6, Zenon DEF Next, Run

LEMMA LoopStep == QueueType /\ LoopInv /\ [Next]_vars => LoopInv'
<1> SUFFICES ASSUME QueueType, LoopInv, [Next]_vars PROVE LoopInv'
  OBVIOUS
<1>1. CASE StartStep
  BY <1>1, StartCases, Zenon DEF LoopInv
<1>2. CASE ~StartStep
  BY <1>2, OtherCases, Zenon DEF LoopInv
<1> QED
  BY <1>1, <1>2, Zenon

LEMMA FullStep ==
    ASSUME QueueType, LoopInv, [Next]_vars, Len(events) = QueueSize, spc # "done"
    PROVE  \/ Len(events') < QueueSize \/ spc' = "done"
           \/ IF StartStep THEN StartLeft' < StartLeft /\ events' = events
                           ELSE UNCHANGED <<events, spc, answers>>
<1>1. QueueSize \in Nat \ {0} /\ Len(<<>>) = 0
  BY BoundsAssumption
<1>2. CASE StartStep
  <2>1. CASE spc = "init" /\ spc' = "select" /\ UNCHANGED <<events, answers>>
    <3>1. answers' = <<>>
      BY <2>1, Zenon DEF LoopInv
    <3>2. StartLeft' = 0 /\ StartLeft = 1
      BY <1>1, <2>1, <3>1 DEF StartLeft
    <3> QED
      BY <1>2, <2>1, <3>2
  <2>2. CASE events # <<>> /\ events' = Tail(events)
    <3>1. Len(events') = Len(events) - 1
      BY <2>2, QueueFacts, Zenon DEF QueueType
    <3> QED
      BY <1>1, <3>1
  <2>3. CASE spc = "answers" /\ answers # <<>> /\ answers' = Tail(answers) /\ UNCHANGED events /\ spc' # "init"
    <3>1. Len(answers') = Len(answers) - 1 /\ Len(answers) \in Nat
      BY <2>3, QueueFacts, Zenon DEF QueueType
    <3>2. StartLeft' = Len(answers') /\ StartLeft = Len(answers)
      BY <2>3, Zenon DEF StartLeft
    <3>3. StartLeft' < StartLeft
      BY <3>1, <3>2
    <3> QED
      BY <1>2, <2>3, <3>3, Zenon
  <2> QED
    BY <1>2, <2>1, <2>2, <2>3, StartCases, Zenon
<1>3. CASE ~StartStep
  <2>1. 0 < QueueSize /\ ~(Len(events) < QueueSize)
    BY <1>1
  <2>2. \A a : Send(a) => events' = events
    BY <2>1, Zenon DEF Send
  <2> QED
    BY <1>1, <1>3, <2>1, <2>2, OtherCases, Zenon
<1> QED
  BY <1>2, <1>3, Zenon

(* IP2DNS.Start does not get stuck with events in its queue or with the     *)
(* context done: some case of its select is ready, or an answer it has a    *)
(* branch for is at hand.  And with a full queue every step it takes makes  *)
(* room for Run, returns, or is one of the finitely many before it does,    *)
(* while no other goroutine adds to them.                                   *)
THEOREM StartGoesOn == Spec => []StartNeverStuck /\ FullQueueAdvances
<1>1. Init => LoopInv
  BY Zenon DEF Init, LoopInv
<1>2. Spec => []QueueType
  <2>1. TypeOK => QueueType
    BY TypeParts, Zenon
  <2> QED
    BY <2>1, NamesTypeCorrect, PTL
<1>3. QueueType /\ LoopInv => StartNeverStuck
  <2> SUFFICES ASSUME QueueType, LoopInv, cancelled \/ events # <<>>, spc # "done" PROVE StartReady
    BY Zenon DEF StartNeverStuck
  <2>1. CASE spc = "answers"
    <3>1. answers # <<>> /\ Head(answers) \in Answer
      BY <2>1, QueueFacts, Zenon DEF LoopInv, QueueType
    <3>2. Head(answers).type \in {"A", "CNAME", "other"}
      BY <3>1 DEF Answer
    <3> QED
      BY <2>1, <3>1, <3>2, Zenon DEF StartReady
  <2> QED
    BY <2>1, Zenon DEF StartReady, QueueType
<1>4. QueueType /\ LoopInv /\ [Next]_vars
        => [Len(events) = QueueSize /\ spc # "done" =>
               \/ Len(events') < QueueSize \/ spc' = "done"
               \/ IF StartStep THEN StartLeft' < StartLeft /\ events' = events
                               ELSE UNCHANGED <<events, spc, answers>>]_vars
  BY FullStep, Zenon
<1> QED
  BY <1>1, <1>2, <1>3, <1>4, LoopStep, PTL DEF Spec, FullQueueAdvances

\* An A answer for ip is among the answers of q.
Has(q, ip) == \E a \in Range(q) : a.type = "A" /\ a.value = ip

(* An answer that waits is not forgotten: it waits until its address is    *)
(* given a name, or the process ends.                                      *)
NoneForgotten ==
    [][\A ip \in IPs : Waiting(ip) /\ ~Waiting(ip)' =>
          (\E n \in Names : age'[ip][n] = 0) \/ spc' = "init"]_vars

LEMMA RangeFacts ==
    ASSUME NEW S, NEW q \in Seq(S)
    PROVE  /\ q # <<>> => Range(q) = {Head(q)} \cup Range(Tail(q))
           /\ \A e \in S : Range(q) \subseteq Range(Append(q, e))
           /\ Range(<<>>) = {}
<1>1. ASSUME q # <<>> PROVE Range(q) = {Head(q)} \cup Range(Tail(q))
  <2>1. ASSUME NEW i \in DOMAIN q PROVE q[i] \in {Head(q)} \cup Range(Tail(q))
    <3>1. CASE i = 1
      BY <1>1, <3>1
    <3>2. CASE i # 1
      <4>1. i - 1 \in DOMAIN Tail(q) /\ Tail(q)[i - 1] = q[i]
        BY <1>1, <2>1, <3>2
      <4> QED
        BY <4>1, Zenon DEF Range
    <3> QED
      BY <3>1, <3>2, Zenon
  <2>2. ASSUME NEW i \in DOMAIN Tail(q) PROVE Tail(q)[i] \in Range(q)
    <3>1. i + 1 \in DOMAIN q /\ q[i + 1] = Tail(q)[i]
      BY <1>1, <2>2
    <3> QED
      BY <3>1, Zenon DEF Range
  <2>3. 1 \in DOMAIN q /\ Head(q) = q[1]
    BY <1>1
  <2> QED
    BY <2>1, <2>2, <2>3, Zenon DEF Range
<1>2. ASSUME NEW e \in S, NEW i \in DOMAIN q PROVE i \in DOMAIN Append(q, e) /\ Append(q, e)[i] = q[i]
  BY <1>2
<1>3. DOMAIN <<>> = {}
  OBVIOUS
<1> QED
  BY <1>1, <1>2, <1>3, Zenon DEF Range

LEMMA ForgottenStep ==
    ASSUME QueueType, CacheType, LoopInv, [Next]_vars, NEW ip \in IPs, Waiting(ip), ~Waiting(ip)'
    PROVE  (\E n \in Names : age'[ip][n] = 0) \/ spc' = "init"
<1>1. Has(answers, ip) \/ \E q \in Range(events) : Has(q, ip)
  BY Zenon DEF Waiting, Has
<1>2. ~Has(answers', ip) /\ \A q \in Range(events') : ~Has(q, ip)
  BY Zenon DEF Waiting, Has
<1>3. CASE StartStep
  <2>1. ~ UNCHANGED <<events, answers>>
    BY <1>1, <1>2, Zenon
  <2>2. CASE spc = "select" /\ events # <<>> /\ events' = Tail(events) /\ answers' = Head(events)
    <3>1. answers = <<>> /\ ~Has(answers, ip)
      BY <2>2, RangeFacts, Zenon DEF LoopInv, QueueType, Has
    <3>2. Range(events) = {Head(events)} \cup Range(Tail(events))
      BY <2>2, RangeFacts, Zenon DEF QueueType
    <3> QED
      BY <1>1, <1>2, <2>2, <3>1, <3>2, Zenon
  <2>3. CASE spc = "answers" /\ answers # <<>> /\ answers' = Tail(answers) /\ events' = events
    <3> DEFINE a == Head(answers)
    <3>1. Range(answers) = {a} \cup Range(Tail(answers)) /\ a \in Answer
      BY <2>3, RangeFacts, QueueFacts, Zenon DEF QueueType
    <3> HIDE DEF a
    <3>2. a.type = "A" /\ a.value = ip
      BY <1>1, <1>2, <2>3, <3>1, Zenon DEF Has
    <3>3. HandleA(a)
      BY <1>3, <2>3, <3>2, Zenon
         DEF a, StartStep, StartInit, SelectCancelled, SelectTracerDone, SelectEvent, HandleAnswer,
             HandleCNAME, HandleOther
    <3>4. NameOf(a.name) \in Names
      <4>1. a.name \in Names
        BY <3>1, Zenon DEF Answer
      <4> QED
        BY <4>1, Zenon DEF NameOf, Get, Found, CacheType, CacheOf
    <3>5. age' = [age EXCEPT ![ip][NameOf(a.name)] = 0]
      BY <3>2, <3>3, Zenon DEF HandleA
    <3>6. PICK n \in Names : age' = [age EXCEPT ![ip][n] = 0]
      BY <3>4, <3>5, Zenon
    <3>7. age'[ip][n] = 0
      BY <3>6 DEF CacheType
    <3> QED
      BY <3>7, Zenon
  <2> QED
    BY <1>3, <2>1, <2>2, <2>3, StartCases, Zenon
<1>4. CASE ~StartStep
  <2>1. ASSUME UNCHANGED <<spc, answers>>, NEW p \in Packets, Send(p.answers) PROVE FALSE
    <3>1. p.answers \in Seq(Answer)
      BY PacketsAssumption, Zenon DEF Packet
    <3>2. events' = events \/ events' = Append(events, p.answers)
      BY <2>1, Zenon DEF Send
    <3>3. Range(events) \subseteq Range(events')
      <4> DEFINE S == Seq(Answer)
      <4>1. events \in Seq(S) /\ p.answers \in S
        BY <3>1, Zenon DEF QueueType
      <4> HIDE DEF S
      <4>2. Range(events) \subseteq Range(Append(events, p.answers))
        BY <4>1, RangeFacts, Zenon
      <4> QED
        BY <3>2, <4>2, Zenon
    <3> QED
      BY <1>1, <1>2, <2>1, <3>3, Zenon
  <2> QED
    BY <1>1, <1>2, <1>4, <2>1, OtherCases, Zenon
<1> QED
  BY <1>3, <1>4, Zenon

(* Every answer that Run has queued stays in the queue or in the event at   *)
(* hand until HandleA files it, over any other answers, packets, requests   *)
(* and ticks, unless the process ends.  With StartGoesOn this is the part   *)
(* of AnswersFiled that needs no fairness.                                  *)
THEOREM AnswersNotForgotten == Spec => NoneForgotten
<1>1. Init => LoopInv
  BY Zenon DEF Init, LoopInv
<1>2. TypeOK => QueueType /\ CacheType
  BY TypeParts, Zenon
<1>3. QueueType /\ CacheType /\ LoopInv /\ [Next]_vars
        => [\A ip \in IPs : Waiting(ip) /\ ~Waiting(ip)' =>
               (\E n \in Names : age'[ip][n] = 0) \/ spc' = "init"]_vars
  BY ForgottenStep, Zenon
<1> QED
  BY <1>1, <1>2, <1>3, NamesTypeCorrect, LoopStep, PTL DEF Spec, NoneForgotten

-----------------------------------------------------------------------------
(* Ages. *)

Types == QueueType /\ CacheType /\ RequestType

(* The constants and the readings are natural numbers. *)
LEMMA Bounds ==
    /\ TTL \in Nat /\ StorageTTL \in Nat /\ FetchTimeout \in Nat /\ MaxWait \in Nat
    /\ MaxAge \in Nat /\ Stale \in Nat /\ TTL <= Stale /\ Stale = MaxAge + 1
    /\ MaxAge = TTL + FetchTimeout + MaxWait + StorageTTL
BY BoundsAssumption DEF Stale, MaxAge

LEMMA Readings ==
    ASSUME CacheType
    PROVE  /\ \A ip \in IPs, n \in Names : age[ip][n] \in Nat /\ age[ip][n] <= Stale
           /\ \A ip \in DOMAIN ipToName : ip \in IPs /\ ipToName[ip].left \in Nat /\ ipToName[ip].name \in Names
           /\ \A ip \in DOMAIN storage : /\ ip \in IPs /\ storage[ip].left \in Nat
                                         /\ storage[ip].name # NoName => storage[ip].name \in Names
BY Bounds DEF CacheType, CacheOf

(* A tick makes every name one tick older, up to Stale. *)
LEMMA TickAges ==
    ASSUME CacheType, Tick, NEW ip \in IPs, NEW n \in Names
    PROVE  /\ age'[ip][n] \in Nat /\ age'[ip][n] <= age[ip][n] + 1
           /\ age'[ip][n] = age[ip][n] + 1 \/ (age[ip][n] = Stale /\ age'[ip][n] = Stale)
<1>1. age'[ip][n] = IF age[ip][n] < Stale THEN age[ip][n] + 1 ELSE Stale
  BY Zenon DEF Tick
<1>2. age[ip][n] \in Nat /\ age[ip][n] <= Stale /\ Stale \in Nat
  BY Readings, Bounds, Zenon
<1> QED
  BY <1>1, <1>2

(* Arithmetic of a tick, from above and from below. *)
LEMMA TickArithmetic ==
    ASSUME NEW a \in Nat, NEW b \in Nat, NEW l \in Nat, NEW t \in Nat, NEW m \in Nat,
           b = a + 1 \/ (a = m /\ b = m), t <= m
    PROVE  /\ l > 0 /\ a + l <= t => b + (l - 1) <= t
           /\ a + l >= t => b + (IF l > 0 THEN l - 1 ELSE 0) >= t
           /\ a <= t => b <= t + 1
           /\ a >= t => b >= t
OBVIOUS

(* An answer makes one name new, and no name older. *)
LEMMA AnswerAges ==
    ASSUME CacheType, NEW ip \in IPs, NEW n \in Names, age' = [age EXCEPT ![ip][n] = 0]
    PROVE  /\ age'[ip][n] = 0
           /\ \A x \in IPs, y \in Names : age'[x][y] \in Nat /\ age'[x][y] <= age[x][y]
           /\ \A x \in IPs, y \in Names : x # ip => age'[x][y] = age[x][y]
<1>1. age \in [IPs -> [Names -> 0 .. Stale]]
  BY Zenon DEF CacheType
<1>2. \A x \in IPs, y \in Names : age'[x][y] = IF x = ip /\ y = n THEN 0 ELSE age[x][y]
  BY <1>1, Zenon
<1>3. \A x \in IPs, y \in Names : age[x][y] \in Nat
  BY Readings, Zenon
<1> QED
  BY <1>2, <1>3

(* The collector's cache. *)
LEMMA CacheAgesStep ==
    ASSUME Types, CacheAges, [Next]_vars
    PROVE  CacheAges'
<1> USE DEF Types
<1>1. CASE HandleAnswer
  <2>1. CASE \E ip \in IPs, n \in Names :
                 /\ ipToName' = Put(ipToName, ip, n, TTL)
                 /\ age' = [age EXCEPT ![ip][n] = 0]
                 /\ cnameToName' = cnameToName
    <3> PICK ip \in IPs, n \in Names : ipToName' = Put(ipToName, ip, n, TTL)
                                       /\ age' = [age EXCEPT ![ip][n] = 0]
      BY <2>1, Zenon
    <3>1. /\ DOMAIN ipToName' = DOMAIN ipToName \cup {ip}
          /\ ipToName'[ip] = [name |-> n, left |-> TTL]
          /\ \A x \in DOMAIN ipToName : x # ip => ipToName'[x] = ipToName[x]
      <4>1. PICK m : m = ipToName
        OBVIOUS
      <4>2. CacheOf(m, IPs, Names, TTL) /\ TTL \in Nat
        BY <4>1, Bounds, Zenon DEF CacheType
      <4>3. PICK c : c = Put(m, ip, n, TTL)
        OBVIOUS
      <4>4. /\ DOMAIN c = DOMAIN m \cup {ip}
            /\ c[ip] = [name |-> n, left |-> TTL]
            /\ \A x \in DOMAIN m : x # ip => c[x] = m[x]
        BY <4>2, <4>3, PutFacts
      <4> QED
        BY <4>1, <4>3, <4>4, Zenon
    <3>2. /\ age'[ip][n] = 0
          /\ \A y \in Names : age'[ip][y] \in Nat
          /\ \A x \in IPs, y \in Names : x # ip => age'[x][y] = age[x][y]
      BY AnswerAges, Zenon
    <3>3. ipToName'[ip].name = n /\ ipToName'[ip].left = TTL
      BY <3>1
    <3>4. /\ age'[ip][n] + TTL <= TTL
          /\ \A y \in Names : age'[ip][y] + TTL >= TTL
      BY <3>2, Bounds
    <3>5. ASSUME NEW x \in DOMAIN ipToName, x # ip
          PROVE  /\ ipToName'[x].left > 0 => age'[x][ipToName'[x].name] + ipToName'[x].left <= TTL
                 /\ \A y \in Names : age'[x][y] + ipToName'[x].left >= TTL
      <4>1. x \in IPs /\ ipToName[x].name \in Names /\ ipToName'[x] = ipToName[x]
        BY <3>1, <3>5, Readings, Zenon
      <4> QED
        BY <4>1, <3>2, <3>5 DEF CacheAges
    <3> QED
      BY <3>1, <3>3, <3>4, <3>5, Zenon DEF CacheAges
  <2>2. CASE ipToName' = ipToName /\ age' = age
    BY <2>2, Zenon DEF CacheAges
  <2> QED
    BY <2>1, <2>2, <1>1, AnswerCases, Zenon
<1>2. CASE Tick
  <2> SUFFICES ASSUME NEW ip \in DOMAIN ipToName
               PROVE  /\ ipToName'[ip].left > 0 => age'[ip][ipToName'[ip].name] + ipToName'[ip].left <= TTL
                      /\ \A n \in Names : age'[ip][n] + ipToName'[ip].left >= TTL
    <3>1. DOMAIN ipToName' = DOMAIN ipToName
      BY <1>2, Bounds, OlderFacts, Zenon DEF Tick, CacheType
    <3> QED
      BY <3>1, Zenon DEF CacheAges
  <2>1. /\ ipToName'[ip].name = ipToName[ip].name
        /\ ipToName'[ip].left = IF ipToName[ip].left > 0 THEN ipToName[ip].left - 1 ELSE 0
    BY <1>2, Bounds, OlderFacts, Zenon DEF Tick, CacheType
  <2>2. ip \in IPs /\ ipToName[ip].left \in Nat /\ ipToName[ip].name \in Names
    BY Readings, Zenon
  <2>3. /\ ipToName[ip].left > 0 => age[ip][ipToName[ip].name] + ipToName[ip].left <= TTL
        /\ \A n \in Names : age[ip][n] + ipToName[ip].left >= TTL
    BY Zenon DEF CacheAges
  <2> DEFINE l == ipToName[ip].left
  <2>4. ASSUME NEW n \in Names
        PROVE  /\ l > 0 /\ age[ip][n] + l <= TTL => age'[ip][n] + (l - 1) <= TTL
               /\ age[ip][n] + l >= TTL => age'[ip][n] + (IF l > 0 THEN l - 1 ELSE 0) >= TTL
    <3>1. /\ age[ip][n] \in Nat /\ age'[ip][n] \in Nat
          /\ age'[ip][n] = age[ip][n] + 1 \/ (age[ip][n] = Stale /\ age'[ip][n] = Stale)
      BY <1>2, <2>2, TickAges, Readings, Zenon
    <3> HIDE DEF l
    <3>2. l \in Nat
      BY <2>2, Zenon DEF l
    <3>3. PICK a, b : a = age[ip][n] /\ b = age'[ip][n]
      OBVIOUS
    <3>4. a \in Nat /\ b \in Nat /\ (b = a + 1 \/ (a = Stale /\ b = Stale))
      BY <3>1, <3>3, Zenon
    <3> QED
      BY <3>2, <3>3, <3>4, Bounds, TickArithmetic
  <2>5. \A n \in Names : age'[ip][n] + ipToName'[ip].left >= TTL
    BY <2>1, <2>3, <2>4, Zenon
  <2>6. ASSUME ipToName'[ip].left > 0
        PROVE  age'[ip][ipToName'[ip].name] + ipToName'[ip].left <= TTL
    <3>1. l > 0 /\ ipToName'[ip].left = l - 1
      BY <2>1, <2>2, <2>6
    <3> QED
      BY <3>1, <2>1, <2>2, <2>3, <2>4, Zenon
  <2> QED
    BY <2>5, <2>6, Zenon
<1>3. CASE Janitor
  <2>1. ASSUME NEW D \in SUBSET DOMAIN ipToName, ipToName' = Restrict(ipToName, D), age' = age
        PROVE  CacheAges'
    BY <2>1, RestrictFacts DEF CacheAges, CacheType
  <2>2. ASSUME ipToName' = ipToName, age' = age PROVE CacheAges'
    BY <2>2, Zenon DEF CacheAges
  <2> QED
    BY <2>1, <2>2, <1>3, JanitorCases, Zenon
<1>4. CASE Restart
  BY <1>4, EmptyFacts, Zenon DEF Restart, CacheAges
<1>5. CASE Fill \/ UNCHANGED <<ipToName, cnameToName, storage, age>>
  BY <1>5, Zenon DEF Fill, start, CacheAges
<1> QED
  BY <1>1, <1>2, <1>3, <1>4, <1>5, CacheCases, Zenon

(* Steps that leave the cache and the ages, as a request sees them. *)
LEMMA RequestCases ==
    ASSUME [Next]_vars
    PROVE  \/ FetchBegins \/ FetchFails \/ RecordsKeys \/ (\E ip \in IPs : RecordsGet(ip)) \/ FetchEnds
           \/ HandleAnswer \/ Fill \/ Tick \/ Janitor \/ Restart
           \/ UNCHANGED <<ipToName, storage, age, request>>
BY Zenon
   DEF Next, Run, vars, start, TracerStep, TracerLoads, TracerChecks, TracerReturns, TracerReadFails, TracerReads,
       StartStep, StartInit, SelectCancelled, SelectTracerDone, SelectEvent, Cancel, RecordsStep

(* The keys Records has still to look up. *)
LEMMA KeysAgesStep ==
    ASSUME Types, CacheAges, KeysAges, [Next]_vars
    PROVE  KeysAges'
<1> USE DEF Types
<1>1. CASE HandleAnswer
  <2>0. fetch' = fetch /\ keys' = keys
    BY <1>1, Zenon DEF HandleAnswer, request
  <2>1. CASE \E ip \in IPs, n \in Names :
                 /\ ipToName' = Put(ipToName, ip, n, TTL)
                 /\ age' = [age EXCEPT ![ip][n] = 0]
                 /\ cnameToName' = cnameToName
    <3> PICK ip \in IPs, n \in Names : ipToName' = Put(ipToName, ip, n, TTL)
                                       /\ age' = [age EXCEPT ![ip][n] = 0]
      BY <2>1, Zenon
    <3>1. DOMAIN ipToName' = DOMAIN ipToName \cup {ip}
      BY Zenon DEF Put
    <3>2. \A x \in IPs, y \in Names : x # ip => age'[x][y] = age[x][y]
      BY AnswerAges, Zenon
    <3>3. keys \subseteq IPs
      BY Zenon DEF RequestType
    <3> QED
      BY <2>0, <3>1, <3>2, <3>3 DEF KeysAges
  <2>2. CASE ipToName' = ipToName /\ age' = age
    BY <2>0, <2>2, Zenon DEF KeysAges
  <2> QED
    BY <2>1, <2>2, <1>1, AnswerCases, Zenon
<1>2. CASE Tick
  <2>1. DOMAIN ipToName' = DOMAIN ipToName /\ fetch' = fetch /\ keys' = keys
    BY <1>2, Bounds, OlderFacts, Zenon DEF Tick, CacheType
  <2>2. ASSUME NEW ip \in keys \ DOMAIN ipToName, NEW n \in Names
        PROVE  age'[ip][n] >= TTL
    <3>1. ip \in IPs /\ age[ip][n] >= TTL
      BY Zenon DEF KeysAges, RequestType
    <3>2. /\ age[ip][n] \in Nat /\ age'[ip][n] \in Nat
          /\ age'[ip][n] = age[ip][n] + 1 \/ (age[ip][n] = Stale /\ age'[ip][n] = Stale)
      BY <1>2, <3>1, TickAges, Readings, Zenon
    <3> QED
      BY <3>1, <3>2, Bounds
  <2> QED
    BY <2>1, <2>2, Zenon DEF KeysAges
<1>3. CASE Janitor
  <2>1. fetch' = fetch /\ keys' = keys /\ age' = age
    BY <1>3, JanitorCases, Zenon DEF request
  <2>2. ASSUME NEW D \in SUBSET DOMAIN ipToName, ipToName' = Restrict(ipToName, D),
               \A ip \in DOMAIN ipToName \ D : ipToName[ip].left = 0
        PROVE  KeysAges'
    <3>1. DOMAIN ipToName' = D
      BY <2>2, RestrictFacts, Zenon DEF CacheType
    <3>2. ASSUME NEW ip \in DOMAIN ipToName \ D, NEW n \in Names
          PROVE  age[ip][n] >= TTL
      <4>1. ipToName[ip].left = 0 /\ age[ip][n] + ipToName[ip].left >= TTL /\ age[ip][n] \in Nat
        BY <2>2, Readings, Zenon DEF CacheAges
      <4> QED
        BY <4>1
    <3> QED
      BY <2>1, <3>1, <3>2, Zenon DEF KeysAges
  <2>3. ASSUME ipToName' = ipToName PROVE KeysAges'
    BY <2>1, <2>3, Zenon DEF KeysAges
  <2> QED
    BY <2>2, <2>3, <1>3, JanitorCases, Zenon
<1>4. CASE Restart
  <2>1. keys' = {}
    BY <1>4, Zenon DEF Restart, KeysAges, request
  <2> QED
    BY <2>1, Zenon DEF KeysAges
<1>5. CASE FetchBegins \/ FetchFails \/ RecordsKeys \/ (\E ip \in IPs : RecordsGet(ip)) \/ FetchEnds \/ Fill
  BY <1>5, Zenon DEF FetchBegins, FetchFails, RecordsKeys, RecordsGet, FetchEnds, Fill, start, KeysAges
<1>6. CASE UNCHANGED <<ipToName, storage, age, request>>
  BY <1>6, Zenon DEF KeysAges, request
<1> QED
  BY <1>1, <1>2, <1>3, <1>4, <1>5, <1>6, RequestCases, Zenon

(* How long ago the request began, as a natural number. *)
LEMMA ElapsedFacts ==
    ASSUME RequestType, ItemsAges
    PROVE  fetch # "idle" => Elapsed \in Nat /\ (fetch = "got" => Elapsed <= FetchTimeout + MaxWait)
BY Bounds DEF RequestType, ItemsAges, Elapsed

(* The batch of a request. *)
LEMMA ItemsAgesStep ==
    ASSUME Types, CacheAges, ItemsAges, [Next]_vars
    PROVE  ItemsAges'
<1> USE DEF Types
<1> DEFINE Young == \A ip \in DOMAIN items : items[ip] # NoName => age[ip][items[ip]] <= TTL + Elapsed
           Clock == /\ fetch \in {"idle", "waiting"} => DOMAIN items = {}
                    /\ fetch \in {"waiting", "reading"} => timer <= FetchTimeout
                    /\ fetch = "got" => timer <= MaxWait
<1>0. DOMAIN [ip \in {} |-> NoName] = {}
  OBVIOUS
<1>c. Clock /\ Young
  BY Zenon DEF ItemsAges
<1>i. \A ip \in DOMAIN items : ip \in IPs /\ (items[ip] # NoName => items[ip] \in Names)
  BY Zenon DEF RequestType
<1>1. CASE HandleAnswer
  <2>0. fetch' = fetch /\ timer' = timer /\ items' = items /\ Elapsed' = Elapsed
    BY <1>1, Zenon DEF HandleAnswer, request, Elapsed
  <2>1. \A x \in IPs, y \in Names : age'[x][y] \in Nat /\ age'[x][y] <= age[x][y]
    <3>1. ASSUME NEW ip \in IPs, NEW n \in Names, age' = [age EXCEPT ![ip][n] = 0]
          PROVE  \A x \in IPs, y \in Names : age'[x][y] \in Nat /\ age'[x][y] <= age[x][y]
      BY <3>1, AnswerAges, Zenon
    <3>2. ASSUME age' = age
          PROVE  \A x \in IPs, y \in Names : age'[x][y] \in Nat /\ age'[x][y] <= age[x][y]
      BY <3>2, Readings
    <3> QED
      BY <3>1, <3>2, <1>1, AnswerCases, Zenon
  <2>2. ASSUME NEW ip \in DOMAIN items, items[ip] # NoName
        PROVE  age'[ip][items[ip]] <= TTL + Elapsed
    <3> DEFINE n == items[ip]
    <3>1. /\ age'[ip][n] \in Nat /\ age[ip][n] \in Nat /\ age'[ip][n] <= age[ip][n]
          /\ age[ip][n] <= TTL + Elapsed
      BY <2>1, <2>2, <1>c, <1>i, Readings, Zenon
    <3>2. fetch # "idle" /\ Elapsed \in Nat
      BY <1>c, ElapsedFacts, <2>2, Zenon DEF RequestType
    <3> HIDE DEF n
    <3> QED
      BY <3>1, <3>2, Bounds DEF n
  <2> QED
    BY <2>0, <2>2, <1>c, Zenon DEF ItemsAges
<1>2. CASE Tick
  <2>0. fetch' = fetch /\ items' = items
    BY <1>2, Zenon DEF Tick
  <2>1. Clock'
    BY <1>2, <2>0, <1>c, Bounds DEF Tick, RequestType
  <2>2. ASSUME NEW ip \in DOMAIN items, items[ip] # NoName
        PROVE  age'[ip][items[ip]] <= TTL + Elapsed'
    <3> DEFINE n == items[ip]
    <3>1. fetch # "idle" /\ Elapsed \in Nat
      BY <1>c, ElapsedFacts, <2>2, Zenon DEF RequestType
    <3>2. Elapsed' = Elapsed + 1
      BY <1>2, <2>0, <3>1, Bounds DEF Tick, Elapsed, RequestType
    <3>3. /\ age'[ip][n] \in Nat /\ age[ip][n] \in Nat /\ age'[ip][n] <= age[ip][n] + 1
          /\ age[ip][n] <= TTL + Elapsed
      BY <2>2, <1>2, <1>c, <1>i, Readings, TickAges, Zenon
    <3> HIDE DEF n
    <3> QED
      BY <3>1, <3>2, <3>3, Bounds DEF n
  <2> QED
    BY <2>0, <2>1, <2>2, Zenon DEF ItemsAges
<1>3. CASE Janitor
  BY <1>3, JanitorCases, Zenon DEF ItemsAges, Elapsed, request
<1>4. CASE Restart
  BY <1>0, <1>4, Bounds, Zenon DEF Restart, ItemsAges, Elapsed, request
<1>5. CASE FetchBegins \/ FetchFails \/ Fill
  BY <1>0, <1>5, Bounds DEF FetchBegins, FetchFails, Fill, ItemsAges
<1>6. CASE RecordsKeys
  BY <1>6, Zenon DEF RecordsKeys, start, ItemsAges
<1>7. ASSUME NEW ip \in IPs, RecordsGet(ip) PROVE ItemsAges'
  <2>0. fetch = "reading" /\ UNCHANGED <<fetch, timer, age>> /\ Elapsed' = Elapsed
    BY <1>7, Zenon DEF RecordsGet, start, Elapsed
  <2>1. /\ DOMAIN items' = DOMAIN items \cup {ip}
        /\ items'[ip] = Get(ipToName, ip)
        /\ \A x \in DOMAIN items : x # ip => items'[x] = items[x]
    BY <1>7, Zenon DEF RecordsGet
  <2>2. ASSUME items'[ip] # NoName PROVE age[ip][items'[ip]] <= TTL + Elapsed
    <3>1. /\ ip \in DOMAIN ipToName /\ ipToName[ip].left > 0 /\ items'[ip] = ipToName[ip].name
      BY <2>1, <2>2, Zenon DEF Get, Found
    <3> DEFINE a == age[ip][ipToName[ip].name]
               l == ipToName[ip].left
    <3>2. a \in Nat /\ l \in Nat /\ a + l <= TTL
      BY <3>1, Readings, Zenon DEF CacheAges
    <3>3. Elapsed \in Nat
      BY <2>0, ElapsedFacts, Zenon
    <3> HIDE DEF a, l
    <3>4. a <= TTL + Elapsed
      BY <3>2, <3>3, Bounds
    <3> QED
      BY <3>1, <3>4, Zenon DEF a
  <2> QED
    BY <2>0, <2>1, <2>2, <1>c, Zenon DEF ItemsAges
<1>8. CASE FetchEnds
  <2>0. UNCHANGED <<items, age>> /\ fetch = "reading" /\ fetch' = "got" /\ timer' = 0
    BY <1>8, Zenon DEF FetchEnds, start
  <2>2. ASSUME NEW ip \in DOMAIN items, items[ip] # NoName
        PROVE  age[ip][items[ip]] <= TTL + Elapsed'
    <3> DEFINE a == age[ip][items[ip]]
    <3>1. a \in Nat /\ a <= TTL + Elapsed
      BY <2>2, <1>c, <1>i, Readings, Zenon
    <3> HIDE DEF a
    <3>2. a <= TTL + Elapsed'
      BY <3>1, <2>0, <1>c, Bounds DEF Elapsed, RequestType
    <3> QED
      BY <3>2, Zenon DEF a
  <2> QED
    BY <2>0, <2>2, Bounds DEF ItemsAges
<1>9. CASE UNCHANGED <<ipToName, storage, age, request>>
  BY <1>9, Zenon DEF ItemsAges, Elapsed, request
<1> QED
  BY <1>1, <1>2, <1>3, <1>4, <1>5, <1>6, <1>7, <1>8, <1>9, RequestCases, Zenon

(* The exporter's storage. *)
LEMMA StorageAgesStep ==
    ASSUME Types, ItemsAges, StorageAges, [Next]_vars
    PROVE  StorageAges'
<1> USE DEF Types
<1>1. CASE HandleAnswer
  <2>1. \A x \in IPs, y \in Names : age'[x][y] \in Nat /\ age'[x][y] <= age[x][y]
    <3>1. ASSUME NEW ip \in IPs, NEW n \in Names, age' = [age EXCEPT ![ip][n] = 0]
          PROVE  \A x \in IPs, y \in Names : age'[x][y] \in Nat /\ age'[x][y] <= age[x][y]
      BY <3>1, AnswerAges, Zenon
    <3>2. ASSUME age' = age
          PROVE  \A x \in IPs, y \in Names : age'[x][y] \in Nat /\ age'[x][y] <= age[x][y]
      BY <3>2, Readings
    <3> QED
      BY <3>1, <3>2, <1>1, AnswerCases, Zenon
  <2>2. storage' = storage
    BY <1>1, Zenon DEF HandleAnswer
  <2>3. ASSUME NEW ip \in DOMAIN storage, storage[ip].left > 0, storage[ip].name # NoName
        PROVE  age'[ip][storage[ip].name] + storage[ip].left <= MaxAge
    <3> DEFINE a == age[ip][storage[ip].name]
               b == age'[ip][storage[ip].name]
               l == storage[ip].left
    <3>1. a \in Nat /\ b \in Nat /\ l \in Nat /\ b <= a /\ a + l <= MaxAge
      BY <2>1, <2>3, Readings, Zenon DEF StorageAges
    <3> HIDE DEF a, b, l
    <3>2. b + l <= MaxAge
      BY <3>1, Bounds
    <3> QED
      BY <3>2, Zenon DEF b, l
  <2> QED
    BY <2>2, <2>3, Zenon DEF StorageAges
<1>2. CASE Tick
  <2>1. DOMAIN storage' = DOMAIN storage
    BY <1>2, Bounds, OlderFacts, Zenon DEF Tick, CacheType
  <2>2. ASSUME NEW ip \in DOMAIN storage, storage'[ip].left > 0, storage'[ip].name # NoName
        PROVE  age'[ip][storage'[ip].name] + storage'[ip].left <= MaxAge
    <3>0. /\ storage'[ip].name = storage[ip].name
          /\ storage'[ip].left = IF storage[ip].left > 0 THEN storage[ip].left - 1 ELSE 0
      BY <1>2, Bounds, OlderFacts, Zenon DEF Tick, CacheType
    <3>n. /\ ip \in IPs /\ storage[ip].left \in Nat
          /\ storage[ip].name # NoName => storage[ip].name \in Names
      BY Readings, Zenon
    <3>t. storage[ip].name \in Names /\ storage[ip].left > 0 /\ storage'[ip].left = storage[ip].left - 1
      BY <2>2, <3>0, <3>n
    <3> DEFINE n == storage[ip].name
               a == age[ip][n]
               b == age'[ip][n]
               l == storage[ip].left
    <3>1. a \in Nat /\ a + l <= MaxAge
      BY <2>2, <3>0, <3>n, <3>t, Readings, Zenon DEF StorageAges
    <3>2. b \in Nat /\ b <= a + 1
      BY <1>2, <3>n, <3>t, TickAges, Zenon
    <3> HIDE DEF a, b, l
    <3>3. l \in Nat
      BY <3>n, Zenon DEF l
    <3>4. b + (l - 1) <= MaxAge
      BY <3>1, <3>2, <3>3, Bounds
    <3> QED
      BY <3>0, <3>t, <3>4, Zenon DEF b, l
  <2> QED
    BY <2>1, <2>2, Zenon DEF StorageAges
<1>3. CASE Janitor
  <2>1. ASSUME NEW D \in SUBSET DOMAIN storage, storage' = Restrict(storage, D), age' = age
        PROVE  StorageAges'
    BY <2>1, RestrictFacts DEF StorageAges, CacheType
  <2>2. ASSUME storage' = storage, age' = age PROVE StorageAges'
    BY <2>2, Zenon DEF StorageAges
  <2> QED
    BY <2>1, <2>2, <1>3, JanitorCases, Zenon
<1>4. CASE Fill
  <2>0. /\ age' = age
        /\ \A ip \in DOMAIN storage' :
              /\ ip \in DOMAIN items \/ ip \in DOMAIN storage
              /\ storage'[ip] = IF ip \in DOMAIN items
                                THEN [name |-> items[ip], left |-> StorageTTL] ELSE storage[ip]
    BY <1>4, FillFacts, Zenon
  <2>1. ASSUME NEW ip \in DOMAIN items, items[ip] # NoName
        PROVE  age[ip][items[ip]] + StorageTTL <= MaxAge
    <3> DEFINE a == age[ip][items[ip]]
    <3>1. a \in Nat /\ a <= TTL + Elapsed
      BY <2>1, Readings, Zenon DEF ItemsAges, RequestType
    <3>2. Elapsed \in Nat /\ Elapsed <= FetchTimeout + MaxWait
      BY <1>4, ElapsedFacts, Zenon DEF Fill
    <3> HIDE DEF a
    <3>3. a + StorageTTL <= MaxAge
      BY <3>1, <3>2, Bounds
    <3> QED
      BY <3>3, Zenon DEF a
  <2>2. ASSUME NEW ip \in DOMAIN storage', storage'[ip].left > 0, storage'[ip].name # NoName
        PROVE  age[ip][storage'[ip].name] + storage'[ip].left <= MaxAge
    <3>1. CASE ip \in DOMAIN items
      BY <3>1, <2>0, <2>1, <2>2
    <3>2. CASE ip \notin DOMAIN items
      BY <3>2, <2>0, <2>2, Zenon DEF StorageAges
    <3> QED
      BY <3>1, <3>2, Zenon
  <2> QED
    BY <2>0, <2>2, Zenon DEF StorageAges
<1>5. CASE Restart \/ UNCHANGED <<ipToName, cnameToName, storage, age>>
  BY <1>5, Zenon DEF Restart, StorageAges
<1> QED
  BY <1>1, <1>2, <1>3, <1>4, <1>5, CacheCases, Zenon

(* Only Records adds to a batch. *)
LEMMA AddsOnlyInRecords ==
    ASSUME [Next]_vars, NEW ip \in DOMAIN items' \ DOMAIN items
    PROVE  RecordsGet(ip)
<1>1. DOMAIN [x \in {} |-> NoName] = {}
  OBVIOUS
<1>2. \/ \E x \in IPs : RecordsGet(x)
      \/ items' = items \/ items' = [x \in {} |-> NoName]
  BY Zenon
     DEF Next, Run, vars, request, TracerStep, TracerLoads, TracerChecks, TracerReturns, TracerReadFails,
         TracerReads, StartStep, StartInit, SelectCancelled, SelectTracerDone, SelectEvent, HandleAnswer, Cancel,
         FetchBegins, FetchFails, RecordsStep, RecordsKeys, FetchEnds, Fill, Tick, Janitor, Restart
<1>3. ASSUME NEW x \in IPs, RecordsGet(x) PROVE x = ip
  BY <1>3, Zenon DEF RecordsGet
<1> QED
  BY <1>1, <1>2, <1>3, Zenon

-----------------------------------------------------------------------------
(* The theorems. *)

(* The ages of names in the caches, in a request and in the storage are    *)
(* bounded by what is left of the lifetimes, in every reachable state.     *)
THEOREM AgesInvariance == Spec => [](Types /\ AgesInv)
<1>1. TypeOK => Types
  BY TypeParts, Zenon DEF Types
<1>2. Init => AgesInv
  BY EmptyFacts, Bounds, Zenon DEF Init, AgesInv, CacheAges, KeysAges, ItemsAges, StorageAges
<1>3. Types /\ AgesInv /\ [Next]_vars => AgesInv'
  BY CacheAgesStep, KeysAgesStep, ItemsAgesStep, StorageAgesStep, Zenon DEF AgesInv
<1> QED
  BY <1>1, <1>2, <1>3, NamesTypeCorrect, PTL DEF Spec

(* The exporter gives a metric no name older than the lifetimes of the two *)
(* caches and of a request together.                                       *)
THEOREM NamesAreFresh == Spec => []FreshNames
<1>1. Types /\ AgesInv => FreshNames
  <2> SUFFICES ASSUME Types, AgesInv, NEW ip \in IPs, Lookup(ip) # NoName
               PROVE  age[ip][Lookup(ip)] <= MaxAge
    BY Zenon DEF FreshNames
  <2>1. ip \in DOMAIN storage /\ storage[ip].left > 0 /\ Lookup(ip) = storage[ip].name
    BY Zenon DEF Lookup, Get, Found
  <2> DEFINE a == age[ip][storage[ip].name]
             l == storage[ip].left
  <2>2. a \in Nat /\ l \in Nat /\ a + l <= MaxAge
    BY <2>1, Readings, Zenon DEF Types, AgesInv, StorageAges
  <2> HIDE DEF a, l
  <2>3. a <= MaxAge
    BY <2>2, Bounds
  <2> QED
    BY <2>1, <2>3, Zenon DEF a
<1> QED
  BY <1>1, AgesInvariance, PTL

(* Records sends an empty domain only for an address that no answer has    *)
(* named for the TTL.                                                      *)
THEOREM EmptyDomainsAreStale == Spec => EmptyOnlyWhenStale
<1>1. Types /\ AgesInv /\ [Next]_vars =>
        [\A ip \in DOMAIN items' \ DOMAIN items :
            items'[ip] = NoName => \A n \in Names : age[ip][n] >= TTL]_vars
  <2> SUFFICES ASSUME Types, AgesInv, [Next]_vars,
                      NEW ip \in DOMAIN items' \ DOMAIN items, items'[ip] = NoName, NEW n \in Names
               PROVE  age[ip][n] >= TTL
    OBVIOUS
  <2>1. RecordsGet(ip)
    BY AddsOnlyInRecords, Zenon
  <2>2. ip \in keys /\ Get(ipToName, ip) = NoName /\ ip \in IPs
    BY <2>1, Zenon DEF RecordsGet, Types, RequestType
  <2>3. CASE ip \notin DOMAIN ipToName
    BY <2>2, <2>3, Zenon DEF AgesInv, KeysAges
  <2>4. CASE ip \in DOMAIN ipToName
    <3>1. ipToName[ip].name \in Names /\ ipToName[ip].left \in Nat /\ age[ip][n] \in Nat
      BY <2>2, <2>4, Readings, Zenon DEF Types
    <3>2. ~(ipToName[ip].left > 0)
      BY <2>2, <2>4, <3>1, NamesAssumption, Zenon DEF Get, Found
    <3>3. age[ip][n] + ipToName[ip].left >= TTL
      BY <2>4, Zenon DEF AgesInv, CacheAges
    <3> QED
      BY <3>1, <3>2, <3>3, Bounds
  <2> QED
    BY <2>3, <2>4, Zenon
<1> QED
  BY <1>1, AgesInvariance, PTL DEF Spec, EmptyOnlyWhenStale

=============================================================================
