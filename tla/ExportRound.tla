----------------------------- MODULE ExportRound -----------------------------
(***************************************************************************)
(* exporter/exporter.go: the Start loop and the rounds of export.  In a    *)
(* round a producer goroutine starts at most FetchLimit fetches at a time, *)
(* each of which sends its batch to the channel pulledBatch; export itself *)
(* consumes the channel until it is closed, and then pushes what it built  *)
(* to all sinks.                                                           *)
(*                                                                         *)
(* A batch is a token <<collector, serial>>: its items are attributed to   *)
(* pods together.  In delta mode a collector that answered has reset its   *)
(* counters, so a token exists once and its bytes are nowhere else.  The   *)
(* process may end at any point and another one takes its place.           *)
(***************************************************************************)
EXTENDS Integers, Sequences, FiniteSets

CONSTANTS
    Collectors,     \* collector pods
    WithoutURL,     \* those without an "http-server" port
    Sinks,
    FetchLimit,     \* cfg.CollectorsConcurrentFetchCount: fetches and channel capacity
    PushLimit,      \* sinkConcurrentPush
    MaxBatches,     \* bound on the batches of one collector
    MaxTotal        \* bound on the batches of all collectors

ASSUME ExportAssumption ==
    /\ IsFiniteSet(Collectors) /\ IsFiniteSet(Sinks)
    /\ WithoutURL \subseteq Collectors
    /\ FetchLimit \in Nat \ {0} /\ PushLimit \in Nat \ {0} /\ MaxBatches \in Nat /\ MaxTotal \in Nat

VARIABLES
    epc,            \* where the Start goroutine is
    cancelled,      \* ctx is done
    todo,           \* pods the producer's loop has not reached
    next,           \* the pod it passes to fetchGroup.Go
    producer,       \* where the producer goroutine is
    fetch,          \* the fetch goroutine of each pod
    pulledBatch,    \* the channel
    closed,         \* it was closed
    podsMetrics,    \* what export has built
    sinksTodo,      \* sinks its loop has not reached
    push,           \* the push goroutine of each sink
    serial,         \* batches each collector has given away
    dropped,        \* tokens given up with a log line before the sinks
    cut,            \* tokens that were on their way when a process ended
    delivered,      \* per sink: tokens it took in
    refused         \* per sink: tokens of pushes that returned an error

fetching == <<todo, next, producer, fetch, closed>>
pushing  == <<sinksTodo, push, delivered, refused>>
lost     == <<dropped, cut>>
vars     == <<epc, cancelled, fetching, pulledBatch, podsMetrics, pushing, serial, lost>>

Init ==
    /\ epc = "idle" /\ cancelled = FALSE
    /\ todo = {} /\ next = {} /\ producer = "none"
    /\ fetch = [c \in Collectors |-> "none"]
    /\ pulledBatch = <<>> /\ closed = FALSE /\ podsMetrics = {}
    /\ sinksTodo = {} /\ push = [s \in Sinks |-> "none"]
    /\ serial = [c \in Collectors |-> 0] /\ dropped = {} /\ cut = {}
    /\ delivered = [s \in Sinks |-> {}] /\ refused = [s \in Sinks |-> {}]

Cancel ==
    /\ ~cancelled
    /\ cancelled' = TRUE
    /\ UNCHANGED <<epc, fetching, pulledBatch, podsMetrics, pushing, serial, lost>>

-----------------------------------------------------------------------------
(* Start and the head of export. *)

Stop ==
    /\ epc = "idle" /\ cancelled
    /\ epc' = "stopped"
    /\ UNCHANGED <<cancelled, fetching, pulledBatch, podsMetrics, pushing, serial, lost>>

\* The tick: collector pods S are listed and the producer started. (A failed
\* listing, as under a done ctx, and an empty one change nothing.)
Begin(S) ==
    /\ epc = "idle" /\ ~cancelled
    /\ S # {}
    /\ epc' = "consume"
    /\ todo' = S /\ next' = {} /\ producer' = "loop"
    /\ fetch' = [c \in Collectors |-> "none"]
    /\ pulledBatch' = <<>> /\ closed' = FALSE
    /\ podsMetrics' = {}
    /\ UNCHANGED <<cancelled, pushing, serial, lost>>

-----------------------------------------------------------------------------
(* The producer goroutine. *)

Active == {c \in Collectors : fetch[c] # "none"}

AtLoopHead == producer = "loop" /\ next = {}

\* ctx is done: return, pulledBatch stays open.
ProducerQuit ==
    /\ AtLoopHead /\ todo # {} /\ cancelled
    /\ producer' = "quit"
    /\ UNCHANGED <<epc, cancelled, todo, next, fetch, closed, pulledBatch, podsMetrics,
                   pushing, serial, lost>>

\* Mutant: the pod stays in the list, and is fetched again after its fetch.
PickAgain(c) ==
    /\ AtLoopHead /\ c \in todo \ Active /\ ~cancelled
    /\ todo' \in {todo, todo \ {c}}
    /\ next' = {c} \ WithoutURL
    /\ UNCHANGED <<epc, cancelled, producer, fetch, closed, pulledBatch, podsMetrics,
                   pushing, serial, lost>>

\* The next pod; one without a URL is skipped.
ProducerPick(c) ==
    /\ AtLoopHead /\ c \in todo /\ ~cancelled
    /\ todo' = todo \ {c}
    /\ next' = {c} \ WithoutURL
    /\ UNCHANGED <<epc, cancelled, producer, fetch, closed, pulledBatch, podsMetrics,
                   pushing, serial, lost>>

\* fetchGroup.Go blocks while FetchLimit goroutines run.
ProducerGo(c) ==
    /\ producer = "loop" /\ c \in next
    /\ Cardinality(Active) < FetchLimit
    /\ next' = {}
    /\ fetch' = [fetch EXCEPT ![c] = "fetching"]
    /\ UNCHANGED <<epc, cancelled, todo, producer, closed, pulledBatch, podsMetrics,
                   pushing, serial, lost>>

\* Mutants: the channel is closed without Wait; it is never closed.
CloseEarly ==
    /\ AtLoopHead /\ todo = {}
    /\ closed' = TRUE
    /\ producer' = "done"
    /\ UNCHANGED <<epc, cancelled, todo, next, fetch, pulledBatch, podsMetrics,
                   pushing, serial, lost>>

NeverClose ==
    /\ AtLoopHead /\ todo = {} /\ Active = {}
    /\ producer' = "done"
    /\ UNCHANGED <<epc, cancelled, todo, next, fetch, closed, pulledBatch, podsMetrics,
                   pushing, serial, lost>>

\* fetchGroup.Wait, then close(pulledBatch).
ProducerClose ==
    /\ AtLoopHead /\ todo = {} /\ Active = {}
    /\ closed' = TRUE
    /\ producer' = "done"
    /\ UNCHANGED <<epc, cancelled, todo, next, fetch, pulledBatch, podsMetrics,
                   pushing, serial, lost>>

-----------------------------------------------------------------------------
(* A fetch goroutine. *)

Tokens == Collectors \X (1..MaxBatches)

\* Tokens collectors have given away.
Taken == {t \in Tokens : t[2] <= serial[t[1]]}

\* The batch a collector gives away next.
Token(c) == <<c, serial[c] + 1>>

\* The collectors in A may give away another batch each.
InBounds(A) ==
    /\ \A c \in A : serial[c] < MaxBatches
    /\ Cardinality(Taken) + Cardinality(A) <= MaxTotal

FetchStep(c, to) ==
    /\ fetch[c] = "fetching"
    /\ fetch' = [fetch EXCEPT ![c] = to]
    /\ UNCHANGED <<epc, cancelled, todo, next, producer, closed, pulledBatch, podsMetrics, pushing>>

\* An error before the collector has reset anything, or a batch without items.
FetchNothing(c) ==
    /\ FetchStep(c, "none")
    /\ UNCHANGED <<serial, lost>>

\* The collector answered, but the answer is late, broken or refused.
FetchLost(c) ==
    /\ FetchStep(c, "none")
    /\ InBounds({c})
    /\ serial' = [serial EXCEPT ![c] = @ + 1]
    /\ dropped' = dropped \cup {Token(c)}
    /\ UNCHANGED cut

FetchOk(c) ==
    /\ FetchStep(c, "sending")
    /\ InBounds({c})
    /\ serial' = [serial EXCEPT ![c] = @ + 1]
    /\ UNCHANGED lost

\* pulledBatch <- batch.
Send(c) ==
    /\ fetch[c] = "sending"
    /\ Len(pulledBatch) < FetchLimit
    /\ pulledBatch' = Append(pulledBatch, <<c, serial[c]>>)
    /\ fetch' = [fetch EXCEPT ![c] = "none"]
    /\ UNCHANGED <<epc, cancelled, todo, next, producer, closed, podsMetrics, pushing,
                   serial, lost>>

-----------------------------------------------------------------------------
(* export: the range over pulledBatch, and the sinks. *)

Receive ==
    /\ epc = "consume" /\ pulledBatch # <<>>
    /\ pulledBatch' = Tail(pulledBatch)
    /\ UNCHANGED <<epc, cancelled, fetching, pushing, serial>>

\* buildPodNetworkMetric finds the pod, or returns an error and the metric is skipped.
ReceiveBuilt ==
    /\ Receive
    /\ podsMetrics' = podsMetrics \cup {Head(pulledBatch)}
    /\ UNCHANGED lost

ReceiveSkipped ==
    /\ Receive
    /\ dropped' = dropped \cup {Head(pulledBatch)}
    /\ UNCHANGED <<podsMetrics, cut>>

\* Mutant: export goes on when there is nothing to receive.
ConsumeWhatIsThere ==
    /\ epc = "consume" /\ pulledBatch = <<>>
    /\ epc' = "push"
    /\ sinksTodo' = Sinks
    /\ UNCHANGED <<cancelled, fetching, pulledBatch, podsMetrics, push, delivered, refused,
                   serial, lost>>

\* The channel is closed and empty.
ConsumeEnd ==
    /\ epc = "consume" /\ pulledBatch = <<>> /\ closed
    /\ epc' = "push"
    /\ sinksTodo' = Sinks
    /\ UNCHANGED <<cancelled, fetching, pulledBatch, podsMetrics, push, delivered, refused,
                   serial, lost>>

Pushing == {s \in Sinks : push[s] # "none"}

\* Mutant: the sinks' group has no limit.
PushAtOnce(s) ==
    /\ epc = "push" /\ s \in sinksTodo
    /\ sinksTodo' = sinksTodo \ {s}
    /\ push' = [push EXCEPT ![s] = "pushing"]
    /\ UNCHANGED <<epc, cancelled, fetching, pulledBatch, podsMetrics, delivered, refused,
                   serial, lost>>

\* sinkGroup.Go blocks while PushLimit pushes run.
PushStart(s) ==
    /\ epc = "push" /\ s \in sinksTodo
    /\ Cardinality(Pushing) < PushLimit
    /\ sinksTodo' = sinksTodo \ {s}
    /\ push' = [push EXCEPT ![s] = "pushing"]
    /\ UNCHANGED <<epc, cancelled, fetching, pulledBatch, podsMetrics, delivered, refused,
                   serial, lost>>

\* Mutant: the backoff goes on after an error.
PushRetries(s, taken, err) ==
    /\ push[s] = "pushing"
    /\ taken \/ err
    /\ push' = [push EXCEPT ![s] = IF err THEN "pushing" ELSE "none"]
    /\ delivered' = [delivered EXCEPT ![s] = IF taken THEN @ \cup podsMetrics ELSE @]
    /\ refused' = [refused EXCEPT ![s] = IF err THEN @ \cup podsMetrics ELSE @]
    /\ UNCHANGED <<epc, cancelled, fetching, pulledBatch, podsMetrics, sinksTodo, serial, lost>>

\* Push returns: the sink has the metrics or not, and said so or not; in
\* particular a push that timed out may have been taken in.  No push is
\* repeated: the backoff of HTTPSink.Push ends at the first error.
PushReturns(s, taken, err) ==
    /\ push[s] = "pushing"
    /\ taken \/ err
    /\ push' = [push EXCEPT ![s] = "none"]
    /\ delivered' = [delivered EXCEPT ![s] = IF taken THEN @ \cup podsMetrics ELSE @]
    /\ refused' = [refused EXCEPT ![s] = IF err THEN @ \cup podsMetrics ELSE @]
    /\ UNCHANGED <<epc, cancelled, fetching, pulledBatch, podsMetrics, sinksTodo, serial, lost>>

\* sinkGroup.Wait; export returns.
End ==
    /\ epc = "push" /\ sinksTodo = {} /\ Pushing = {}
    /\ epc' = "idle"
    /\ UNCHANGED <<cancelled, fetching, pulledBatch, podsMetrics, pushing, serial, lost>>

-----------------------------------------------------------------------------
(* The end of the process. *)

\* Batches in a goroutine, in the channel and in what export has built.
InFetch   == {<<c, serial[c]>> : c \in {d \in Collectors : fetch[d] = "sending"}}
InChannel == {pulledBatch[i] : i \in 1..Len(pulledBatch)}
OnTheWay  == InFetch \cup InChannel \cup podsMetrics

\* log.Fatal, a return from main or a kill, and another process that starts
\* from nothing.  The collectors in A had answered and the sinks in B had taken
\* in what was pushed to them.
ProcessEnds(A, B) ==
    /\ \A c \in A : fetch[c] = "fetching"
    /\ InBounds(A)
    /\ B \subseteq Pushing
    /\ serial' = [c \in Collectors |-> IF c \in A THEN serial[c] + 1 ELSE serial[c]]
    /\ delivered' = [s \in Sinks |-> IF s \in B THEN delivered[s] \cup podsMetrics ELSE delivered[s]]
    /\ cut' = cut \cup {Token(c) : c \in A}
                   \cup {t \in OnTheWay : \E s \in Sinks : t \notin delivered'[s] \cup refused[s]}
    /\ epc' = "idle" /\ cancelled' = FALSE
    /\ todo' = {} /\ next' = {} /\ producer' = "none"
    /\ fetch' = [c \in Collectors |-> "none"]
    /\ pulledBatch' = <<>> /\ closed' = FALSE /\ podsMetrics' = {}
    /\ sinksTodo' = {} /\ push' = [s \in Sinks |-> "none"]
    /\ UNCHANGED <<dropped, refused>>

-----------------------------------------------------------------------------
Producer ==
    \/ ProducerQuit \/ ProducerClose
    \/ \E c \in Collectors : ProducerPick(c) \/ ProducerGo(c)

Fetch(c) == FetchNothing(c) \/ FetchLost(c) \/ FetchOk(c) \/ Send(c)

PushEnds(s) == \E taken, err \in BOOLEAN : PushReturns(s, taken, err)

Export ==
    \/ ReceiveBuilt \/ ReceiveSkipped \/ ConsumeEnd
    \/ \E s \in Sinks : PushStart(s)
    \/ End \/ Stop

\* The steps of the goroutines.
Work ==
    \/ \E S \in SUBSET Collectors : Begin(S)
    \/ Producer
    \/ \E c \in Collectors : Fetch(c)
    \/ Export
    \/ \E s \in Sinks : PushEnds(s)

Die == \E A \in SUBSET Collectors, B \in SUBSET Sinks : ProcessEnds(A, B)

Next == Work \/ Cancel \/ Die

Spec == Init /\ [][Next]_vars

-----------------------------------------------------------------------------
(* Types; and the channel and the two groups never hold more than their     *)
(* limits.                                                                  *)
TypeOK ==
    /\ epc \in {"idle", "consume", "push", "stopped"} /\ cancelled \in BOOLEAN
    /\ todo \subseteq Collectors /\ next \subseteq Collectors
    /\ producer \in {"none", "loop", "quit", "done"}
    /\ fetch \in [Collectors -> {"none", "fetching", "sending"}]
    /\ pulledBatch \in Seq(Tokens) /\ Len(pulledBatch) <= FetchLimit
    /\ closed \in BOOLEAN
    /\ podsMetrics \subseteq Tokens
    /\ Cardinality(Active) <= FetchLimit /\ Cardinality(Pushing) <= PushLimit
    /\ sinksTodo \subseteq Sinks /\ push \in [Sinks -> {"none", "pushing"}]
    /\ serial \in [Collectors -> 0..MaxBatches]
    /\ dropped \subseteq Tokens /\ cut \subseteq Tokens
    /\ delivered \in [Sinks -> SUBSET Tokens] /\ refused \in [Sinks -> SUBSET Tokens]

(* No fetch is under way once pulledBatch is closed: none can panic by      *)
(* sending to it.                                                           *)
NoSendOnClosed == closed => Active = {}

(* Between rounds every batch that left a collector is accounted for: it    *)
(* was dropped with a log line, it was on its way when a process ended, or  *)
(* every sink has either taken it in or returned an error for it.  None is  *)
(* left in a channel, a goroutine or a loop.                                *)
Accounted ==
    epc = "idle" =>
        \A t \in Taken \ (dropped \cup cut), s \in Sinks : t \in delivered[s] \cup refused[s]

(* A sink never gets a batch twice: one that is being pushed to has none of *)
(* what is pushed, not from an attempt that timed out, not from an earlier  *)
(* round and not from before a restart of the exporter either.              *)
PushedOnce == \A s \in Pushing : podsMetrics \cap delivered[s] = {}

(* The end of a process costs at most one batch of each collector, however  *)
(* many rounds the process has been through.                                *)
OneBatchCut ==
    [][\A t, u \in cut' \ cut : t[1] = u[1] => t = u]_vars
=============================================================================
