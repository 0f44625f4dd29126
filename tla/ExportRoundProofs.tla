-------------------------- MODULE ExportRoundProofs --------------------------
(***************************************************************************)
(* The invariants of the exporter's rounds for any numbers of collectors,  *)
(* sinks, limits and batches, and for any number of restarts.              *)
(***************************************************************************)
EXTENDS ExporterProgram, FiniteSetTheorems, TLAPS

\* A sink has taken a batch in, or has returned an error for it.
Settled(t, s) == t \in delivered[s] \cup refused[s]

\* Where the goroutines are, relative to each other.
Shape ==
    /\ epc # "consume" => producer \in {"none", "done"} /\ pulledBatch = <<>>
    /\ producer \in {"none", "done"} => Active = {} /\ next = {} /\ todo = {}
    /\ closed => producer = "done"
    /\ epc # "push" => sinksTodo = {} /\ Pushing = {}
    /\ sinksTodo \cap Pushing = {}
    /\ todo \cap next = {}
    /\ Active \cap (todo \cup next) = {}

\* A batch of this round is the last one its collector gave away, and nobody
\* fetches from that collector again before the next round.
LastOfRound ==
    /\ \A c \in Collectors : fetch[c] = "sending" => serial[c] > 0
    /\ \A t \in InChannel : t[2] = serial[t[1]] /\ t[1] \notin todo \cup next \cup Active
    /\ epc \in {"consume", "push"} =>
          \A t \in podsMetrics : t[2] = serial[t[1]] /\ t[1] \notin todo \cup next \cup Active

\* No sink has a batch that is still to be pushed to it.
Fresh ==
    /\ \A s \in Sinks : delivered[s] \subseteq Taken
    /\ \A s \in Sinks : delivered[s] \cap (InFetch \cup InChannel) = {}
    /\ epc = "consume" => \A s \in Sinks : delivered[s] \cap podsMetrics = {}
    /\ \A s \in sinksTodo \cup Pushing : delivered[s] \cap podsMetrics = {}

\* Where every batch is.
Placed ==
    /\ podsMetrics \subseteq Taken
    /\ \A t \in Taken :
          t \in dropped \cup cut \cup OnTheWay \/ \A s \in Sinks : Settled(t, s)
    /\ epc # "consume" =>
          \A t \in podsMetrics, s \in Sinks \ (sinksTodo \cup Pushing) : Settled(t, s)

IInv == TypeOK /\ Shape /\ LastOfRound /\ Fresh /\ Placed

-----------------------------------------------------------------------------
(* Types, and the limits. *)

(* A set of goroutines that lost members is still within its limit.         *)
LEMMA Fewer ==
    ASSUME NEW S, IsFiniteSet(S), NEW T \in SUBSET S, NEW n \in Nat, Cardinality(S) <= n
    PROVE  Cardinality(T) <= n
BY FS_Subset, FS_CardinalityType

(* One more goroutine keeps a set below its limit within it.                *)
LEMMA OneMore ==
    ASSUME NEW S, IsFiniteSet(S), NEW x, NEW T, T \subseteq S \cup {x},
           NEW n \in Nat, Cardinality(S) < n
    PROVE  Cardinality(T) <= n
<1>1. Cardinality(S) \in Nat
    BY FS_CardinalityType, Zenon
<1>2. IsFiniteSet(S \cup {x})
    BY FS_AddElement, Zenon
<1>3. Cardinality(S \cup {x}) = Cardinality(S) \/ Cardinality(S \cup {x}) = Cardinality(S) + 1
    BY FS_AddElement, Zenon
<1>4. Cardinality(S \cup {x}) <= n
    BY <1>1, <1>3
<1>5. QED  BY <1>2, <1>4, Fewer, Zenon

(* Active and Pushing are finite.                                           *)
LEMMA Groups == IsFiniteSet(Active) /\ IsFiniteSet(Pushing)
BY FS_Subset, ExportAssumption, Zenon DEF Active, Pushing

(* No fetch runs and no push does in a new process.                         *)
LEMMA NoGroups == Cardinality({}) = 0
BY FS_EmptySet, Zenon

(* The first state has the types.                                           *)
LEMMA InitTypes == Init => TypeOK
<1> SUFFICES ASSUME Init PROVE TypeOK
    OBVIOUS
<1>1. Active = {} /\ Pushing = {}
    BY Zenon DEF Init, Active, Pushing
<1>2. Cardinality(Active) = 0 /\ Cardinality(Pushing) = 0
    BY <1>1, NoGroups, Zenon
<1>3. pulledBatch \in Seq(Tokens) /\ Len(pulledBatch) = 0
    BY DEF Init
<1>4. Cardinality(Active) <= FetchLimit /\ Cardinality(Pushing) <= PushLimit
    BY <1>2, ExportAssumption
<1>5. Len(pulledBatch) <= FetchLimit /\ 0 \in 0..MaxBatches
    BY <1>3, ExportAssumption
<1>6. serial \in [Collectors -> 0..MaxBatches]
    BY <1>5, Zenon DEF Init
<1>7. QED  BY <1>3, <1>4, <1>5, <1>6, Zenon DEF Init, TypeOK

(* A step of the producer or of a fetch keeps the types.                    *)
LEMMA FetchTypes ==
    ASSUME TypeOK, LastOfRound, Producer \/ \E c \in Collectors : Fetch(c)
    PROVE  TypeOK'
<1> USE ExportAssumption
<1>a. UNCHANGED <<sinksTodo, push, epc, cancelled, podsMetrics, delivered, refused, cut>>
    BY Zenon DEF Producer, Fetch, ProducerQuit, ProducerClose, ProducerPick, ProducerGo, FetchStep,
           FetchNothing, FetchLost, FetchOk, Send, pushing, lost
<1>0. /\ Pushing' = Pushing /\ Len(pulledBatch) \in Nat
      /\ UNCHANGED <<sinksTodo, push, epc, cancelled, podsMetrics, delivered, refused, cut>>
    BY <1>a DEF Pushing, TypeOK
<1>1. CASE ProducerQuit \/ ProducerClose \/ \E c \in Collectors : ProducerPick(c)
    <2>1. Active' = Active
        BY <1>1, Zenon DEF ProducerQuit, ProducerClose, ProducerPick, Active
    <2>2. QED
        BY <1>0, <1>1, <2>1, Zenon
        DEF ProducerQuit, ProducerClose, ProducerPick, AtLoopHead, TypeOK, lost, Tokens
<1>2. ASSUME NEW c \in Collectors, ProducerGo(c)  PROVE TypeOK'
    <2>1. Active' \subseteq Active \cup {c}
        BY <1>2, Zenon DEF ProducerGo, Active, TypeOK
    <2>2. Cardinality(Active') <= FetchLimit
        BY <1>2, <2>1, Groups, OneMore, Zenon DEF ProducerGo
    <2>3. QED  BY <1>0, <1>2, <2>2, Zenon DEF ProducerGo, TypeOK, lost, Tokens
<1>3. ASSUME NEW c \in Collectors, Fetch(c)  PROVE TypeOK'
    <2>1. Active' \subseteq Active
        BY <1>3 DEF Fetch, FetchNothing, FetchLost, FetchOk, FetchStep, Send, Active, TypeOK
    <2>2. Cardinality(Active') <= FetchLimit
        BY <2>1, Groups, Fewer, Zenon DEF TypeOK
    <2>3. CASE FetchNothing(c)
        BY <1>0, <2>2, <2>3, Zenon DEF FetchNothing, FetchStep, TypeOK, lost, Tokens
    <2>4. CASE FetchLost(c)
        <3>1. serial[c] + 1 \in 1..MaxBatches /\ Token(c) \in Tokens
            BY <2>4 DEF FetchLost, InBounds, TypeOK, Tokens, Token
        <3>2. serial' \in [Collectors -> 0..MaxBatches] /\ dropped' \subseteq Tokens
            BY <2>4, <3>1 DEF FetchLost, TypeOK
        <3>3. QED  BY <1>0, <2>2, <2>4, <3>2, Zenon DEF FetchLost, FetchStep, TypeOK, Tokens
    <2>5. CASE FetchOk(c)
        <3>1. serial[c] + 1 \in 1..MaxBatches
            BY <2>5 DEF FetchOk, InBounds, TypeOK
        <3>2. serial' \in [Collectors -> 0..MaxBatches]
            BY <2>5, <3>1 DEF FetchOk, TypeOK
        <3>3. QED  BY <1>0, <2>2, <2>5, <3>2, Zenon DEF FetchOk, FetchStep, TypeOK, lost, Tokens
    <2>6. CASE Send(c)
        <3>1. <<c, serial[c]>> \in Tokens
            BY <2>6 DEF Send, TypeOK, LastOfRound, Tokens
        <3>2. pulledBatch' \in Seq(Tokens) /\ Len(pulledBatch') <= FetchLimit
            BY <1>0, <2>6, <3>1 DEF Send, TypeOK
        <3>3. QED  BY <1>0, <2>2, <2>6, <3>2, ZenonT(30) DEF Send, TypeOK, lost, Tokens
    <2>7. QED  BY <1>3, <2>3, <2>4, <2>5, <2>6, Zenon DEF Fetch
<1>4. QED  BY <1>1, <1>2, <1>3, Zenon DEF Producer

(* A step of export or of a push keeps the types.                           *)
LEMMA PushTypes ==
    ASSUME TypeOK, Export \/ \E s \in Sinks : PushEnds(s)
    PROVE  TypeOK'
<1> USE ExportAssumption
<1>0. UNCHANGED <<todo, next, producer, fetch, closed, cancelled, serial, cut>> /\ Active' = Active
    BY Zenon DEF Export, PushEnds, ReceiveBuilt, ReceiveSkipped, Receive, ConsumeEnd, PushStart, End,
           Stop, PushReturns, fetching, lost, Active
<1>1. CASE ReceiveBuilt \/ ReceiveSkipped
    <2>1. Head(pulledBatch) \in Tokens
        BY <1>1 DEF ReceiveBuilt, ReceiveSkipped, Receive, TypeOK
    <2>2. pulledBatch' \in Seq(Tokens) /\ Len(pulledBatch') <= FetchLimit
        <3>1. /\ pulledBatch \in Seq(Tokens) /\ pulledBatch # <<>>
              /\ pulledBatch' = Tail(pulledBatch) /\ Len(pulledBatch) <= FetchLimit
            BY <1>1, Zenon DEF ReceiveBuilt, ReceiveSkipped, Receive, TypeOK
        <3>2. Tail(pulledBatch) \in Seq(Tokens) /\ Len(Tail(pulledBatch)) = Len(pulledBatch) - 1
            BY <3>1
        <3>3. QED  BY <3>1, <3>2
    <2>3. podsMetrics' \subseteq Tokens /\ dropped' \subseteq Tokens
        BY <1>1, <2>1, Zenon DEF ReceiveBuilt, ReceiveSkipped, TypeOK, lost
    <2>4. Pushing' = Pushing
        BY <1>1, Zenon DEF ReceiveBuilt, ReceiveSkipped, Receive, pushing, Pushing
    <2>5. QED
        BY <1>0, <1>1, <2>2, <2>3, <2>4, Zenon
        DEF ReceiveBuilt, ReceiveSkipped, Receive, TypeOK, pushing, Tokens
<1>2. CASE ConsumeEnd \/ End \/ Stop
    <2>1. Pushing' = Pushing
        BY <1>2, Zenon DEF ConsumeEnd, End, Stop, pushing, Pushing
    <2>2. QED
        BY <1>0, <1>2, <2>1, Zenon DEF ConsumeEnd, End, Stop, TypeOK, pushing, lost, Tokens
<1>3. ASSUME NEW s \in Sinks, PushStart(s)  PROVE TypeOK'
    <2>1. Pushing' \subseteq Pushing \cup {s}
        BY <1>3, Zenon DEF PushStart, Pushing, TypeOK
    <2>2. Cardinality(Pushing') <= PushLimit
        BY <1>3, <2>1, Groups, OneMore, Zenon DEF PushStart
    <2>3. QED  BY <1>0, <1>3, <2>2, Zenon DEF PushStart, TypeOK, lost, Tokens
<1>4. ASSUME NEW s \in Sinks, PushEnds(s)  PROVE TypeOK'
    <2>1. Pushing' \subseteq Pushing
        BY <1>4, Zenon DEF PushEnds, PushReturns, Pushing, TypeOK
    <2>2. Cardinality(Pushing') <= PushLimit
        BY <2>1, Groups, Fewer, Zenon DEF TypeOK
    <2>3. delivered' \in [Sinks -> SUBSET Tokens] /\ refused' \in [Sinks -> SUBSET Tokens]
        BY <1>4 DEF PushEnds, PushReturns, TypeOK
    <2>4. QED  BY <1>0, <1>4, <2>2, <2>3, Zenon DEF PushEnds, PushReturns, TypeOK, lost, Tokens
<1>5. QED  BY <1>1, <1>2, <1>3, <1>4, Zenon DEF Export

(* A new round, a cancellation and a new process have the types.            *)
LEMMA OtherTypes ==
    ASSUME TypeOK, LastOfRound, Cancel \/ Die \/ \E S \in SUBSET Collectors : Begin(S)
    PROVE  TypeOK'
<1> USE ExportAssumption
<1>1. CASE Cancel
    <2>1. Active' = Active /\ Pushing' = Pushing
        BY <1>1, Zenon DEF Cancel, fetching, pushing, Active, Pushing
    <2>2. QED  BY <1>1, <2>1, Zenon DEF Cancel, TypeOK, fetching, pushing, lost, Tokens
<1>2. ASSUME NEW S \in SUBSET Collectors, Begin(S)  PROVE TypeOK'
    <2>1. Active' = {} /\ Pushing' = Pushing
        BY <1>2, Zenon DEF Begin, pushing, Active, Pushing
    <2>2. Cardinality(Active') <= FetchLimit
        BY <2>1, NoGroups
    <2>3. pulledBatch' \in Seq(Tokens) /\ Len(pulledBatch') <= FetchLimit
        BY <1>2 DEF Begin
    <2>4. QED  BY <1>2, <2>1, <2>2, <2>3, Zenon DEF Begin, TypeOK, pushing, lost, Tokens
<1>3. ASSUME NEW A \in SUBSET Collectors, NEW B \in SUBSET Sinks, ProcessEnds(A, B)  PROVE TypeOK'
    <2>1. Active' = {} /\ Pushing' = {}
        BY <1>3, Zenon DEF ProcessEnds, Active, Pushing
    <2>2. Cardinality(Active') <= FetchLimit /\ Cardinality(Pushing') <= PushLimit
        BY <2>1, NoGroups
    <2>3. pulledBatch' \in Seq(Tokens) /\ Len(pulledBatch') <= FetchLimit
        BY <1>3 DEF ProcessEnds
    <2>4. \A c \in A : serial[c] + 1 \in 1..MaxBatches
        BY <1>3 DEF ProcessEnds, InBounds, TypeOK
    <2>5. serial' \in [Collectors -> 0..MaxBatches]
        BY <1>3, <2>4 DEF ProcessEnds, TypeOK
    <2>6. delivered' \in [Sinks -> SUBSET Tokens]
        BY <1>3, Zenon DEF ProcessEnds, TypeOK
    <2>7. {Token(c) : c \in A} \subseteq Tokens
        BY <2>4 DEF Token, Tokens
    <2>8. OnTheWay \subseteq Tokens
        <3>1. InFetch \subseteq Tokens
            BY DEF InFetch, TypeOK, LastOfRound, Tokens
        <3>2. InChannel \subseteq Tokens
            BY DEF InChannel, TypeOK
        <3>3. QED  BY <3>1, <3>2, Zenon DEF OnTheWay, TypeOK
    <2>9. cut' \subseteq Tokens
        BY <1>3, <2>7, <2>8, Zenon DEF ProcessEnds, TypeOK
    <2>10. QED
        BY <1>3, <2>2, <2>3, <2>5, <2>6, <2>9, Zenon DEF ProcessEnds, TypeOK, Tokens
<1>4. QED  BY <1>1, <1>2, <1>3, Zenon DEF Die

(* Every step keeps the types.                                              *)
LEMMA StepTypes ==
    ASSUME TypeOK, LastOfRound, Next
    PROVE  TypeOK'
BY FetchTypes, PushTypes, OtherTypes, Zenon DEF Next, Work

-----------------------------------------------------------------------------
(* The goroutines of a round. *)

(* A step keeps the goroutines in their places.                             *)
LEMMA StepShape ==
    ASSUME IInv, Next
    PROVE  Shape'
<1> USE DEF IInv, Shape, TypeOK, Active, Pushing
<1>1. CASE Cancel
    BY <1>1, Zenon DEF Cancel, fetching, pushing
<1>2. CASE Die
    BY <1>2 DEF Die, ProcessEnds
<1>3. ASSUME NEW S \in SUBSET Collectors, Begin(S)  PROVE Shape'
    BY <1>3, Zenon DEF Begin, pushing
<1>4. CASE ProducerQuit
    BY <1>4, Zenon DEF ProducerQuit, AtLoopHead, pushing
<1>5. CASE ProducerClose
    BY <1>5, Zenon DEF ProducerClose, AtLoopHead, pushing
<1>6. ASSUME NEW c \in Collectors, ProducerPick(c)  PROVE Shape'
    BY <1>6, Zenon DEF ProducerPick, AtLoopHead, pushing
<1>7. ASSUME NEW c \in Collectors, ProducerGo(c)  PROVE Shape'
    BY <1>7 DEF ProducerGo, pushing
<1>8. ASSUME NEW c \in Collectors, Fetch(c)  PROVE Shape'
    <2>1. CASE Send(c)
        BY <2>1, Zenon DEF Send, pushing
    <2>2. ASSUME NEW to \in {"none", "sending"}, FetchStep(c, to)  PROVE Shape'
        BY <2>2, Zenon DEF FetchStep, pushing
    <2>3. QED  BY <1>8, <2>1, <2>2, Zenon DEF Fetch, FetchNothing, FetchLost, FetchOk
<1>9. CASE ReceiveBuilt \/ ReceiveSkipped
    BY <1>9 DEF ReceiveBuilt, ReceiveSkipped, Receive, fetching, pushing
<1>10. CASE ConsumeEnd
    BY <1>10, Zenon DEF ConsumeEnd, fetching
<1>11. ASSUME NEW s \in Sinks, PushStart(s)  PROVE Shape'
    BY <1>11, Zenon DEF PushStart, fetching
<1>12. ASSUME NEW s \in Sinks, PushEnds(s)  PROVE Shape'
    BY <1>12 DEF PushEnds, PushReturns, fetching
<1>13. CASE End \/ Stop
    BY <1>13 DEF End, Stop, fetching, pushing
<1>14. QED
    BY <1>1, <1>2, <1>3, <1>4, <1>5, <1>6, <1>7, <1>8, <1>9, <1>10, <1>11, <1>12, <1>13, ZenonT(30)
    DEF Next, Work, Producer, Export

-----------------------------------------------------------------------------
(* The batches of a round. *)

Books == LastOfRound /\ Fresh /\ Placed

(* A step that moves no batch, and starts no fetch from a collector that    *)
(* was not waited for, keeps the books.                                     *)
LEMMA Quiet ==
    ASSUME IInv,
           UNCHANGED <<epc, pulledBatch, podsMetrics, pushing, serial, lost>>,
           \A c \in Collectors : fetch'[c] = "sending" <=> fetch[c] = "sending",
           (todo \cup next \cup Active)' \subseteq todo \cup next \cup Active
    PROVE  Books'
<1>1. /\ InFetch' = InFetch /\ InChannel' = InChannel /\ OnTheWay' = OnTheWay
      /\ Taken' = Taken /\ Pushing' = Pushing
    BY Zenon DEF InFetch, InChannel, OnTheWay, Taken, Pushing, pushing
<1>2. LastOfRound'
    BY <1>1, Zenon DEF IInv, LastOfRound
<1>3. Fresh' /\ Placed'
    BY <1>1 DEF IInv, Fresh, Placed, Settled, pushing, lost
<1>4. QED  BY <1>2, <1>3, Zenon DEF Books

(* Cancelling, the producer and a fetch without a batch keep the books.     *)
LEMMA QuietBooks ==
    ASSUME IInv, Cancel \/ Producer \/ \E c \in Collectors : FetchNothing(c)
    PROVE  Books'
<1> USE DEF IInv, TypeOK, Active
<1>1. CASE Cancel
    BY <1>1, Quiet, Zenon DEF Cancel, fetching
<1>2. CASE ProducerQuit \/ ProducerClose
    BY <1>2, Quiet, Zenon DEF ProducerQuit, ProducerClose
<1>3. ASSUME NEW c \in Collectors, ProducerPick(c)  PROVE Books'
    BY <1>3, Quiet, Zenon DEF ProducerPick
<1>4. ASSUME NEW c \in Collectors, ProducerGo(c)  PROVE Books'
    <2>1. \A d \in Collectors : fetch'[d] = "sending" <=> fetch[d] = "sending"
        BY <1>4, Zenon DEF ProducerGo, Shape
    <2>2. (todo \cup next \cup Active)' \subseteq todo \cup next \cup Active
        BY <1>4, Zenon DEF ProducerGo
    <2>3. QED  BY <1>4, <2>1, <2>2, Quiet, Zenon DEF ProducerGo
<1>5. ASSUME NEW c \in Collectors, FetchNothing(c)  PROVE Books'
    <2>1. \A d \in Collectors : fetch'[d] = "sending" <=> fetch[d] = "sending"
        BY <1>5, Zenon DEF FetchNothing, FetchStep
    <2>2. (todo \cup next \cup Active)' \subseteq todo \cup next \cup Active
        BY <1>5, Zenon DEF FetchNothing, FetchStep
    <2>3. QED  BY <1>5, <2>1, <2>2, Quiet, Zenon DEF FetchNothing, FetchStep
<1>6. QED  BY <1>1, <1>2, <1>3, <1>4, <1>5, Zenon DEF Producer

(* A batch a collector gives away was with nobody before.                   *)
LEMMA NewToken ==
    ASSUME TypeOK, NEW c \in Collectors, serial[c] < MaxBatches,
           serial' = [serial EXCEPT ![c] = @ + 1]
    PROVE  /\ Token(c) \notin Taken /\ Taken' = Taken \cup {Token(c)}
           /\ \A t \in Tokens : t[1] # c => serial'[t[1]] = serial[t[1]]
<1>1. serial[c] \in Nat /\ Token(c) \in Tokens
    BY ExportAssumption DEF TypeOK, Token, Tokens
<1>2. Token(c) \notin Taken
    BY <1>1 DEF Token, Taken
<1>3. \A t \in Tokens : t[1] # c => serial'[t[1]] = serial[t[1]]
    BY Zenon DEF TypeOK, Tokens
<1>4. \A t \in Tokens : t[1] = c => (t[2] <= serial'[t[1]] <=> t[2] <= serial[t[1]] \/ t = Token(c))
    BY <1>1, ExportAssumption DEF TypeOK, Tokens, Token
<1>5. Taken' = Taken \cup {Token(c)}
    BY <1>1, <1>3, <1>4, Zenon DEF Taken, Tokens, Token, TypeOK
<1>6. QED  BY <1>2, <1>3, <1>5, Zenon

(* A fetch whose answer is lost, or has arrived, keeps the books.           *)
LEMMA AnswerBooks ==
    ASSUME IInv, NEW c \in Collectors, FetchLost(c) \/ FetchOk(c)
    PROVE  Books'
<1>1. /\ UNCHANGED <<epc, todo, next, pulledBatch, podsMetrics, sinksTodo, push, delivered, refused, cut>>
      /\ fetch[c] = "fetching" /\ serial[c] < MaxBatches
      /\ serial' = [serial EXCEPT ![c] = @ + 1]
    BY Zenon DEF FetchLost, FetchOk, FetchStep, InBounds, pushing, lost
<1>2. /\ Token(c) \notin Taken /\ Taken' = Taken \cup {Token(c)}
      /\ \A t \in Tokens : t[1] # c => serial'[t[1]] = serial[t[1]]
    BY <1>1, NewToken, Zenon DEF IInv
<1>3. Active' \subseteq Active /\ c \in Active /\ Pushing' = Pushing /\ InChannel' = InChannel
    <2>1. fetch' = [fetch EXCEPT ![c] = "none"] \/ fetch' = [fetch EXCEPT ![c] = "sending"]
        BY Zenon DEF FetchLost, FetchOk, FetchStep
    <2>2. Active' \subseteq Active /\ c \in Active
        BY <1>1, <2>1, Zenon DEF Active, IInv, TypeOK
    <2>3. QED  BY <1>1, <2>2, Zenon DEF Pushing, InChannel
<1>4. InChannel \subseteq Tokens /\ podsMetrics \subseteq Tokens
    BY DEF InChannel, IInv, TypeOK
<1>5. InFetch \subseteq InFetch' /\ InFetch' \subseteq InFetch \cup {Token(c)}
    <2>1. fetch' = [fetch EXCEPT ![c] = "none"] \/ fetch' = [fetch EXCEPT ![c] = "sending"]
        BY Zenon DEF FetchLost, FetchOk, FetchStep
    <2>2. /\ \A d \in Collectors \ {c} : fetch'[d] = fetch[d] /\ serial'[d] = serial[d]
          /\ fetch[c] # "sending" /\ serial'[c] = serial[c] + 1
        BY <1>1, <2>1, Zenon DEF IInv, TypeOK
    <2>3. QED  BY <2>2, Zenon DEF InFetch, Token
<1>6. FetchOk(c) => Token(c) \in InFetch'
    BY <1>1, Zenon DEF InFetch, FetchOk, FetchStep, IInv, TypeOK, Token
<1>7. LastOfRound'
    <2>1. \A d \in Collectors : fetch'[d] = "sending" => serial'[d] > 0
        BY <1>1 DEF FetchLost, FetchOk, FetchStep, IInv, TypeOK, LastOfRound
    <2>2. \A t \in InChannel' : t[2] = serial'[t[1]] /\ t[1] \notin (todo \cup next \cup Active)'
        BY <1>1, <1>2, <1>3, <1>4, Zenon DEF IInv, LastOfRound
    <2>3. epc' \in {"consume", "push"} =>
             \A t \in podsMetrics' : t[2] = serial'[t[1]] /\ t[1] \notin (todo \cup next \cup Active)'
        BY <1>1, <1>2, <1>3, <1>4, Zenon DEF IInv, LastOfRound
    <2>4. QED  BY <2>1, <2>2, <2>3, Zenon DEF LastOfRound
<1>8. Fresh'
    BY <1>1, <1>2, <1>3, <1>5 DEF IInv, Fresh
<1>9. Placed'
    <2>1. Taken' \subseteq Taken \cup dropped' \cup InFetch' /\ dropped \subseteq dropped'
        BY <1>2, <1>6, Zenon DEF FetchLost, FetchOk, lost
    <2>2. OnTheWay \subseteq OnTheWay' /\ InFetch' \subseteq OnTheWay'
        BY <1>1, <1>3, <1>5, Zenon DEF OnTheWay
    <2>3. QED  BY <1>1, <1>2, <1>3, <2>1, <2>2, Zenon DEF IInv, Placed, Settled
<1>10. QED  BY <1>7, <1>8, <1>9, Zenon DEF Books

(* Putting a batch into the channel keeps the books.                        *)
LEMMA SendBooks ==
    ASSUME IInv, NEW c \in Collectors, Send(c)
    PROVE  Books'
<1>1. /\ UNCHANGED <<epc, todo, next, podsMetrics, sinksTodo, push, delivered, refused, dropped, cut, serial>>
      /\ fetch[c] = "sending"
    BY Zenon DEF Send, pushing, lost
<1>2. Active' = Active \ {c} /\ c \in Active /\ Pushing' = Pushing /\ Taken' = Taken
    BY <1>1, Zenon DEF Send, Active, Pushing, Taken, IInv, TypeOK
<1>3. InChannel' = InChannel \cup {<<c, serial[c]>>}
    BY DEF Send, InChannel, IInv, TypeOK
<1>4. InFetch' \cup {<<c, serial[c]>>} = InFetch
    BY <1>1, Zenon DEF Send, InFetch, IInv, TypeOK
<1>5. OnTheWay' = OnTheWay
    BY <1>1, <1>3, <1>4, Zenon DEF OnTheWay
<1>6. LastOfRound'
    BY <1>1, <1>2, <1>3 DEF Send, IInv, TypeOK, Shape, LastOfRound
<1>7. Fresh'
    BY <1>1, <1>2, <1>3, <1>4, Zenon DEF IInv, Fresh
<1>8. Placed'
    BY <1>1, <1>2, <1>5, Zenon DEF IInv, Placed, Settled
<1>9. QED  BY <1>6, <1>7, <1>8, Zenon DEF Books

(* Taking a batch out of the channel keeps the books.                       *)
LEMMA ReceiveBooks ==
    ASSUME IInv, ReceiveBuilt \/ ReceiveSkipped
    PROVE  Books'
<1> DEFINE h == Head(pulledBatch)
<1>1. /\ UNCHANGED <<epc, todo, next, fetch, sinksTodo, push, delivered, refused, cut, serial>>
      /\ epc = "consume" /\ pulledBatch # <<>> /\ pulledBatch' = Tail(pulledBatch)
      /\ \/ podsMetrics' = podsMetrics \cup {h} /\ dropped' = dropped
         \/ podsMetrics' = podsMetrics /\ dropped' = dropped \cup {h}
    BY Zenon DEF ReceiveBuilt, ReceiveSkipped, Receive, fetching, pushing, lost
<1>2. InChannel = InChannel' \cup {h}
    <2>1. pulledBatch \in Seq(Tokens)
        BY Zenon DEF IInv, TypeOK
    <2>2. Len(pulledBatch) \in Nat /\ Len(pulledBatch) > 0 /\ Len(pulledBatch') = Len(pulledBatch) - 1
        BY <1>1, <2>1
    <2>3. \A i \in 1..Len(pulledBatch') : pulledBatch'[i] = pulledBatch[i + 1]
        BY <1>1, <2>1
    <2>4. h = pulledBatch[1]
        BY <1>1, <2>1
    <2>5. ASSUME NEW t \in InChannel  PROVE t = h \/ t \in InChannel'
        <3>1. PICK i \in 1..Len(pulledBatch) : t = pulledBatch[i]
            BY Zenon DEF InChannel
        <3>2. CASE i > 1
            <4>1. i - 1 \in 1..Len(pulledBatch') /\ (i - 1) + 1 = i
                BY <2>2, <3>2
            <4>2. QED  BY <2>3, <3>1, <4>1, Zenon DEF InChannel
        <3>3. QED  BY <2>4, <3>1, <3>2
    <2>6. InChannel' \cup {h} \subseteq InChannel
        BY <2>2, <2>3, <2>4 DEF InChannel
    <2>7. QED  BY <2>5, <2>6, Zenon
<1>3. /\ Active' = Active /\ Pushing' = Pushing /\ Taken' = Taken /\ InFetch' = InFetch
    BY <1>1, Zenon DEF Active, Pushing, Taken, InFetch
<1> HIDE DEF h
<1>4. h \in Taken
    <2>1. InChannel \subseteq Tokens
        BY DEF InChannel, IInv, TypeOK
    <2>2. h \in Tokens /\ h[2] = serial[h[1]]
        BY <1>2, <2>1, Zenon DEF IInv, LastOfRound
    <2>3. h[2] \in Nat
        BY <2>2, ExportAssumption DEF Tokens
    <2>4. QED  BY <2>2, <2>3 DEF Taken
<1>5. LastOfRound'
    BY <1>1, <1>2, <1>3, Zenon DEF IInv, LastOfRound
<1>6. Fresh'
    BY <1>1, <1>2, <1>3, Zenon DEF IInv, Fresh, Shape
<1>7. Placed'
    <2>1. OnTheWay \subseteq OnTheWay' \cup dropped'
        BY <1>1, <1>2, <1>3, Zenon DEF OnTheWay
    <2>2. QED  BY <1>1, <1>3, <1>4, <2>1, Zenon DEF IInv, Placed, Settled
<1>8. QED  BY <1>5, <1>6, <1>7, Zenon DEF Books

(* With no fetch running and the channel empty, nothing is in either.       *)
LEMMA NothingFetched ==
    ASSUME Active = {}, pulledBatch = <<>>
    PROVE  InFetch = {} /\ InChannel = {}
<1>1. InFetch = {}
    BY Zenon DEF InFetch, Active
<1>2. Len(pulledBatch) = 0
    OBVIOUS
<1>3. InChannel = {}
    BY <1>2 DEF InChannel
<1>4. QED  BY <1>1, <1>3, Zenon

(* The steps of export and its pushes once the channel is closed keep the   *)
(* books.                                                                   *)
LEMMA PushBooks ==
    ASSUME IInv, Shape', ConsumeEnd \/ End \/ Stop \/ \E s \in Sinks : PushStart(s) \/ PushEnds(s)
    PROVE  Books'
<1>1. UNCHANGED <<todo, next, fetch, pulledBatch, podsMetrics, serial, dropped, cut>>
    BY Zenon DEF ConsumeEnd, End, Stop, PushStart, PushEnds, PushReturns, fetching, lost
<1>2. /\ Active' = Active /\ Taken' = Taken /\ InFetch' = InFetch /\ InChannel' = InChannel
      /\ OnTheWay' = OnTheWay
    BY <1>1, Zenon DEF Active, Taken, InFetch, InChannel, OnTheWay
<1>3. ConsumeEnd => closed /\ epc = "consume"
    BY Zenon DEF ConsumeEnd
<1>4. epc = "consume" => ConsumeEnd
    BY Zenon DEF Shape, IInv, End, Stop, PushStart, PushEnds, PushReturns, Pushing
<1>5. InFetch = {} /\ InChannel = {}
    <2>1. Active = {} /\ pulledBatch = <<>>
        BY <1>3, <1>4, Zenon DEF ConsumeEnd, IInv, Shape
    <2>2. QED  BY <2>1, NothingFetched, Zenon
<1>6. epc' \in {"consume", "push"} => epc \in {"consume", "push"}
    BY Zenon DEF ConsumeEnd, End, Stop, PushStart, PushEnds, PushReturns
<1>7. LastOfRound'
    BY <1>1, <1>2, <1>6, Zenon DEF IInv, LastOfRound
<1>8. CASE ConsumeEnd
    <2>1. UNCHANGED <<push, delivered, refused>> /\ sinksTodo' = Sinks /\ Pushing' = {}
        BY <1>8, Zenon DEF ConsumeEnd, IInv, Shape, Pushing
    <2>2. Fresh'
        BY <1>1, <1>2, <1>8, <2>1, ZenonT(30) DEF ConsumeEnd, IInv, Fresh
    <2>3. Placed'
        BY <1>1, <1>2, <2>1, Zenon DEF IInv, Placed, Settled
    <2>4. QED  BY <1>7, <2>2, <2>3, Zenon DEF Books
<1>9. CASE End \/ Stop
    <2>1. UNCHANGED <<sinksTodo, push, delivered, refused>> /\ Pushing' = Pushing /\ epc # "consume" /\ epc' # "consume"
        BY <1>9, Zenon DEF End, Stop, pushing, Pushing
    <2>2. Fresh' /\ Placed'
        BY <1>1, <1>2, <2>1, Zenon DEF IInv, Fresh, Placed, Settled
    <2>3. QED  BY <1>7, <2>2, Zenon DEF Books
<1>10. ASSUME NEW s \in Sinks, PushStart(s)  PROVE Books'
    <2>1. /\ UNCHANGED <<delivered, refused>> /\ epc = "push" /\ epc' = "push"
          /\ (sinksTodo \cup Pushing)' = sinksTodo \cup Pushing
        BY <1>10, Zenon DEF PushStart, Pushing, IInv, TypeOK
    <2>2. Fresh' /\ Placed'
        BY <1>1, <1>2, <2>1, Zenon DEF IInv, Fresh, Placed, Settled
    <2>3. QED  BY <1>7, <2>2, Zenon DEF Books
<1>11. ASSUME NEW s \in Sinks, NEW taken \in BOOLEAN, NEW err \in BOOLEAN, PushReturns(s, taken, err)
       PROVE  Books'
    <2>1. s \in Pushing /\ epc' = epc /\ (sinksTodo \cup Pushing)' = (sinksTodo \cup Pushing) \ {s}
        BY <1>11 DEF PushReturns, Pushing, IInv, TypeOK, Shape
    <2>2. /\ \A r \in Sinks \ {s} : delivered'[r] = delivered[r] /\ refused'[r] = refused[r]
          /\ delivered[s] \subseteq delivered'[s] /\ refused[s] \subseteq refused'[s]
          /\ delivered'[s] \subseteq delivered[s] \cup podsMetrics
          /\ \A t \in podsMetrics : t \in delivered'[s] \cup refused'[s]
        BY <1>11, Zenon DEF PushReturns, IInv, TypeOK
    <2>3. epc # "consume"
        BY <2>1, Zenon DEF IInv, Shape
    <2>4. Fresh'
        <3>1. \A r \in Sinks : delivered'[r] \subseteq delivered[r] \cup podsMetrics
            BY <2>2, Zenon
        <3>2. \A r \in Sinks : delivered'[r] \subseteq Taken'
            BY <1>2, <3>1, ZenonT(30) DEF IInv, Fresh, Placed
        <3>3. \A r \in (sinksTodo \cup Pushing)' : r \in Sinks \ {s} /\ r \in sinksTodo \cup Pushing
            BY <2>1 DEF IInv, TypeOK, Pushing
        <3>4. \A r \in (sinksTodo \cup Pushing)' : delivered'[r] \cap podsMetrics = {}
            BY <2>2, <3>3, ZenonT(30) DEF IInv, Fresh
        <3>5. QED  BY <1>1, <1>2, <1>5, <2>1, <2>3, <3>2, <3>4, ZenonT(30) DEF Fresh
    <2>5. Placed'
        BY <1>1, <1>2, <2>1, <2>2, <2>3, Zenon DEF IInv, Placed, Settled, TypeOK
    <2>6. QED  BY <1>7, <2>4, <2>5, Zenon DEF Books
<1>12. QED  BY <1>8, <1>9, <1>10, <1>11, Zenon DEF PushEnds

(* A new round begins with the books of the last one closed.                *)
LEMMA BeginBooks ==
    ASSUME IInv, NEW S \in SUBSET Collectors, Begin(S)
    PROVE  Books'
<1>1. /\ UNCHANGED <<sinksTodo, push, delivered, refused, serial, dropped, cut>>
      /\ epc = "idle" /\ podsMetrics' = {} /\ Pushing' = Pushing /\ Taken' = Taken
    BY Zenon DEF Begin, pushing, lost, Pushing, Taken
<1>2. InFetch' = {} /\ InChannel' = {}
    <2>1. fetch' = [d \in Collectors |-> "none"] /\ pulledBatch' = <<>>
        BY Zenon DEF Begin
    <2>2. QED  BY <2>1 DEF InFetch, InChannel
<1>3. InFetch = {} /\ InChannel = {} /\ sinksTodo \cup Pushing = {}
    BY <1>1, NothingFetched, Zenon DEF IInv, Shape
<1>4. LastOfRound'
    BY <1>1, <1>2, Zenon DEF Begin, LastOfRound
<1>5. Fresh'
    BY <1>1, <1>2, Zenon DEF IInv, Fresh
<1>6. Placed'
    BY <1>1, <1>3, Zenon DEF IInv, Placed, Settled, OnTheWay
<1>7. QED  BY <1>4, <1>5, <1>6, Zenon DEF Books

(* The end of a process closes the books.                                   *)
LEMMA DieBooks ==
    ASSUME IInv, NEW A \in SUBSET Collectors, NEW B \in SUBSET Sinks, ProcessEnds(A, B)
    PROVE  Books'
<1>1. /\ epc' = "idle" /\ podsMetrics' = {} /\ sinksTodo' = {} /\ UNCHANGED <<dropped, refused>>
      /\ InFetch' = {} /\ InChannel' = {} /\ Pushing' = {}
    BY DEF ProcessEnds, InFetch, InChannel, Pushing
<1>2. \A c \in Collectors : serial[c] \in Nat /\ serial'[c] = IF c \in A THEN serial[c] + 1 ELSE serial[c]
    BY DEF ProcessEnds, IInv, TypeOK
<1>3. Taken \subseteq Taken'
    BY <1>2 DEF Taken, Tokens
<1>4. Taken' \subseteq Taken \cup {Token(c) : c \in A}
    <2>1. ASSUME NEW t \in Taken', t \notin Taken  PROVE t[1] \in A /\ t = Token(t[1])
        <3>1. t \in Tokens /\ t[1] \in Collectors /\ t[2] \in Nat /\ t = <<t[1], t[2]>>
            BY ExportAssumption DEF Taken, Tokens
        <3>2. t[2] <= serial'[t[1]] /\ ~(t[2] <= serial[t[1]])
            BY <2>1, <3>1, Zenon DEF Taken, Tokens
        <3>3. t[1] \in A /\ t[2] = serial[t[1]] + 1
            BY <1>2, <3>1, <3>2
        <3>4. QED  BY <3>1, <3>3, Zenon DEF Token
    <2>2. QED  BY <2>1, Zenon
<1>5. \A s \in Sinks : delivered[s] \subseteq delivered'[s] /\ delivered'[s] \subseteq delivered[s] \cup podsMetrics
    BY Zenon DEF ProcessEnds, IInv, TypeOK
<1>6. LastOfRound'
    BY <1>1, ZenonT(30) DEF ProcessEnds, LastOfRound
<1>7. Fresh'
    <2>1. \A s \in Sinks : delivered'[s] \subseteq Taken'
        BY <1>3, <1>5, ZenonT(30) DEF IInv, Fresh, Placed
    <2>2. QED  BY <1>1, <2>1, ZenonT(30) DEF Fresh
<1>8. Placed'
    <2>1. \A t \in OnTheWay : t \in cut' \/ \A s \in Sinks : t \in delivered'[s] \cup refused'[s]
        BY <1>1, ZenonT(30) DEF ProcessEnds
    <2>2. cut \subseteq cut' /\ {Token(c) : c \in A} \subseteq cut'
        BY ZenonT(30) DEF ProcessEnds
    <2>3. \A t \in Taken : t \in dropped' \cup cut' \/ \A s \in Sinks : t \in delivered'[s] \cup refused'[s]
        BY <1>1, <1>5, <2>1, <2>2, Zenon DEF IInv, Placed, Settled
    <2>4. QED  BY <1>1, <1>4, <2>2, <2>3, ZenonT(30) DEF Placed, Settled
<1>9. QED  BY <1>6, <1>7, <1>8, Zenon DEF Books

-----------------------------------------------------------------------------
(* The theorems. *)

(* The first process has nothing on its way.                                *)
LEMMA InitIInv == Init => IInv
<1> SUFFICES ASSUME Init PROVE IInv
    OBVIOUS
<1>1. Active = {} /\ Pushing = {} /\ pulledBatch = <<>>
    BY Zenon DEF Init, Active, Pushing
<1>2. InFetch = {} /\ InChannel = {}
    BY <1>1, NothingFetched, Zenon
<1>3. Taken = {}
    BY DEF Init, Taken, Tokens
<1>4. Shape /\ LastOfRound
    BY <1>1, <1>2, Zenon DEF Init, Shape, LastOfRound
<1>5. Fresh /\ Placed
    BY <1>1, <1>2, <1>3, Zenon DEF Init, Fresh, Placed
<1>6. QED  BY <1>4, <1>5, InitTypes, Zenon DEF IInv

(* Every step keeps the invariant.                                          *)
LEMMA StepIInv == IInv /\ [Next]_vars => IInv'
<1> SUFFICES ASSUME IInv, [Next]_vars PROVE IInv'
    OBVIOUS
<1>1. CASE UNCHANGED vars
    <2>1. UNCHANGED <<epc, cancelled, todo, next, producer, fetch, closed, pulledBatch, podsMetrics,
                      sinksTodo, push, delivered, refused, serial, dropped, cut>>
        BY <1>1, Zenon DEF vars, fetching, pushing, lost
    <2>2. /\ Active' = Active /\ Pushing' = Pushing /\ InFetch' = InFetch
          /\ InChannel' = InChannel /\ OnTheWay' = OnTheWay /\ Taken' = Taken
        BY <2>1, ZenonT(30) DEF Active, Pushing, InFetch, InChannel, OnTheWay, Taken
    <2>3. TypeOK'
        BY <2>1, <2>2, Zenon DEF IInv, TypeOK
    <2>4. Shape' /\ LastOfRound'
        BY <2>1, <2>2, ZenonT(30) DEF IInv, Shape, LastOfRound
    <2>5. Fresh' /\ Placed'
        BY <2>1, <2>2, Zenon DEF IInv, Fresh, Placed, Settled
    <2>6. QED  BY <2>3, <2>4, <2>5, Zenon DEF IInv
<1>2. CASE Next
    <2>1. TypeOK' /\ Shape'
        BY <1>2, StepTypes, StepShape, Zenon DEF IInv
    <2>2. Books'
        BY <1>2, <2>1, QuietBooks, AnswerBooks, SendBooks, ReceiveBooks, PushBooks, BeginBooks, DieBooks
        DEF Next, Work, Fetch, Export, Die
    <2>3. QED  BY <2>1, <2>2, Zenon DEF IInv, Books
<1>3. QED  BY <1>1, <1>2, Zenon

(* The invariant holds throughout.                                          *)
LEMMA AlwaysIInv == Spec => []IInv
BY InitIInv, StepIInv, PTL DEF Spec

(* However many collectors there are and whatever the limits: every part of *)
(* a round is where the code can have it, and no limit is passed.           *)
THEOREM RoundTypes == Spec => []TypeOK
<1>1. IInv => TypeOK
    BY Zenon DEF IInv
<1>2. QED  BY <1>1, AlwaysIInv, PTL

(* No fetch sends its batch on the channel that the producer has closed.    *)
THEOREM RoundSendsOpen == Spec => []NoSendOnClosed
<1>1. IInv => NoSendOnClosed
    BY Zenon DEF IInv, Shape, NoSendOnClosed
<1>2. QED  BY <1>1, AlwaysIInv, PTL

(* Between rounds every batch that left a collector is at every sink, or    *)
(* was refused there, dropped or cut.                                       *)
THEOREM RoundSafe == Spec => []Accounted
<1>1. IInv => Accounted
    <2> SUFFICES ASSUME IInv, epc = "idle", NEW t \in Taken \ (dropped \cup cut), NEW s \in Sinks
                 PROVE  t \in delivered[s] \cup refused[s]
        BY Zenon DEF Accounted
    <2>1. InFetch = {} /\ InChannel = {} /\ sinksTodo \cup Pushing = {}
        BY NothingFetched, Zenon DEF IInv, Shape
    <2>2. QED  BY <2>1, Zenon DEF IInv, Placed, Settled, OnTheWay
<1>2. QED  BY <1>1, AlwaysIInv, PTL

(* No sink is pushed a batch it has, in whatever round or process.          *)
THEOREM RoundPushesOnce == Spec => []PushedOnce
<1>1. IInv => PushedOnce
    BY Zenon DEF IInv, Fresh, PushedOnce
<1>2. QED  BY <1>1, AlwaysIInv, PTL

(* The end of a process loses at most one batch of each collector.          *)
THEOREM RoundCutsOne == Spec => OneBatchCut
<1> DEFINE One == \A t, u \in cut' \ cut : t[1] = u[1] => t = u
<1>1. IInv /\ [Next]_vars => [One]_vars
    <2> SUFFICES ASSUME IInv, Next, NEW t \in cut' \ cut, NEW u \in cut' \ cut, t[1] = u[1]
                 PROVE  t = u
        OBVIOUS
    <2>1. PICK A \in SUBSET Collectors, B \in SUBSET Sinks : ProcessEnds(A, B)
        BY ZenonT(30) DEF Next, Work, Begin, Producer, ProducerQuit, ProducerClose, ProducerPick, ProducerGo,
               Fetch, FetchNothing, FetchLost, FetchOk, FetchStep, Send, Export, ReceiveBuilt,
               ReceiveSkipped, Receive, ConsumeEnd, PushStart, End, Stop, PushEnds, PushReturns,
               Cancel, Die, lost
    <2>2. ASSUME NEW v \in cut' \ cut
          PROVE  \/ v = Token(v[1]) /\ fetch[v[1]] = "fetching"
                 \/ v = <<v[1], serial[v[1]]>> /\ fetch[v[1]] # "fetching"
        <3>1. CASE v \in {Token(c) : c \in A}
            BY <2>1, <3>1 DEF ProcessEnds, Token
        <3>2. CASE v \in InFetch
            BY <3>2 DEF InFetch
        <3>3. CASE v \in InChannel
            <4>1. v \in Tokens
                BY <3>3 DEF InChannel, IInv, TypeOK
            <4>2. v = <<v[1], v[2]>> /\ v[1] \in Collectors
                BY <4>1 DEF Tokens
            <4>3. v[2] = serial[v[1]] /\ v[1] \notin Active
                BY <3>3, Zenon DEF IInv, LastOfRound
            <4>4. QED  BY <4>2, <4>3, Zenon DEF Active
        <3>4. CASE v \in podsMetrics /\ \E s \in Sinks : v \notin delivered'[s] \cup refused[s]
            <4>1. v \in Tokens /\ \E s \in Sinks : v \notin delivered[s] \cup refused[s]
                BY <2>1, <3>4, ZenonT(30) DEF ProcessEnds, IInv, TypeOK
            <4>2. epc \in {"consume", "push"}
                BY <3>4, <4>1, Zenon DEF IInv, Shape, Placed, Settled, TypeOK
            <4>3. v = <<v[1], v[2]>> /\ v[1] \in Collectors
                BY <4>1 DEF Tokens
            <4>4. v[2] = serial[v[1]] /\ v[1] \notin Active
                BY <3>4, <4>2, Zenon DEF IInv, LastOfRound
            <4>5. QED  BY <4>3, <4>4, Zenon DEF Active
        <3>5. QED  BY <2>1, <2>2, <3>1, <3>2, <3>3, <3>4, Zenon DEF ProcessEnds, OnTheWay
    <2>3. QED  BY <2>2, Zenon DEF Token
<1>2. QED  BY <1>1, AlwaysIInv, PTL DEF Spec, OneBatchCut

(* What main and run do to the rounds, signals, failures to start and exits *)
(* included, are steps of the rounds: the program implements them.          *)
THEOREM ProgramImplementsRounds == ProgramSpec => Spec
<1>1. ProgramInit => Init
    BY Zenon DEF ProgramInit
<1>2. [ProgramNext]_programVars => [Next]_vars
    <2> SUFFICES ASSUME ProgramNext PROVE [Next]_vars
        BY Zenon DEF programVars
    <2>1. CASE Exporter(Work)
        BY <2>1, Zenon DEF Exporter, Next
    <2>2. CASE Exit \/ Killed
        BY <2>2, Zenon DEF Exit, Killed, Next
    <2>3. CASE Signal \/ StartUp
        BY <2>3, Zenon DEF Signal, StartUp
    <2>4. CASE SignalCancels \/ StartFails \/ ListenFails \/ ServerClosed
        <3>1. cancelled' = TRUE /\ UNCHANGED <<epc, fetching, pulledBatch, podsMetrics, pushing, serial, lost>>
            BY <2>4, Zenon DEF SignalCancels, StartFails, ListenFails, ServerClosed, Return
        <3>2. CASE cancelled = TRUE
            BY <3>1, <3>2, Zenon DEF vars
        <3>3. CASE ~cancelled
            BY <3>1, <3>3, Zenon DEF Next, Cancel
        <3>4. CASE cancelled # TRUE /\ cancelled
            BY <3>4, Zenon
        <3>5. QED  BY <3>2, <3>3, <3>4, Zenon
    <2>5. QED  BY <2>1, <2>2, <2>3, <2>4, Zenon DEF ProgramNext
<1>3. QED  BY <1>1, <1>2, PTL DEF ProgramSpec, Spec

(* Hence the program keeps what the rounds keep.                            *)
THEOREM ProgramSafe ==
    ProgramSpec => [](TypeOK /\ NoSendOnClosed /\ Accounted /\ PushedOnce) /\ OneBatchCut
BY ProgramImplementsRounds, RoundTypes, RoundSendsOpen, RoundSafe, RoundPushesOnce, RoundCutsOne, PTL

-----------------------------------------------------------------------------
(* Progress: what RoundEnds needs besides fairness. *)

InRound  == epc \in {"consume", "push"}
Fetching == {c \in Collectors : fetch[c] = "fetching"}
Sending  == {c \in Collectors : fetch[c] = "sending"}

\* One of the goroutines can go on: the guards of the actions of Work.
Ready ==
    \/ AtLoopHead /\ (todo # {} \/ Active = {})
    \/ producer = "loop" /\ next # {} /\ Cardinality(Active) < FetchLimit
    \/ Fetching # {}
    \/ Sending # {} /\ Len(pulledBatch) < FetchLimit
    \/ epc = "consume" /\ (pulledBatch # <<>> \/ closed)
    \/ epc = "push" /\ sinksTodo # {} /\ Cardinality(Pushing) < PushLimit
    \/ Pushing # {}
    \/ epc = "push" /\ sinksTodo = {} /\ Pushing = {}

(* Nobody waits for everybody else: in a round some goroutine can go on,    *)
(* however the limits of the groups and the channel compare, unless the     *)
(* producer has quit at a done ctx.                                         *)
NeverStuck == InRound /\ producer # "quit" => Ready

\* The producer of a round closes the channel when it is done.
Closes ==
    /\ producer = "done" => closed
    /\ epc = "consume" => producer # "none"

\* How many steps the fetches can still take in a round, and how many the
\* pushes can.
Weigh(todos, nexts, fetches, sends, batches, loops) ==
    5 * todos + 4 * nexts + 3 * fetches + 2 * sends + batches + loops

Loops(p) == IF p = "loop" THEN 1 ELSE 0

PullsLeft ==
    Weigh(Cardinality(todo), Cardinality(next), Cardinality(Fetching), Cardinality(Sending),
          Len(pulledBatch), Loops(producer))

PushesLeft ==
    IF epc = "consume" THEN 2 * Cardinality(Sinks) + 2
    ELSE IF epc = "push" THEN 2 * Cardinality(sinksTodo) + Cardinality(Pushing) + 1
    ELSE 0

StepsLeft == PullsLeft + PushesLeft

MaxSteps == 5 * Cardinality(Collectors) + 2 * Cardinality(Sinks) + 3

(* A round cannot go on for ever: each step of a goroutine in it leaves     *)
(* fewer steps to take.                                                     *)
RoundAdvances == [][InRound /\ Work => StepsLeft' < StepsLeft]_vars

(* The steps of a round are bounded by the numbers of collectors and sinks. *)
RoundBounded == StepsLeft \in 0..MaxSteps

(* The channel of a round is closed once its producer is done.              *)
LEMMA StepCloses ==
    ASSUME IInv, Closes, Next
    PROVE  Closes'
<1> USE DEF Closes
<1>1. CASE Producer
    BY <1>1, Zenon DEF Producer, ProducerQuit, ProducerClose, ProducerPick, ProducerGo, AtLoopHead
<1>2. ASSUME NEW c \in Collectors, Fetch(c)  PROVE Closes'
    BY <1>2, Zenon DEF Fetch, FetchNothing, FetchLost, FetchOk, FetchStep, Send
<1>3. CASE Export \/ \E s \in Sinks : PushEnds(s)
    BY <1>3, Zenon DEF Export, ReceiveBuilt, ReceiveSkipped, Receive, ConsumeEnd, PushStart, End, Stop,
           PushEnds, PushReturns, fetching
<1>4. CASE Cancel \/ Die \/ \E S \in SUBSET Collectors : Begin(S)
    BY <1>4, Zenon DEF Cancel, Die, ProcessEnds, Begin, fetching
<1>5. QED  BY <1>1, <1>2, <1>3, <1>4, Zenon DEF Next, Work

(* The invariant with it.                                                   *)
LEMMA AlwaysCloses == Spec => [](IInv /\ Closes)
<1>1. Init => Closes
    BY Zenon DEF Init, Closes
<1>2. IInv /\ Closes /\ [Next]_vars => Closes'
    <2>1. UNCHANGED vars => epc' = epc /\ producer' = producer /\ closed' = closed
        BY Zenon DEF vars, fetching
    <2>2. ASSUME Closes, UNCHANGED vars  PROVE Closes'
        BY <2>1, <2>2, Zenon DEF Closes
    <2>3. QED  BY <2>2, StepCloses, Zenon
<1>3. QED  BY <1>1, <1>2, AlwaysIInv, PTL DEF Spec

(* A group at its limit has a goroutine.                                    *)
LEMMA AtLimit ==
    ASSUME NEW S, NEW n \in Nat \ {0}, ~(Cardinality(S) < n)
    PROVE  S # {}
<1>1. ~(0 < n) => FALSE
    OBVIOUS
<1>2. QED  BY <1>1, NoGroups, Zenon

(* A fetch can go on, or export can, which makes room in the channel.       *)
LEMMA FetchesGoOn ==
    ASSUME TypeOK, epc = "consume", Active # {}
    PROVE  Ready
<1>1. PICK c \in Collectors : fetch[c] \in {"fetching", "sending"}
    BY Zenon DEF TypeOK, Active
<1>2. pulledBatch = <<>> => Len(pulledBatch) < FetchLimit
    BY ExportAssumption
<1>3. Fetching # {} \/ Sending # {}
    BY <1>1, Zenon DEF Fetching, Sending
<1>4. QED  BY <1>2, <1>3, Zenon DEF Ready

(* No round is stuck, for any limits of the two groups and any numbers of   *)
(* collectors and sinks.                                                    *)
THEOREM RoundNeverStuck == Spec => []NeverStuck
<1>1. IInv /\ Closes => NeverStuck
    <2> SUFFICES ASSUME IInv, Closes, InRound, producer # "quit"  PROVE Ready
        BY Zenon DEF NeverStuck
    <2>1. TypeOK
        BY Zenon DEF IInv
    <2>2. CASE epc = "consume" /\ producer = "loop" /\ next # {}
        <3>1. ~(Cardinality(Active) < FetchLimit) => Active # {}
            BY AtLimit, ExportAssumption, Zenon
        <3>2. QED  BY <2>1, <2>2, <3>1, FetchesGoOn, Zenon DEF Ready
    <2>3. CASE epc = "consume" /\ producer = "loop" /\ next = {}
        BY <2>1, <2>3, FetchesGoOn, Zenon DEF Ready, AtLoopHead
    <2>4. CASE epc = "consume" /\ producer = "done"
        BY <2>4, Zenon DEF Ready, Closes
    <2>5. CASE epc = "push"
        <3>1. ~(Cardinality(Pushing) < PushLimit) => Pushing # {}
            BY AtLimit, ExportAssumption, Zenon
        <3>2. QED  BY <2>5, <3>1, Zenon DEF Ready
    <2>6. QED  BY <2>1, <2>2, <2>3, <2>4, <2>5, Zenon DEF InRound, Closes, TypeOK
<1>2. QED  BY <1>1, AlwaysCloses, PTL

(* What each step takes from the weight of what is left.                    *)
LEMMA Lighter ==
    ASSUME NEW a \in Nat, NEW b \in Nat, NEW f \in Nat, NEW g \in Nat, NEW l \in Nat, NEW w \in Nat
    PROVE  /\ Weigh(a, b, f, g, l, w) \in Nat
           /\ Weigh(a, b, f, g, l, 0) < Weigh(a, b, f, g, l, 1)
           /\ Weigh(a - 1, 0, f, g, l, w) < Weigh(a, 0, f, g, l, w)
           /\ Weigh(a - 1, 1, f, g, l, w) < Weigh(a, 0, f, g, l, w)
           /\ b # 0 => Weigh(a, 0, f + 1, g, l, w) < Weigh(a, b, f, g, l, w)
           /\ Weigh(a, b, f - 1, g, l, w) < Weigh(a, b, f, g, l, w)
           /\ Weigh(a, b, f - 1, g + 1, l, w) < Weigh(a, b, f, g, l, w)
           /\ Weigh(a, b, f, g - 1, l + 1, w) < Weigh(a, b, f, g, l, w)
           /\ Weigh(a, b, f, g, l - 1, w) < Weigh(a, b, f, g, l, w)
BY DEF Weigh

(* The producer's last step counts as one.                                  *)
LEMMA LoopsType == \A p : Loops(p) \in Nat
BY DEF Loops

(* The sets that are counted are finite.                                    *)
LEMMA Counted ==
    ASSUME TypeOK
    PROVE  /\ IsFiniteSet(todo) /\ IsFiniteSet(next) /\ IsFiniteSet(Fetching) /\ IsFiniteSet(Sending)
           /\ IsFiniteSet(sinksTodo) /\ IsFiniteSet(Pushing)
BY FS_Subset, ExportAssumption, Zenon DEF TypeOK, Fetching, Sending, Pushing

(* And so their sizes are numbers.                                          *)
LEMMA Sizes ==
    ASSUME TypeOK
    PROVE  /\ Cardinality(todo) \in Nat /\ Cardinality(next) \in Nat
           /\ Cardinality(Fetching) \in Nat /\ Cardinality(Sending) \in Nat /\ Len(pulledBatch) \in Nat
           /\ Cardinality(sinksTodo) \in Nat /\ Cardinality(Pushing) \in Nat
           /\ Cardinality(Sinks) \in Nat /\ Cardinality(Collectors) \in Nat
           /\ Loops(producer) \in Nat /\ PullsLeft \in Nat /\ PushesLeft \in Nat
<1>1. /\ Cardinality(todo) \in Nat /\ Cardinality(next) \in Nat
      /\ Cardinality(Fetching) \in Nat /\ Cardinality(Sending) \in Nat
      /\ Cardinality(sinksTodo) \in Nat /\ Cardinality(Pushing) \in Nat
      /\ Cardinality(Sinks) \in Nat /\ Cardinality(Collectors) \in Nat
    BY Counted, FS_CardinalityType, ExportAssumption, Zenon
<1>2. Len(pulledBatch) \in Nat
    BY DEF TypeOK
<1>3. Loops(producer) \in Nat /\ PullsLeft \in Nat
    BY <1>1, <1>2, Lighter, LoopsType, Zenon DEF PullsLeft
<1>4. 2 * Cardinality(Sinks) + 2 \in Nat /\ 2 * Cardinality(sinksTodo) + Cardinality(Pushing) + 1 \in Nat
    BY <1>1
<1>5. QED  BY <1>1, <1>2, <1>3, <1>4, Zenon DEF PushesLeft

(* Taking out a member.                                                     *)
LEMMA Out ==
    ASSUME NEW S, IsFiniteSet(S), NEW x \in S
    PROVE  Cardinality(S \ {x}) = Cardinality(S) - 1
BY FS_RemoveElement, Zenon

(* Putting in a new member.                                                 *)
LEMMA In ==
    ASSUME NEW S, IsFiniteSet(S), NEW x, x \notin S
    PROVE  Cardinality(S \cup {x}) = Cardinality(S) + 1
BY FS_AddElement, Zenon

(* What a goroutine's change of place does to the two sets of fetches.      *)
LEMMA FetchMoves ==
    ASSUME TypeOK, NEW c \in Collectors, NEW to \in {"none", "fetching", "sending"},
           fetch' = [fetch EXCEPT ![c] = to]
    PROVE  /\ Fetching' = IF to = "fetching" THEN Fetching \cup {c} ELSE Fetching \ {c}
           /\ Sending' = IF to = "sending" THEN Sending \cup {c} ELSE Sending \ {c}
BY DEF TypeOK, Fetching, Sending

(* A step of the producer or of a fetch leaves fewer.                       *)
LEMMA PullsAdvance ==
    ASSUME IInv, Producer \/ \E c \in Collectors : Fetch(c)
    PROVE  PullsLeft' < PullsLeft /\ PushesLeft' = PushesLeft
<1>t. TypeOK
    BY Zenon DEF IInv
<1>u. UNCHANGED <<epc, sinksTodo, push>>
    BY Zenon DEF Producer, Fetch, ProducerQuit, ProducerClose, ProducerPick, ProducerGo, FetchStep,
           FetchNothing, FetchLost, FetchOk, Send, pushing
<1>0. PushesLeft' = PushesLeft
    BY <1>u, Zenon DEF PushesLeft, Pushing
<1>1. CASE ProducerQuit \/ ProducerClose
    <2>1. /\ UNCHANGED <<todo, next, Fetching, Sending, pulledBatch>>
          /\ producer = "loop" /\ producer' \in {"quit", "done"}
        BY <1>1, Zenon DEF ProducerQuit, ProducerClose, AtLoopHead, Fetching, Sending
    <2>2. Loops(producer) = 1 /\ Loops(producer') = 0
        BY <2>1 DEF Loops
    <2>3. QED  BY <1>0, <1>t, <2>1, <2>2, Sizes, Lighter, ZenonT(30) DEF PullsLeft
<1>2. ASSUME NEW c \in Collectors, ProducerPick(c)  PROVE PullsLeft' < PullsLeft
    <2>1. UNCHANGED <<Fetching, Sending, pulledBatch, producer>>
        BY <1>2, Zenon DEF ProducerPick, Fetching, Sending
    <2>2. Cardinality(todo') = Cardinality(todo) - 1
        BY <1>2, <1>t, Counted, Out, Zenon DEF ProducerPick
    <2>3. next = {} /\ (next' = {} \/ next' = {c})
        BY <1>2, Zenon DEF ProducerPick, AtLoopHead
    <2>4. Cardinality(next) = 0 /\ (Cardinality(next') = 0 \/ Cardinality(next') = 1)
        BY <2>3, FS_EmptySet, FS_Singleton, Zenon
    <2>5. QED  BY <1>t, <2>1, <2>2, <2>4, Sizes, Lighter, ZenonT(30) DEF PullsLeft
<1>3. ASSUME NEW c \in Collectors, ProducerGo(c)  PROVE PullsLeft' < PullsLeft
    <2>1. c \notin Fetching /\ c \notin Sending
        BY <1>3, Zenon DEF ProducerGo, IInv, Shape, Active, Fetching, Sending
    <2>2. Fetching' = Fetching \cup {c} /\ Sending' = Sending
        <3>1. Fetching' = Fetching \cup {c} /\ Sending' = Sending \ {c}
            BY <1>3, <1>t, FetchMoves, Zenon DEF ProducerGo
        <3>2. QED  BY <2>1, <3>1, Zenon
    <2>3. Cardinality(Fetching') = Cardinality(Fetching) + 1
        BY <1>t, <2>1, <2>2, Counted, In, Zenon
    <2>4. Cardinality(next') = 0 /\ Cardinality(next) # 0
        BY <1>3, <1>t, Counted, FS_EmptySet, Zenon DEF ProducerGo
    <2>5. UNCHANGED <<todo, producer, pulledBatch>>
        BY <1>3, Zenon DEF ProducerGo
    <2>6. QED  BY <1>t, <2>2, <2>3, <2>4, <2>5, Sizes, Lighter, Zenon DEF PullsLeft
<1>4. ASSUME NEW c \in Collectors, Fetch(c)  PROVE PullsLeft' < PullsLeft
    <2>1. UNCHANGED <<todo, next, producer>>
        BY <1>4, Zenon DEF Fetch, FetchNothing, FetchLost, FetchOk, FetchStep, Send
    <2>2. CASE FetchStep(c, "none")
        <3>1. c \in Fetching /\ c \notin Sending /\ pulledBatch' = pulledBatch
            BY <2>2, Zenon DEF FetchStep, Fetching, Sending
        <3>2. Fetching' = Fetching \ {c} /\ Sending' = Sending
            <4>1. Fetching' = Fetching \ {c} /\ Sending' = Sending \ {c}
                BY <2>2, <1>t, FetchMoves, Zenon DEF FetchStep
            <4>2. QED  BY <3>1, <4>1, Zenon
        <3>3. Cardinality(Fetching') = Cardinality(Fetching) - 1
            BY <1>t, <3>1, <3>2, Counted, Out, Zenon
        <3>4. QED  BY <1>t, <2>1, <3>1, <3>2, <3>3, Sizes, Lighter, Zenon DEF PullsLeft
    <2>3. CASE FetchStep(c, "sending")
        <3>1. c \in Fetching /\ c \notin Sending /\ pulledBatch' = pulledBatch
            BY <2>3, Zenon DEF FetchStep, Fetching, Sending
        <3>2. Fetching' = Fetching \ {c} /\ Sending' = Sending \cup {c}
            BY <2>3, <1>t, FetchMoves, Zenon DEF FetchStep
        <3>3. /\ Cardinality(Fetching') = Cardinality(Fetching) - 1
              /\ Cardinality(Sending') = Cardinality(Sending) + 1
            BY <1>t, <3>1, <3>2, Counted, Out, In, Zenon
        <3>4. QED  BY <1>t, <2>1, <3>1, <3>3, Sizes, Lighter, Zenon DEF PullsLeft
    <2>4. CASE Send(c)
        <3>1. c \in Sending /\ c \notin Fetching
            BY <2>4, Zenon DEF Send, Fetching, Sending
        <3>2. Sending' = Sending \ {c} /\ Fetching' = Fetching
            <4>1. Sending' = Sending \ {c} /\ Fetching' = Fetching \ {c}
                BY <2>4, <1>t, FetchMoves, Zenon DEF Send
            <4>2. QED  BY <3>1, <4>1, Zenon
        <3>3. Cardinality(Sending') = Cardinality(Sending) - 1
            BY <1>t, <3>1, <3>2, Counted, Out, Zenon
        <3>4. Len(pulledBatch') = Len(pulledBatch) + 1
            BY <2>4, <1>t DEF Send, TypeOK
        <3>5. QED  BY <1>t, <2>1, <3>2, <3>3, <3>4, Sizes, Lighter, Zenon DEF PullsLeft
    <2>5. QED  BY <1>4, <2>2, <2>3, <2>4, Zenon DEF Fetch, FetchNothing, FetchLost, FetchOk
<1>5. QED  BY <1>0, <1>1, <1>2, <1>3, <1>4, Zenon DEF Producer

(* What each step takes from what is left to push.                          *)
LEMMA FewerPushes ==
    ASSUME NEW a \in Nat, NEW b \in Nat
    PROVE  /\ 2 * (a - 1) + (b + 1) + 1 < 2 * a + b + 1
           /\ 2 * a + (b - 1) + 1 < 2 * a + b + 1
           /\ 0 < 2 * a + b + 1
           /\ 2 * a + 0 + 1 < 2 * a + 2
OBVIOUS

(* Less of the one or of the other is less of both.                         *)
LEMMA LessOfOne ==
    ASSUME NEW p \in Nat, NEW q \in Nat, NEW u \in Nat, NEW v \in Nat,
           (u < p /\ v = q) \/ (u = p /\ v < q)
    PROVE  u + v < p + q
OBVIOUS

\* What is left is a number, after a step too.
LeftType == PullsLeft \in Nat /\ PushesLeft \in Nat

(* The types have it.                                                       *)
LEMMA LeftTypes == (TypeOK => LeftType) /\ (TypeOK' => LeftType')
<1>1. TypeOK => LeftType
    BY Sizes, Zenon DEF LeftType
<1>2. QED  BY <1>1, PTL

(* So does a step of export or of a push.                                   *)
LEMMA PushesAdvance ==
    ASSUME IInv, InRound, Export \/ \E s \in Sinks : PushEnds(s)
    PROVE  \/ PullsLeft' < PullsLeft /\ PushesLeft' = PushesLeft
           \/ PullsLeft' = PullsLeft /\ PushesLeft' < PushesLeft
<1>t. TypeOK
    BY Zenon DEF IInv
<1>u. UNCHANGED <<todo, next, producer, fetch>>
    BY Zenon DEF Export, ReceiveBuilt, ReceiveSkipped, Receive, ConsumeEnd, PushStart, End, Stop,
           PushEnds, PushReturns, fetching
<1>v. UNCHANGED <<todo, next, producer, Fetching, Sending>>
    BY <1>u, Zenon DEF Fetching, Sending
<1>w. pulledBatch' = pulledBatch => PullsLeft' = PullsLeft
    BY <1>v, Zenon DEF PullsLeft
<1>1. CASE Receive
    <2>1. Len(pulledBatch') = Len(pulledBatch) - 1
        BY <1>1, <1>t DEF Receive, TypeOK
    <2>2. PullsLeft' < PullsLeft
        BY <1>t, <1>v, <2>1, Sizes, Lighter, Zenon DEF PullsLeft
    <2>3. PushesLeft' = PushesLeft
        BY <1>1, Zenon DEF Receive, pushing, PushesLeft, Pushing
    <2>4. QED  BY <2>2, <2>3, Zenon
<1>2. CASE ConsumeEnd
    <2>1. Pushing = {} /\ Pushing' = Pushing /\ pulledBatch' = pulledBatch
        BY <1>2, Zenon DEF ConsumeEnd, IInv, Shape, Pushing
    <2>2. /\ PushesLeft = 2 * Cardinality(Sinks) + 2
          /\ PushesLeft' = 2 * Cardinality(Sinks) + 0 + 1
        BY <1>2, <2>1, NoGroups, Zenon DEF ConsumeEnd, PushesLeft
    <2>3. QED  BY <1>w, <1>t, <2>1, <2>2, Sizes, FewerPushes, Zenon
<1>3. ASSUME NEW s \in Sinks, PushStart(s)
      PROVE  PullsLeft' = PullsLeft /\ PushesLeft' < PushesLeft
    <2>1. s \notin Pushing /\ s \in sinksTodo
        BY <1>3, Zenon DEF PushStart, IInv, Shape
    <2>2. Pushing' = Pushing \cup {s} /\ sinksTodo' = sinksTodo \ {s}
        BY <1>3, <1>t, Zenon DEF PushStart, Pushing, TypeOK
    <2>3. /\ Cardinality(Pushing') = Cardinality(Pushing) + 1
          /\ Cardinality(sinksTodo') = Cardinality(sinksTodo) - 1
        BY <1>t, <2>1, <2>2, Counted, Out, In, Zenon
    <2>4. /\ PushesLeft = 2 * Cardinality(sinksTodo) + Cardinality(Pushing) + 1
          /\ PushesLeft' = 2 * (Cardinality(sinksTodo) - 1) + (Cardinality(Pushing) + 1) + 1
        BY <1>3, <2>3, Zenon DEF PushStart, PushesLeft
    <2>5. PushesLeft' < PushesLeft
        BY <1>t, <2>4, Sizes, FewerPushes, Zenon
    <2>6. QED  BY <1>3, <1>w, <2>5, Zenon DEF PushStart
<1>4. ASSUME NEW s \in Sinks, PushEnds(s)
      PROVE  PullsLeft' = PullsLeft /\ PushesLeft' < PushesLeft
    <2>1. s \in Pushing /\ epc = "push"
        BY <1>4, Zenon DEF PushEnds, PushReturns, Pushing, IInv, Shape
    <2>2. Pushing' = Pushing \ {s}
        BY <1>4, <1>t DEF PushEnds, PushReturns, Pushing, TypeOK
    <2>3. Cardinality(Pushing') = Cardinality(Pushing) - 1
        BY <1>t, <2>1, <2>2, Counted, Out, Zenon
    <2>4. UNCHANGED <<epc, sinksTodo, pulledBatch>>
        BY <1>4, Zenon DEF PushEnds, PushReturns
    <2>5. /\ PushesLeft = 2 * Cardinality(sinksTodo) + Cardinality(Pushing) + 1
          /\ PushesLeft' = 2 * Cardinality(sinksTodo) + (Cardinality(Pushing) - 1) + 1
        BY <2>1, <2>3, <2>4, Zenon DEF PushesLeft
    <2>6. PushesLeft' < PushesLeft
        BY <1>t, <2>5, Sizes, FewerPushes, Zenon
    <2>7. QED  BY <1>w, <2>4, <2>6, Zenon
<1>5. CASE End
    <2>1. /\ PushesLeft = 2 * Cardinality(sinksTodo) + Cardinality(Pushing) + 1
          /\ PushesLeft' = 0 /\ pulledBatch' = pulledBatch
        BY <1>5, Zenon DEF End, PushesLeft
    <2>2. PushesLeft' < PushesLeft
        BY <1>t, <2>1, Sizes, FewerPushes, Zenon
    <2>3. QED  BY <1>w, <2>1, <2>2, Zenon
<1>6. CASE Stop
    BY <1>6, Zenon DEF Stop, InRound
<1>7. QED
    BY <1>1, <1>2, <1>3, <1>4, <1>5, <1>6, Zenon DEF Export, ReceiveBuilt, ReceiveSkipped

(* A step of a goroutine in a round leaves fewer steps.                     *)
LEMMA WorkAdvances ==
    ASSUME IInv, IInv', InRound, Work
    PROVE  StepsLeft' < StepsLeft
<1>1. ~ \E S \in SUBSET Collectors : Begin(S)
    BY Zenon DEF Begin, InRound
<1>2. \/ PullsLeft' < PullsLeft /\ PushesLeft' = PushesLeft
      \/ PullsLeft' = PullsLeft /\ PushesLeft' < PushesLeft
    BY <1>1, PullsAdvance, PushesAdvance, Zenon DEF Work
<1>3. PullsLeft \in Nat /\ PushesLeft \in Nat
    BY Sizes, Zenon DEF IInv
<1>4. PullsLeft' \in Nat /\ PushesLeft' \in Nat
    BY LeftTypes, Zenon DEF IInv, LeftType
<1>5. QED  BY <1>2, <1>3, <1>4, LessOfOne, Zenon DEF StepsLeft

(* No step of a round is without effect on what is left of it, for any      *)
(* collectors, sinks and limits.                                            *)
THEOREM RoundsAdvance == Spec => RoundAdvances
<1>1. IInv /\ IInv' /\ [Next]_vars => [InRound /\ Work => StepsLeft' < StepsLeft]_vars
    BY WorkAdvances, Zenon
<1>2. QED  BY <1>1, AlwaysIInv, PTL DEF Spec, RoundAdvances

(* What is left after a step that does no work.                             *)
LEMMA BoundStep ==
    ASSUME IInv, IInv', RoundBounded, [Next]_vars
    PROVE  RoundBounded'
<1>1. MaxSteps \in Nat /\ StepsLeft \in 0..MaxSteps /\ StepsLeft' \in Nat
    <2>1. Cardinality(Sinks) \in Nat /\ Cardinality(Collectors) \in Nat
        BY Sizes, Zenon DEF IInv
    <2>2. PullsLeft' \in Nat /\ PushesLeft' \in Nat
        BY LeftTypes, Zenon DEF IInv, LeftType
    <2>3. \A n, k \in Nat : 5 * n + 2 * k + 3 \in Nat /\ n + k \in Nat
        OBVIOUS
    <2>4. QED  BY <2>1, <2>2, <2>3, Zenon DEF MaxSteps, StepsLeft, RoundBounded
<1>2. CASE InRound /\ Work
    <2>1. StepsLeft' < StepsLeft
        BY <1>2, WorkAdvances, Zenon
    <2>2. QED  BY <1>1, <2>1 DEF RoundBounded
<1>3. ASSUME NEW S \in SUBSET Collectors, Begin(S)  PROVE RoundBounded'
    <2>1. /\ Fetching' = {} /\ Sending' = {} /\ next' = {} /\ Len(pulledBatch') = 0
          /\ todo' = S /\ producer' = "loop" /\ epc' = "consume"
        BY <1>3 DEF Begin, Fetching, Sending
    <2>2. Loops(producer') = 1
        BY <2>1, Zenon DEF Loops
    <2>3. PICK s \in Nat, n \in Nat, k \in Nat :
              s = Cardinality(S) /\ n = Cardinality(Collectors) /\ k = Cardinality(Sinks) /\ s <= n
        BY FS_Subset, FS_CardinalityType, ExportAssumption, Zenon
    <2>4. PullsLeft' = Weigh(s, 0, 0, 0, 0, 1) /\ PushesLeft' = 2 * k + 2
        BY <2>1, <2>2, <2>3, NoGroups, Zenon DEF PullsLeft, PushesLeft
    <2>5. Weigh(s, 0, 0, 0, 0, 1) + (2 * k + 2) \in 0..(5 * n + 2 * k + 3)
        BY <2>3 DEF Weigh
    <2>6. QED  BY <2>3, <2>4, <2>5, Zenon DEF RoundBounded, StepsLeft, MaxSteps
<1>4. CASE Die
    <2>1. /\ Fetching' = {} /\ Sending' = {} /\ next' = {} /\ todo' = {} /\ Len(pulledBatch') = 0
          /\ producer' = "none" /\ epc' = "idle"
        BY <1>4 DEF Die, ProcessEnds, Fetching, Sending
    <2>2. Loops(producer') = 0 /\ Weigh(0, 0, 0, 0, 0, 0) + 0 = 0
        BY <2>1 DEF Loops, Weigh
    <2>3. PullsLeft' = Weigh(0, 0, 0, 0, 0, 0) /\ PushesLeft' = 0
        BY <2>1, <2>2, NoGroups, Zenon DEF PullsLeft, PushesLeft
    <2>4. StepsLeft' = 0
        BY <2>2, <2>3, Zenon DEF StepsLeft
    <2>5. QED  BY <1>1, <2>4 DEF RoundBounded
<1>5. CASE Cancel \/ UNCHANGED vars
    <2>1. UNCHANGED <<epc, todo, next, producer, fetch, pulledBatch, sinksTodo, push>>
        BY <1>5, Zenon DEF Cancel, vars, fetching, pushing
    <2>2. QED
        BY <2>1, Zenon DEF RoundBounded, StepsLeft, PullsLeft, PushesLeft, Fetching, Sending, Pushing
<1>6. CASE Work /\ epc \in {"idle", "stopped"}
    <2>1. Stop \/ \E S \in SUBSET Collectors : Begin(S)
        BY <1>6, Zenon DEF Work, IInv, Shape, Active, Pushing, Producer, AtLoopHead, ProducerQuit,
               ProducerClose, ProducerPick, ProducerGo, Fetch, FetchNothing, FetchLost, FetchOk,
               FetchStep, Send, Export, ReceiveBuilt, ReceiveSkipped, Receive, ConsumeEnd, PushStart,
               PushEnds, PushReturns, End
    <2>2. CASE Stop
        <3>1. UNCHANGED <<todo, next, producer, fetch, pulledBatch, sinksTodo, push>>
            BY <2>2, Zenon DEF Stop, fetching, pushing
        <3>2. PullsLeft' = PullsLeft
            BY <3>1, Zenon DEF PullsLeft, Fetching, Sending
        <3>3. PushesLeft' = 0 /\ PushesLeft = 0
            BY <2>2, Zenon DEF Stop, PushesLeft
        <3>4. QED  BY <3>2, <3>3, Zenon DEF RoundBounded, StepsLeft
    <2>3. QED  BY <1>3, <2>1, <2>2, Zenon
<1>7. QED
    BY <1>2, <1>3, <1>4, <1>5, <1>6, Zenon DEF Next, InRound, IInv, TypeOK

(* A round takes at most five steps for each collector, two for each sink   *)
(* and three more.                                                          *)
THEOREM RoundsAreBounded == Spec => []RoundBounded
<1>1. Init => RoundBounded
    <2> SUFFICES ASSUME Init PROVE RoundBounded
        OBVIOUS
    <2>1. /\ Fetching = {} /\ Sending = {} /\ next = {} /\ todo = {} /\ Len(pulledBatch) = 0
          /\ producer = "none" /\ epc = "idle"
        BY DEF Init, Fetching, Sending
    <2>2. Loops(producer) = 0 /\ Weigh(0, 0, 0, 0, 0, 0) + 0 = 0
        BY <2>1 DEF Loops, Weigh
    <2>3. StepsLeft = 0
        BY <2>1, <2>2, NoGroups, Zenon DEF PullsLeft, PushesLeft, StepsLeft
    <2>4. Cardinality(Collectors) \in Nat /\ Cardinality(Sinks) \in Nat
        BY FS_CardinalityType, ExportAssumption, Zenon
    <2>5. QED  BY <2>3, <2>4 DEF RoundBounded, MaxSteps
<1>2. IInv /\ IInv' /\ RoundBounded /\ [Next]_vars => RoundBounded'
    BY BoundStep, Zenon
<1>3. QED  BY <1>1, <1>2, AlwaysIInv, PTL DEF Spec

(* All of it holds of the rounds of the program, with signals and exits.    *)
THEOREM ProgramAdvances == ProgramSpec => [](NeverStuck /\ RoundBounded) /\ RoundAdvances
BY ProgramImplementsRounds, RoundNeverStuck, RoundsAreBounded, RoundsAdvance, PTL
=============================================================================
