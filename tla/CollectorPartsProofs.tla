------------------------- MODULE CollectorPartsProofs -------------------------
(***************************************************************************)
(* The parts of the collector around collect: its program, the kernel's    *)
(* clock, and what the conntrack clients list.                             *)
(***************************************************************************)
EXTENDS CollectorProgram, KernelClock, NodeTraffic, TLAPS

-----------------------------------------------------------------------------
(* CollectorProgram. *)

\* A signal came, or run has received the error of a component.
Told == sig \in {"shutdown", "done"} \/ result = "error"

\* Whatever may let run return, another component stop or errc be closed has
\* come from a signal or from an error that run received.
ProgramInv ==
    /\ comp \in [Components -> {"off", "running", "sending", "closing", "ended"}]
    /\ mpc = "starting" => sig = "off"
    /\ result = "error" => mpc = "returned"
    /\ ctxDone => Told
    /\ errc = "closed" => Told
    /\ mpc = "returned" => Told
    /\ exit # "none" => Told
    /\ \A c \in Components : comp[c] \in {"closing", "ended"} => Told

\* Steps around mu change nothing else.
LEMMA LockingKeeps ==
    ASSUME Locking
    PROVE  /\ mpc' = mpc /\ result' = result /\ caches' = caches /\ comp' = comp
           /\ errc' = errc /\ ctxDone' = ctxDone /\ sig' = sig /\ exit' = exit
BY Zenon DEF Locking, CollectCalled, CollectLock, CollectReturns, RequestComes, HandlerLock,
             HandlerStep, HandlerRecords, HandlerPanics, HandlerReturns, others

LEMMA ProgramStep == ProgramInv /\ [ProgramNext]_programVars => ProgramInv'
<1> SUFFICES ASSUME ProgramInv, [ProgramNext]_programVars PROVE ProgramInv'
  OBVIOUS
<1> USE DEF ProgramInv, Told
<1>1. CASE UNCHANGED programVars
  BY <1>1, Zenon DEF programVars
<1>2. CASE StartFails
  BY <1>2, Zenon DEF StartFails
<1>3. ASSUME NEW withTracer \in BOOLEAN, StartUp(withTracer) PROVE ProgramInv'
  BY <1>3, Zenon DEF StartUp
<1>4. CASE Main
  BY <1>4, Zenon DEF Main, ReturnNil, Exit
<1>5. CASE Signal \/ SignalCancels
  BY <1>5, Zenon DEF Signal, SignalCancels
<1>6. CASE MakeCaches
  BY <1>6, Zenon DEF MakeCaches
<1>7. ASSUME NEW c \in Components, Fails(c) PROVE ProgramInv'
  BY <1>7, Zenon DEF Fails, Goes
<1>8. ASSUME NEW c \in Components, Stops(c) PROVE ProgramInv'
  BY <1>8, Zenon DEF Stops, Goes
<1>9. ASSUME NEW c \in Components, SendErr(c) PROVE ProgramInv'
  BY <1>9, Zenon DEF SendErr, Panic, Goes
<1>10. ASSUME NEW c \in Components, CloseErrc(c) PROVE ProgramInv'
  BY <1>10, Zenon DEF CloseErrc, Panic, Goes
<1>11. CASE Locking
  <2>1. /\ mpc' = mpc /\ result' = result /\ comp' = comp
        /\ errc' = errc /\ ctxDone' = ctxDone /\ sig' = sig /\ exit' = exit
    BY <1>11, LockingKeeps, Zenon
  <2> QED
    BY <2>1
<1> QED
  BY <1>1, <1>2, <1>3, <1>4, <1>5, <1>6, <1>7, <1>8, <1>9, <1>10, <1>11, Zenon
     DEF ProgramNext, Leaves

(* The collector's process ends only after a signal or with the error of a  *)
(* component that run has received, in whatever order its goroutines fail,  *)
(* stop, send to errc and close it.                                         *)
THEOREM CollectorEndsForAReason == ProgramSpec => []EndsForAReason
<1>1. ProgramInit => ProgramInv
  BY Zenon DEF ProgramInit, ProgramInv
<1>2. ProgramInv => EndsForAReason
  BY DEF ProgramInv, EndsForAReason, Told
<1> QED
  BY <1>1, <1>2, ProgramStep, PTL DEF ProgramSpec

\* What ProgramEnds needs besides fairness: the end has begun when a signal came or a
\* component does not run any more.
Ending == sig = "shutdown" \/ \E c \in Components : comp[c] \notin {"off", "running"}

\* A component that was started is waited for by run, and has closed errc if it ended.
EndingInv ==
    /\ comp \in [Components -> {"off", "running", "sending", "closing", "ended"}]
    /\ mpc \in {"starting", "waiting", "returned"}
    /\ mpc = "starting" => sig = "off" /\ \A c \in Components : comp[c] = "off"
    /\ errc \in {"open", "closed"}
    /\ \A c \in Components : comp[c] = "ended" => errc = "closed"
    /\ sig \in {"off", "waiting", "shutdown", "done"} /\ caches \in BOOLEAN

\* Guards of steps that fairness is assumed of; none of them needs mu or the caches.
EndReady ==
    \/ mpc = "waiting" /\ errc = "closed"                           \* ReturnNil
    \/ mpc = "returned"                                             \* Exit
    \/ sig = "shutdown"                                             \* SignalCancels
    \/ \E c \in Components :
           \/ comp[c] = "sending" /\ (errc = "closed" \/ mpc = "waiting")   \* SendErr
           \/ comp[c] = "closing"                                           \* CloseErrc

(* A process whose end has begun has a goroutine that can go on.            *)
NeverHangs == Ending /\ exit = "none" => EndReady

\* Steps a goroutine has left at most.
Togo(state) ==
    IF state \in {"off", "running"} THEN 3
    ELSE IF state = "sending" THEN 2 ELSE IF state = "closing" THEN 1 ELSE 0

CompLeft == Togo(comp["ip2dns"]) + Togo(comp["coll"]) + Togo(comp["srv"])

MainLeft ==
    (IF sig = "done" THEN 0 ELSE IF sig = "shutdown" THEN 1 ELSE 2)
        + (IF mpc = "returned" THEN 0 ELSE 1) + (IF caches THEN 0 ELSE 1)
        + (IF exit = "none" THEN 1 ELSE 0)

\* Steps the process has left at most, besides its start and those of collects and
\* requests.
EndLeft == CompLeft + MainLeft

(* Each step brings the process nearer to its end, except that it starts    *)
(* once and that collects and requests come and go.                         *)
EndAdvances ==
    [][\/ EndLeft' < EndLeft
       \/ EndLeft' = EndLeft /\ (mpc = "starting" \/ locking' # locking)]_programVars

LEMMA EndingStep == EndingInv /\ [ProgramNext]_programVars => EndingInv'
<1> SUFFICES ASSUME EndingInv, [ProgramNext]_programVars PROVE EndingInv'
  OBVIOUS
<1> USE DEF EndingInv
<1>1. CASE UNCHANGED programVars
  BY <1>1, Zenon DEF programVars
<1>2. CASE StartFails
  BY <1>2, Zenon DEF StartFails
<1>3. ASSUME NEW withTracer \in BOOLEAN, StartUp(withTracer) PROVE EndingInv'
  BY <1>3, Zenon DEF StartUp
<1>4. CASE Main
  BY <1>4, Zenon DEF Main, ReturnNil, Exit
<1>5. CASE Signal \/ SignalCancels
  BY <1>5, Zenon DEF Signal, SignalCancels
<1>6. CASE MakeCaches
  BY <1>6, Zenon DEF MakeCaches
<1>7. ASSUME NEW c \in Components, Fails(c) PROVE EndingInv'
  BY <1>7, Zenon DEF Fails, Goes
<1>8. ASSUME NEW c \in Components, Stops(c) PROVE EndingInv'
  BY <1>8, Zenon DEF Stops, Goes
<1>9. ASSUME NEW c \in Components, SendErr(c) PROVE EndingInv'
  BY <1>9, Zenon DEF SendErr, Panic, Goes
<1>10. ASSUME NEW c \in Components, CloseErrc(c) PROVE EndingInv'
  BY <1>10, Zenon DEF CloseErrc, Panic, Goes
<1>11. CASE Locking
  BY <1>11, LockingKeeps, Zenon
<1> QED
  BY <1>1, <1>2, <1>3, <1>4, <1>5, <1>6, <1>7, <1>8, <1>9, <1>10, <1>11, Zenon
     DEF ProgramNext, Leaves

\* A component that goes on has fewer steps left; the others have as many.
LEMMA GoesOn ==
    ASSUME EndingInv, NEW c \in Components, NEW from, NEW to, Goes(c, from, to), Togo(to) < Togo(from)
    PROVE  CompLeft' < CompLeft
<1>1. PICK f, g : f = comp /\ g = comp'
  OBVIOUS
<1>2. /\ f[c] = from /\ g[c] = to
      /\ \A d \in Components : d # c => g[d] = f[d]
  BY <1>1, Zenon DEF Goes, EndingInv
<1>3. \A state : Togo(state) \in 0..3
  BY DEF Togo
<1>4. PICK a, b, d : a = Togo(f["ip2dns"]) /\ b = Togo(f["coll"]) /\ d = Togo(f["srv"])
  BY Zenon
<1>5. PICK x, y, z : x = Togo(g["ip2dns"]) /\ y = Togo(g["coll"]) /\ z = Togo(g["srv"])
  BY Zenon
<1>6. \/ x < a /\ y = b /\ z = d
      \/ x = a /\ y < b /\ z = d
      \/ x = a /\ y = b /\ z < d
  BY <1>2, <1>4, <1>5, Zenon DEF Components
<1>7. {a, b, d, x, y, z} \subseteq 0..3
  BY <1>3, <1>4, <1>5, Zenon
<1>8. x + y + z < a + b + d
  BY <1>6, <1>7
<1> QED
  BY <1>1, <1>4, <1>5, <1>8, Zenon DEF CompLeft

LEMMA LeftNat ==
    /\ CompLeft \in Nat /\ CompLeft <= 9 /\ MainLeft \in Nat /\ MainLeft <= 5
    /\ CompLeft' \in Nat /\ MainLeft' \in Nat
<1>1. \A state : Togo(state) \in 0..3
  BY DEF Togo
<1>2. CompLeft \in Nat /\ CompLeft <= 9 /\ CompLeft' \in Nat
  BY <1>1 DEF CompLeft
<1>3. MainLeft \in Nat /\ MainLeft <= 5 /\ MainLeft' \in Nat
  BY DEF MainLeft
<1> QED
  BY <1>2, <1>3, Zenon

LEMMA LeftLess ==
    ASSUME \/ CompLeft' < CompLeft /\ MainLeft' <= MainLeft
           \/ CompLeft' <= CompLeft /\ MainLeft' < MainLeft
    PROVE  EndLeft' < EndLeft
<1>1. PICK a, b, x, y : a = CompLeft /\ b = MainLeft /\ x = CompLeft' /\ y = MainLeft'
  BY Zenon
<1>2. a \in Nat /\ b \in Nat
  BY <1>1, LeftNat, Zenon
<1>3. x \in Nat /\ y \in Nat
  BY <1>1, LeftNat, Zenon
<1>4. (x < a /\ y <= b) \/ (x <= a /\ y < b)
  BY <1>1, Zenon
<1>5. x + y < a + b
  BY <1>2, <1>3, <1>4
<1> QED
  BY <1>1, <1>5, Zenon DEF EndLeft

LEMMA LockingMoves == Locking => locking' # locking
BY Zenon DEF Locking, CollectCalled, CollectLock, CollectReturns, RequestComes, HandlerLock,
             HandlerStep, HandlerRecords, HandlerPanics, HandlerReturns, locking

LEMMA EndStep ==
    ASSUME EndingInv, ProgramNext
    PROVE  EndLeft' < EndLeft \/ (EndLeft' = EndLeft /\ (mpc = "starting" \/ locking' # locking))
<1>0. exit = "none" /\ CompLeft \in Nat /\ MainLeft \in Nat
  BY LeftNat, Zenon DEF ProgramNext
<1> DEFINE G == EndLeft' < EndLeft
<1>1. CASE StartFails
  <2>1. UNCHANGED comp /\ MainLeft' < MainLeft
    BY <1>1 DEF StartFails, MainLeft
  <2>2. CompLeft' <= CompLeft
    BY <1>0, <2>1 DEF CompLeft
  <2> QED
    BY <2>1, <2>2, LeftLess, Zenon
<1>2. ASSUME NEW withTracer \in BOOLEAN, StartUp(withTracer) PROVE EndLeft' = EndLeft /\ mpc = "starting"
  <2>1. mpc = "starting" /\ sig = "off" /\ \A c \in Components : comp[c] = "off" /\ comp'[c] = "running"
    BY <1>2, Zenon DEF StartUp, EndingInv
  <2>2. CompLeft' = CompLeft
    BY <2>1, Zenon DEF CompLeft, Togo, Components
  <2>3. MainLeft' = MainLeft
    BY <1>2, <2>1 DEF StartUp, MainLeft
  <2> QED
    BY <2>1, <2>2, <2>3, Zenon DEF EndLeft
<1>3. CASE Main \/ Signal \/ SignalCancels \/ MakeCaches
  <2>1. UNCHANGED comp
    BY <1>3, Zenon DEF Main, ReturnNil, Exit, Signal, SignalCancels, MakeCaches
  <2>2. CompLeft' <= CompLeft
    BY <1>0, <2>1 DEF CompLeft
  <2>3. ASSUME ReturnNil PROVE MainLeft' < MainLeft
    BY <2>3 DEF ReturnNil, MainLeft
  <2>4. ASSUME Exit PROVE MainLeft' < MainLeft
    BY <1>0, <2>4 DEF Exit, MainLeft
  <2>5. ASSUME Signal PROVE MainLeft' < MainLeft
    BY <2>5 DEF Signal, MainLeft
  <2>6. ASSUME SignalCancels PROVE MainLeft' < MainLeft
    BY <2>6 DEF SignalCancels, MainLeft
  <2>7. ASSUME MakeCaches PROVE MainLeft' < MainLeft
    BY <2>7 DEF MakeCaches, MainLeft
  <2> QED
    BY <1>3, <2>2, <2>3, <2>4, <2>5, <2>6, <2>7, LeftLess, Zenon DEF Main
<1>4. Togo("sending") < Togo("running") /\ Togo("closing") < Togo("running")
  BY DEF Togo
<1>5. Togo("closing") < Togo("sending") /\ Togo("ended") < Togo("closing")
  BY DEF Togo
<1>6. ASSUME UNCHANGED <<sig, caches, exit>>, mpc' = mpc \/ mpc' = "returned"
      PROVE  MainLeft' <= MainLeft
  BY <1>6 DEF MainLeft
<1>7. ASSUME NEW c \in Components, Fails(c) PROVE G
  <2>1. Goes(c, "running", "sending") /\ UNCHANGED <<sig, caches, exit>> /\ mpc' = mpc
    BY <1>7, Zenon DEF Fails
  <2> QED
    BY <1>4, <1>6, <2>1, GoesOn, LeftLess, Zenon
<1>8. ASSUME NEW c \in Components, Stops(c) PROVE G
  <2>1. Goes(c, "running", "closing") /\ UNCHANGED <<sig, caches, exit>> /\ mpc' = mpc
    BY <1>8, Zenon DEF Stops
  <2> QED
    BY <1>4, <1>6, <2>1, GoesOn, LeftLess, Zenon
<1>9. ASSUME Panic, UNCHANGED <<caches, sig>> PROVE G
  <2>1. MainLeft' < MainLeft
    BY <1>0, <1>9 DEF Panic, MainLeft
  <2>2. CompLeft' <= CompLeft
    BY <1>0, <1>9 DEF Panic, CompLeft
  <2> QED
    BY <2>1, <2>2, LeftLess, Zenon
<1>10. ASSUME NEW c \in Components, SendErr(c) PROVE G
  <2>1. CASE Panic
    BY <1>9, <1>10, <2>1, Zenon DEF SendErr
  <2>2. CASE ~Panic
    <3>1. Goes(c, "sending", "closing") /\ UNCHANGED <<sig, caches, exit>> /\ mpc' = "returned"
      BY <1>10, <2>2, Zenon DEF SendErr
    <3> QED
      BY <1>5, <1>6, <3>1, GoesOn, LeftLess, Zenon
  <2> QED
    BY <2>1, <2>2, Zenon
<1>11. ASSUME NEW c \in Components, CloseErrc(c) PROVE G
  <2>1. CASE Panic
    BY <1>9, <1>11, <2>1, Zenon DEF CloseErrc
  <2>2. CASE ~Panic
    <3>1. Goes(c, "closing", "ended") /\ UNCHANGED <<sig, caches, exit>> /\ mpc' = mpc
      BY <1>11, <2>2, Zenon DEF CloseErrc
    <3> QED
      BY <1>5, <1>6, <3>1, GoesOn, LeftLess, Zenon
  <2> QED
    BY <2>1, <2>2, Zenon
<1>12. ASSUME Locking PROVE EndLeft' = EndLeft /\ locking' # locking
  <2>1. locking' # locking
    BY <1>12, LockingMoves, Zenon
  <2>2. UNCHANGED <<mpc, caches, comp, sig, exit>>
    BY <1>12, LockingKeeps, Zenon
  <2> QED
    BY <2>1, <2>2, Zenon DEF EndLeft, CompLeft, MainLeft
<1> QED
  BY <1>1, <1>2, <1>3, <1>7, <1>8, <1>10, <1>11, <1>12, Zenon DEF ProgramNext, Leaves

(* Once a signal came or a component has ended, the collector's goroutines  *)
(* do not wait for each other in a circle: a send to errc is received or    *)
(* panics, whoever holds mu.  And no step but the start and those of        *)
(* collects and requests can be taken without coming nearer to the end,     *)
(* which is at most 14 steps away.                                          *)
THEOREM CollectorGoesToItsEnd ==
    ProgramSpec => [](NeverHangs /\ EndLeft \in 0..14) /\ EndAdvances
<1>1. ProgramInit => EndingInv
  BY Zenon DEF ProgramInit, EndingInv
<1>2. EndingInv => NeverHangs
  BY Zenon DEF EndingInv, NeverHangs, Ending, EndReady, Components
<1>3. EndLeft \in 0..14
  BY LeftNat DEF EndLeft
<1>4. EndingInv /\ [ProgramNext]_programVars
        => [\/ EndLeft' < EndLeft
            \/ EndLeft' = EndLeft /\ (mpc = "starting" \/ locking' # locking)]_programVars
  BY EndStep, Zenon
<1> QED
  BY <1>1, <1>2, <1>3, <1>4, EndingStep, PTL DEF ProgramSpec, EndAdvances

-----------------------------------------------------------------------------
(* KernelClock. *)

\* Which readings nearest takes for which CONFIG_HZ; of two values at the same
\* distance the larger wins.
LEMMA NearestFacts ==
    ASSUME NEW in \in Nat, in <= MaxUint16
    PROVE  /\ in >= 650 => nearest(in) = 1000
           /\ 275 <= in /\ in < 650 => nearest(in) = 300
           /\ 175 <= in /\ in < 275 => nearest(in) = 250
           /\ in < 175 => nearest(in) = 100
<1>1. hzValues[1] = 1000 /\ hzValues[2] = 300 /\ hzValues[3] = 250 /\ hzValues[4] = 100
  BY DEF hzValues
<1> DEFINE b0 == [min |-> 65535, out |-> 0]
           b1 == closer(in, b0, 1000)
           b2 == closer(in, b1, 300)
           b3 == closer(in, b2, 250)
           b4 == closer(in, b3, 100)
<1>2. nearest(in) = b4.out
  BY <1>1 DEF nearest, MaxUint16
<1>3. in \in Int /\ 0 <= in /\ in <= 65535
  BY DEF MaxUint16
<1>4. ASSUME NEW m \in Int, NEW o \in Int, NEW v \in Int, v <= 1000
      PROVE  closer(in, [min |-> m, out |-> o], v) =
                 IF v - m < in /\ in < v + m THEN [min |-> IF in < v THEN v - in ELSE in - v, out |-> v]
                                            ELSE [min |-> m, out |-> o]
  BY <1>3 DEF closer, distance
<1>5. b1 = [min |-> IF in < 1000 THEN 1000 - in ELSE in - 1000, out |-> 1000]
  BY <1>3, <1>4
<1> HIDE DEF b1
<1>6. b2 = IF in < 650 THEN [min |-> IF in < 300 THEN 300 - in ELSE in - 300, out |-> 300] ELSE b1
  BY <1>3, <1>4, <1>5
<1> HIDE DEF b2
<1>7. b3 = IF in < 275 THEN [min |-> IF in < 250 THEN 250 - in ELSE in - 250, out |-> 250] ELSE b2
  BY <1>3, <1>4, <1>5, <1>6
<1> HIDE DEF b3
<1>8. b4 = IF in < 175 THEN [min |-> IF in < 100 THEN 100 - in ELSE in - 100, out |-> 100] ELSE b3
  BY <1>3, <1>4, <1>5, <1>6, <1>7
<1> QED
  BY <1>2, <1>3, <1>5, <1>6, <1>7, <1>8

\* Integer division.
LEMMA Quotient ==
    ASSUME NEW n \in Nat, NEW d \in Nat, d > 0
    PROVE  n \div d \in Nat /\ (n \div d) * d <= n /\ n < (n \div d) * d + d
  OBVIOUS

\* A quotient compared with a bound.
LEMMA Times ==
    ASSUME NEW q \in Nat, NEW d \in Nat, NEW b \in Nat
    PROVE  /\ q <= b => q * d <= b * d
           /\ q >= b => q * d >= b * d
  OBVIOUS

\* kd ticks in td ms of a kernel of c Hz, j ticks off at most.
Reading(c, td, kd, j) ==
    /\ td >= 100 /\ 1000 * (j + 1) <= 24 * td
    /\ (c * td) \div 1000 - j <= kd /\ kd <= (c * td) \div 1000 + j

\* Rounding and the jitter move the frequency by no more than half the distance
\* between 250 and 300, and by less upwards; 275, in the middle, is taken for 300.
LEMMA InterpolateFacts ==
    ASSUME NEW c \in Nat, NEW td \in Nat, NEW kd \in Nat, NEW j \in Nat, Reading(c, td, kd, j)
    PROVE  /\ interpolate(kd, td) \in Nat
           /\ interpolate(kd, td) <= c + 24 /\ c - 25 <= interpolate(kd, td)
<1> DEFINE q == interpolate(kd, td)
           t == (c * td) \div 1000
<1> USE DEF Reading
<1>1. c * td \in Nat
  OBVIOUS
<1>2. t \in Nat /\ t * 1000 <= c * td /\ c * td < t * 1000 + 1000
  BY <1>1, Quotient
<1>3. q \in Nat /\ q * (2 * td) <= 2000 * kd + td /\ 2000 * kd + td < q * (2 * td) + 2 * td
  <2>1. 2000 * kd + td \in Nat /\ 2 * td \in Nat /\ 2 * td > 0
    OBVIOUS
  <2>2. q = (2000 * kd + td) \div (2 * td)
    BY DEF interpolate
  <2> HIDE DEF q
  <2> QED
    BY <2>1, <2>2, Quotient
<1>4. t - j <= kd /\ kd <= t + j
  OBVIOUS
<1> HIDE DEF q, t
<1>5. 2000 * kd <= 2 * (c * td) + 48 * td - 2000 /\ 2 * (c * td) - 48 * td < 2000 * kd
  <2> DEFINE p == c * td
  <2>1. p \in Nat /\ t * 1000 <= p /\ p < t * 1000 + 1000
    BY <1>1, <1>2
  <2> HIDE DEF p
  <2>2. 2000 * kd <= 2 * p + 48 * td - 2000 /\ 2 * p - 48 * td < 2000 * kd
    BY <1>2, <1>4, <2>1
  <2> QED
    BY <2>2 DEF p
<1>6. q * (2 * td) = 2 * (q * td) /\ q * td \in Nat
  BY <1>3
<1>7. q * td < c * td + 25 * td /\ c * td < q * td + 26 * td
  BY <1>1, <1>3, <1>5, <1>6
<1>8. q <= c + 24
  <2> SUFFICES ASSUME q >= c + 25 PROVE FALSE
    BY <1>3
  <2>1. q * td >= (c + 25) * td
    BY <1>3, Times
  <2>2. (c + 25) * td = c * td + 25 * td
    OBVIOUS
  <2> QED
    BY <1>1, <1>6, <1>7, <2>1, <2>2
<1>9. c <= q + 25
  <2> SUFFICES ASSUME c >= q + 26 PROVE FALSE
    BY <1>3
  <2>1. c * td >= (q + 26) * td
    BY <1>3, Times
  <2>2. (q + 26) * td = q * td + 26 * td
    BY <1>3
  <2> QED
    BY <1>1, <1>6, <1>7, <2>1, <2>2
<1> QED
  BY <1>3, <1>8, <1>9 DEF q

LEMMA ValuesFacts == Values = {1000, 300, 250, 100}
<1>1. hzValues[1] = 1000 /\ hzValues[2] = 300 /\ hzValues[3] = 250 /\ hzValues[4] = 100
  BY Zenon DEF hzValues
<1>2. 1..4 = {1, 2, 3, 4}
  OBVIOUS
<1> QED
  BY <1>1, <1>2 DEF Values

\* What getKernelHZ measures.
LEMMA Measures ==
    ASSUME config \in Values, NEW td \in Elapsed, NEW kd \in Ticks(td)
    PROVE  ~(interpolate(kd, td) > MaxUint16) /\ nearest(interpolate(kd, td)) = config
<1>1. td \in Nat /\ td >= 100 /\ Jitter \in Nat /\ 1000 * (Jitter + 1) <= 24 * td
  BY ClockAssumption, SteadyAssumption
<1>2. PICK c : c = config
  OBVIOUS
<1>3. c \in {1000, 300, 250, 100} /\ c \in Nat /\ c <= 1000
  BY <1>2, ValuesFacts
<1>4. kd \in Nat /\ (c * td) \div 1000 - Jitter <= kd /\ kd <= (c * td) \div 1000 + Jitter
  <2>1. kd \in (c * td) \div 1000 - Jitter .. (c * td) \div 1000 + Jitter /\ kd >= 0
    BY <1>2 DEF Ticks
  <2>2. c * td \in Nat
    BY <1>1, <1>3
  <2>3. (c * td) \div 1000 \in Nat
    BY <2>2, Quotient
  <2> QED
    BY <1>1, <2>1, <2>3
<1>5. Reading(c, td, kd, Jitter)
  BY <1>1, <1>4 DEF Reading
<1>6. PICK q : q = interpolate(kd, td)
  OBVIOUS
<1>7. q \in Nat /\ q <= c + 24 /\ c - 25 <= q
  BY <1>1, <1>3, <1>4, <1>5, <1>6, InterpolateFacts
<1>8. q <= MaxUint16 /\ ~(q > MaxUint16)
  BY <1>3, <1>7 DEF MaxUint16
<1>9. nearest(q) = c
  BY <1>3, <1>7, <1>8, NearestFacts
<1> QED
  BY <1>2, <1>6, <1>8, <1>9, Zenon

\* What an entry has left was converted with the hertz of now, which never changes.
ClockInv ==
    /\ config \in Values /\ source \in {"ktime", "jiffies"}
    /\ left \in Int /\ hertz \in Values \cup {0, 1}
    /\ hertz = 0 => read = <<>> /\ left = 0 /\ expire = 0
    /\ hertz # 0 => expire = timeDiff(left)
    /\ HertzMeasured

LEMMA NothingLeft ==
    ASSUME ClockInv, hertz = 0
    PROVE  \A h \in Values \cup {1} : Div(0 * 256, h) = 0
  BY ValuesFacts DEF Div

LEMMA ClockStep == ClockInv /\ [ClockNext]_clockVars => ClockInv'
<1> SUFFICES ASSUME ClockInv, [ClockNext]_clockVars PROVE ClockInv'
  OBVIOUS
<1> USE DEF ClockInv
<1>1. CASE UNCHANGED clockVars
  BY <1>1, Zenon DEF clockVars, HertzMeasured, timeDiff
<1>2. ASSUME NEW td \in Elapsed, NEW kd \in Ticks(td), getKernelHZ(kd, td) PROVE ClockInv'
  <2>1. hertz = 0 /\ hertz' = config /\ UNCHANGED <<config, source, left, expire>>
    BY <1>2, Measures, Zenon DEF getKernelHZ
  <2>2. config # 0 /\ config \in Values
    BY ValuesFacts
  <2>3. expire' = timeDiff(left)'
    BY <2>1, <2>2, NothingLeft DEF timeDiff
  <2> QED
    BY <2>1, <2>2, <2>3, Zenon DEF HertzMeasured
<1>3. CASE noTimestamp
  <2>1. hertz = 0 /\ hertz' = 1 /\ UNCHANGED <<config, source, read, left, expire>>
    BY <1>3, Zenon DEF noTimestamp
  <2>2. expire' = timeDiff(left)'
    BY <2>1, NothingLeft DEF timeDiff
  <2> QED
    BY <2>1, <2>2, Zenon DEF HertzMeasured
<1>4. ASSUME NEW u \in Lives, ListRecord(u) PROVE ClockInv'
  <2>1. u \in Int
    BY ClockAssumption, Zenon
  <2> QED
    BY <1>4, <2>1, Zenon DEF ListRecord, timeDiff, HertzMeasured
<1> QED
  BY <1>1, <1>2, <1>3, <1>4, Zenon DEF ClockNext

LEMMA ClockInvariance == ClockSpec => []ClockInv
<1>1. ClockInit => ClockInv
  BY DEF ClockInit, ClockInv, HertzMeasured
<1> QED
  BY <1>1, ClockStep, PTL DEF ClockSpec

(* getKernelHZ finds the kernel's CONFIG_HZ for every wait of 100 ms or     *)
(* more, in any phase of the ticks, or further off where the readings are   *)
(* further apart: interpolate's rounding and nearest do not mix up 250 and  *)
(* 300.                                                                     *)
THEOREM FrequencyIsFound == ClockSpec => []HertzMeasured
<1>1. ClockInv => HertzMeasured
  BY Zenon DEF ClockInv
<1> QED
  BY <1>1, ClockInvariance, PTL

\* int64 division goes towards zero.
LEMMA DivFacts ==
    ASSUME NEW a \in Int, NEW d \in Nat, d > 0
    PROVE  /\ Div(a, d) \in Int
           /\ a >= 0 => Div(a, d) >= 0 /\ Div(a, d) * d <= a /\ a < (Div(a, d) + 1) * d
           /\ a <= 0 => Div(a, d) <= 0 /\ (-Div(a, d)) * d <= -a /\ -a < (-Div(a, d) + 1) * d
<1>1. ASSUME NEW n \in Nat
      PROVE  n \div d \in Nat /\ (n \div d) * d <= n /\ n < (n \div d + 1) * d
  <2>1. PICK q : q = n \div d
    OBVIOUS
  <2>2. q \in Nat /\ q * d <= n /\ n < q * d + d
    BY <2>1, Quotient, Zenon
  <2>3. (q + 1) * d = q * d + d
    BY <2>2
  <2> QED
    BY <2>1, <2>2, <2>3, Zenon
<1>2. CASE a < 0
  <2>1. -a \in Nat
    BY <1>2
  <2>2. PICK q : q = (-a) \div d
    OBVIOUS
  <2>3. q \in Nat /\ q * d <= -a /\ -a < (q + 1) * d
    BY <1>1, <2>1, <2>2, Zenon
  <2>4. Div(a, d) = -q /\ -Div(a, d) = q
    BY <1>2, <2>2, <2>3 DEF Div
  <2> QED
    BY <1>2, <2>3, <2>4
<1>3. CASE a >= 0
  <2>1. PICK q : q = a \div d
    OBVIOUS
  <2>2. q \in Nat /\ q * d <= a /\ a < (q + 1) * d /\ Div(a, d) = q
    BY <1>1, <1>3, <2>1 DEF Div
  <2>3. a = 0 => q = 0
    BY <1>3, <2>1
  <2> QED
    BY <1>3, <2>2, <2>3
<1> QED
  BY <1>2, <1>3

(* expireSeconds has the sign of what an entry has left, also with the      *)
(* fallback frequency; when CONFIG_HZ was measured it is right to the       *)
(* second, for lifetimes of any length in either clock source.              *)
THEOREM ExpiryIsSound == ClockSpec => []ExpirySound
<1>1. ClockInv => ExpirySound
  <2> SUFFICES ASSUME ClockInv PROVE ExpirySound
    OBVIOUS
  <2> USE DEF ClockInv
  <2>1. PICK l, e, h, c : l = left /\ e = expire /\ h = hertz /\ c = config
    OBVIOUS
  <2>2. l \in Int /\ c \in Nat /\ c > 0 /\ h \in Nat
    BY <2>1, ValuesFacts
  <2>3. CASE h = 0
    BY <2>1, <2>2, <2>3, Zenon DEF ExpirySound
  <2>4. CASE source = "ktime" /\ h # 0
    BY <2>1, <2>2, <2>4 DEF ExpirySound, timeDiff
  <2>5. CASE source = "jiffies" /\ h # 0
    <3>1. PICK a : a = l * 256
      OBVIOUS
    <3>2. a \in Int /\ a = l * 256 /\ e = Div(a, h) /\ h > 0
      BY <2>1, <2>2, <2>5, <3>1 DEF timeDiff
    <3>3. /\ e \in Int
          /\ a >= 0 => e >= 0 /\ e * h <= a /\ a < (e + 1) * h
          /\ a <= 0 => e <= 0 /\ (-e) * h <= -a /\ -a < (-e + 1) * h
      <4>1. a \in Int /\ h \in Nat /\ h > 0
        BY <2>2, <3>2, Zenon
      <4>2. /\ Div(a, h) \in Int
            /\ a >= 0 => Div(a, h) >= 0 /\ Div(a, h) * h <= a /\ a < (Div(a, h) + 1) * h
            /\ a <= 0 => Div(a, h) <= 0 /\ (-Div(a, h)) * h <= -a /\ -a < (-Div(a, h) + 1) * h
        BY <4>1, DivFacts, Zenon
      <4> QED
        BY <3>2, <4>2
    <3>4. (l >= 0 => e >= 0) /\ (l <= 0 => e <= 0)
      BY <2>2, <3>2, <3>3
    <3>5. ASSUME read # <<>>
          PROVE  LET abs(n) == IF n < 0 THEN -n ELSE n
                 IN  abs(e) * c <= abs(l) * 256 /\ abs(l) * 256 < (abs(e) + 1) * c
      <4>1. h = c
        BY <2>1, <3>5, Zenon DEF HertzMeasured
      <4>2. CASE l >= 0
        BY <2>2, <3>2, <3>3, <4>1, <4>2
      <4>3. CASE l < 0
        BY <2>2, <3>2, <3>3, <4>1, <4>3
      <4> QED
        BY <2>2, <4>2, <4>3
    <3> QED
      BY <2>1, <2>5, <3>4, <3>5 DEF ExpirySound
  <2> QED
    BY <2>3, <2>4, <2>5, Zenon
<1> QED
  BY <1>1, ClockInvariance, PTL

-----------------------------------------------------------------------------
(* NodeTraffic. *)

Flow == [cl : ClientEnds, asked : Asked, sv : Asked,
         seen : [ip : {HostIP[n] : n \in Hosts} \cup PodIPs \cup Outside, port : Ports],
         proto : Protos, up : Int, down : Int, counted : BOOLEAN]

\* The server sees the client's own address or a node's, and no two clients as one.
FlowsInv ==
    /\ client \in {"cilium", "netfilter"} /\ acct \in BOOLEAN
    /\ flows \subseteq Flow
    /\ \A f \in flows : f.seen.ip = f.cl.ip \/ \E n \in Hosts : f.seen.ip = HostIP[n]
    /\ \A f, g \in flows : f.sv = g.sv /\ f.seen = g.seen /\ f.proto = g.proto => f = g

LEMMA OpenStep ==
    ASSUME FlowsInv, NEW cl \in ClientEnds, NEW asked \in Asked, NEW sv \in Asked,
           NEW port \in Ports, NEW proto \in Protos, Open(cl, asked, sv, port, proto)
    PROVE  FlowsInv'
<1>1. PICK seen : seen = Seen(cl, sv, port)
  OBVIOUS
<1>2. PICK h : h = [cl |-> cl, asked |-> asked, sv |-> sv, seen |-> seen,
                    proto |-> proto, up |-> 0, down |-> 0, counted |-> acct]
  BY ZenonT(30)
<1>3. /\ flows' = flows \cup {h} /\ client' = client /\ acct' = acct
      /\ \A f \in flows : ~(f.sv = sv /\ f.seen = seen /\ f.proto = proto)
  BY <1>1, <1>2, Zenon DEF Open, Taken
<1>4. cl.ip \in PodIPs \cup Outside
  BY DEF ClientEnds, End
<1>5. /\ seen \in [ip : {HostIP[n] : n \in Hosts} \cup PodIPs \cup Outside, port : Ports]
      /\ seen.ip = cl.ip \/ \E n \in Hosts : seen.ip = HostIP[n]
  <2>1. IsPod(cl) => Home[cl.ip] \in Hosts
    BY TrafficAssumption, Zenon DEF IsPod
  <2> QED
    BY <1>1, <1>4, <2>1, Zenon DEF Seen, End
<1>6. h \in Flow
  BY <1>2, <1>5 DEF FlowsInv, Flow
<1>7. h.sv = sv /\ h.seen = seen /\ h.cl = cl /\ h.proto = proto
  BY <1>2, Zenon
<1> QED
  BY <1>3, <1>5, <1>6, <1>7 DEF FlowsInv

LEMMA CarryStep ==
    ASSUME FlowsInv, NEW f \in flows, NEW up \in Int, NEW down \in Int, Carry(f, up, down)
    PROVE  FlowsInv'
<1>1. PICK h : h = [f EXCEPT !.up = @ + up, !.down = @ + down]
  OBVIOUS
<1>2. flows' = (flows \ {f}) \cup {h} /\ client' = client /\ acct' = acct
  BY <1>1, Zenon DEF Carry
<1>3. f \in Flow
  BY Zenon DEF FlowsInv
<1>4. h \in Flow /\ h.cl = f.cl /\ h.sv = f.sv /\ h.seen = f.seen /\ h.proto = f.proto
  <2>1. PICK u, d : u = f.up + up /\ d = f.down + down
    OBVIOUS
  <2>2. u \in Int /\ d \in Int
    BY <1>3, <2>1 DEF Flow
  <2>3. h = [f EXCEPT !.up = u, !.down = d]
    BY <1>1, <2>1, Zenon
  <2> QED
    BY <1>3, <2>2, <2>3, Zenon DEF Flow
<1>5. \A g \in flows' : g = h \/ (g \in flows /\ g # f)
  BY <1>2, Zenon
<1>6. flows' \subseteq Flow
  BY <1>4, <1>5, Zenon DEF FlowsInv
<1>7. \A g \in flows' : g.seen.ip = g.cl.ip \/ \E n \in Hosts : g.seen.ip = HostIP[n]
  BY <1>4, <1>5 DEF FlowsInv
<1>8. \A g, k \in flows' : g.sv = k.sv /\ g.seen = k.seen /\ g.proto = k.proto => g = k
  BY <1>4, <1>5 DEF FlowsInv
<1> QED
  BY <1>2, <1>6, <1>7, <1>8, Zenon DEF FlowsInv

LEMMA FlowsInvariance == TrafficSpec => []FlowsInv
<1>1. TrafficInit => FlowsInv
  BY Zenon DEF TrafficInit, FlowsInv
<1>2. FlowsInv /\ [TrafficNext]_trafficVars => FlowsInv'
  <2> SUFFICES ASSUME FlowsInv, [TrafficNext]_trafficVars PROVE FlowsInv'
    OBVIOUS
  <2>1. CASE UNCHANGED trafficVars
    BY <2>1, Zenon DEF trafficVars, FlowsInv
  <2>2. ASSUME NEW cl \in ClientEnds, NEW asked \in Asked, NEW port \in Ports, NEW proto \in Protos,
               NEW sv \in Servers(asked), Open(cl, asked, sv, port, proto)
        PROVE  FlowsInv'
    <3>1. sv \in Asked
      BY <2>2, Zenon DEF Servers
    <3> QED
      BY <2>2, <3>1, OpenStep, Zenon
  <2>3. ASSUME NEW f \in flows, Carry(f, 1, 0) \/ Carry(f, 0, 1) PROVE FlowsInv'
    BY <2>3, CarryStep
  <2>4. ASSUME NEW f \in flows, Forget(f) PROVE FlowsInv'
    BY <2>4, Zenon DEF Forget, FlowsInv
  <2>5. CASE InitNetfilterAccounting
    BY <2>5, Zenon DEF InitNetfilterAccounting, FlowsInv
  <2> QED
    BY <2>1, <2>2, <2>3, <2>4, <2>5, Zenon DEF TrafficNext
<1> QED
  BY <1>1, <1>2, PTL DEF TrafficSpec

\* A server has a port no client has.
LEMMA FlowFacts ==
    ASSUME FlowsInv, NEW f \in flows
    PROVE  /\ f.cl = End(f.cl.ip, f.cl.port) /\ f.cl.ip \in PodIPs \cup Outside
           /\ f.sv = End(f.sv.ip, f.sv.port) /\ f.cl.port \in Ports /\ f.sv.port \notin Ports
           /\ f.proto # 0
<1>1. f \in Flow
  BY Zenon DEF FlowsInv
<1>2. f.cl \in ClientEnds /\ f.sv \in Asked /\ f.proto \in Protos
  BY <1>1, Zenon DEF Flow
<1>3. f.cl = End(f.cl.ip, f.cl.port) /\ f.cl.ip \in PodIPs \cup Outside /\ f.cl.port \in Ports
  BY <1>2 DEF ClientEnds, End
<1>4. f.sv = End(f.sv.ip, f.sv.port) /\ f.sv.port \notin Ports
  BY <1>2, TrafficAssumption DEF Asked, End
<1> QED
  BY <1>2, <1>3, <1>4, TrafficAssumption, Zenon

\* How the client of f appears in n's session.
Shown(f, n) == IF IsPod(f.cl) => Home[f.cl.ip] = n THEN f.cl ELSE f.seen

\* Entries of f as its client and its server have them.
Side(f, n, side) ==
    IF side = 1 THEN Entry(Shown(f, n), f.sv, f.proto, f.up, f.down)
    ELSE Entry(f.sv, Shown(f, n), f.proto, f.down, f.up)

\* The netfilter client has two entries of each session, between the client as the
\* session has it and the server.
LEMMA NetfilterItems ==
    ASSUME NEW n, NEW x
    PROVE  x \in netfilterEntries(n) <=>
               \E f \in flows : Passes(f, n) /\ f.counted /\ \E i \in 1..2 : x = Item(f, i, Side(f, n, i))
<1>1. ASSUME NEW f
      PROVE  /\ Session(f, n).counters = f.counted
             /\ \A i \in 1..2 : sessionEntries(Session(f, n))[i] = Side(f, n, i)
  <2>1. PICK s : s = Session(f, n)
    OBVIOUS
  <2>2. /\ s.originSrc = Shown(f, n) /\ s.replySrc = f.sv /\ s.up = f.up /\ s.down = f.down
        /\ s.proto = f.proto /\ s.counters = f.counted
    BY <2>1, Zenon DEF Session, Shown
  <2>3. sessionEntries(s) = <<Entry(Shown(f, n), f.sv, f.proto, f.up, f.down),
                                Entry(f.sv, Shown(f, n), f.proto, f.down, f.up)>>
    BY <2>2, Zenon DEF sessionEntries
  <2> QED
    BY <2>1, <2>2, <2>3 DEF Side
<1>2. x \in netfilterEntries(n) <=>
          \E f \in flows : /\ Passes(f, n) /\ Session(f, n).counters
                           /\ \E i \in 1..2 : x = Item(f, i, sessionEntries(Session(f, n))[i])
  BY SMT DEF netfilterEntries
<1> QED
  BY <1>1, <1>2, Zenon

\* The record of an end of a flow, and what it looks like to the cilium client.
Rec(f, y) == [sourceAddr |-> y.other.ip, destAddr |-> y.own.ip, sourcePort |-> y.own.port,
           destPort |-> y.other.port, tx |-> y.tx, rx |-> y.rx, nextHeader |-> f.proto]

\* The cilium client has an entry of each end that is a pod of the node.
LEMMA CiliumItems ==
    ASSUME FlowsInv, NEW n, NEW x
    PROVE  x \in ciliumEntries(n) <=>
               \E f \in flows : \E y \in Ends(f) :
                   /\ IsPod(y.own) /\ Home[y.own.ip] = n
                   /\ x = Item(f, Rec(f, y), Entry(y.own, y.other, f.proto, y.tx, y.rx))
<1> DEFINE E(k) == Entry(End(k.destAddr, k.sourcePort), End(k.sourceAddr, k.destPort), k.nextHeader, k.tx, k.rx)
<1>1. ASSUME NEW f \in flows, NEW y \in Ends(f)
      PROVE  Rec(f, y).nextHeader # 0 /\ E(Rec(f, y)) = Entry(y.own, y.other, f.proto, y.tx, y.rx)
  <2>1. y.own = End(y.own.ip, y.own.port) /\ y.other = End(y.other.ip, y.other.port)
    BY FlowFacts DEF Ends
  <2> QED
    BY <2>1, FlowFacts DEF Rec
<1>2. ASSUME NEW f \in flows, NEW k
      PROVE  k \in Records(f, n) /\ k.nextHeader # 0 <=>
                 \E y \in Ends(f) : IsPod(y.own) /\ Home[y.own.ip] = n /\ k = Rec(f, y)
  <2>1. k \in Records(f, n) <=>
            \/ \E y \in Ends(f) : IsPod(y.own) /\ Home[y.own.ip] = n /\ k = Rec(f, y)
            \/ k = [sourceAddr |-> f.sv.ip, destAddr |-> f.cl.ip, sourcePort |-> 0, destPort |-> 0,
                    tx |-> 0, rx |-> 0, nextHeader |-> 0]
    BY Zenon DEF Records, Rec
  <2>2. k = [sourceAddr |-> f.sv.ip, destAddr |-> f.cl.ip, sourcePort |-> 0, destPort |-> 0,
             tx |-> 0, rx |-> 0, nextHeader |-> 0] => k.nextHeader = 0
    OBVIOUS
  <2> QED
    BY <1>1, <2>1, <2>2, Zenon
<1>3. x \in ciliumEntries(n) <=>
          \E f \in flows : \E k \in Records(f, n) : k.nextHeader # 0 /\ x = Item(f, k, E(k))
  BY DEF ciliumEntries
<1> HIDE DEF E
<1> QED
  BY <1>1, <1>2, <1>3

\* The client's end of f, and the server's.
Own(f, s) == IF s = 1 THEN f.cl ELSE f.sv

\* The collector on n has f as it is at that end, which is a pod of the node.
Listed(f, n, s) ==
    /\ Own(f, s).ip \in Tracked /\ Home[Own(f, s).ip] = n
    /\ client # "cilium" => f.counted

Nth(f, s) == IF s = 1 THEN [own |-> f.cl, other |-> f.sv, tx |-> f.up, rx |-> f.down]
             ELSE [own |-> f.sv, other |-> f.cl, tx |-> f.down, rx |-> f.up]

\* The item that lists f at that end.
Made(f, n, s) ==
    IF client = "cilium"
    THEN Item(f, Rec(f, Nth(f, s)), Entry(Nth(f, s).own, Nth(f, s).other, f.proto, Nth(f, s).tx, Nth(f, s).rx))
    ELSE Item(f, s, Side(f, n, s))

\* A session in which the client appears as another node translated it is not listed
\* for the client: the address is a node's, or of a pod of that other node.
LEMMA ShownListed ==
    ASSUME FlowsInv, NEW n \in Hosts, NEW f \in flows, Shown(f, n).ip \in Tracked, Home[Shown(f, n).ip] = n
    PROVE  Shown(f, n) = f.cl /\ f.cl.ip \in PodIPs
<1>1. CASE Shown(f, n) = f.cl
  BY <1>1, TrafficAssumption, Zenon
<1>2. CASE Shown(f, n) = f.seen /\ IsPod(f.cl) /\ Home[f.cl.ip] # n
  BY <1>2, TrafficAssumption, Zenon DEF FlowsInv
<1> QED
  BY <1>1, <1>2, Zenon DEF Shown

\* What a listing holds: one item for each end of a flow that is a tracked pod of the
\* node, from sessions with counters.
LEMMA Listing ==
    ASSUME FlowsInv, NEW n \in Hosts, NEW x
    PROVE  x \in ListEntries(n) <=> \E f \in flows : \E s \in 1..2 : Listed(f, n, s) /\ x = Made(f, n, s)
<1>1. CASE client = "cilium"
  <2>1. x \in ListEntries(n) <=> x \in ciliumEntries(n) /\ FilterBySrcIP(n, x.entry)
    BY <1>1, Zenon DEF ListEntries
  <2>2. ASSUME NEW f PROVE \A y : y \in Ends(f) <=> \E s \in 1..2 : y = Nth(f, s)
    BY DEF Ends, Nth
  <2>3. x \in ciliumEntries(n) <=>
            \E f \in flows : \E s \in 1..2 :
                IsPod(Nth(f, s).own) /\ Home[Nth(f, s).own.ip] = n /\ x = Made(f, n, s)
    BY <1>1, <2>2, CiliumItems DEF Made
  <2>4. ASSUME NEW f, NEW s \in 1..2
        PROVE  /\ Nth(f, s).own = Own(f, s)
               /\ Made(f, n, s).entry.src = Own(f, s)
    BY <1>1, Zenon DEF Nth, Own, Made, Item, Entry
  <2>5. ASSUME NEW f, NEW s \in 1..2
        PROVE  Listed(f, n, s) <=> /\ IsPod(Nth(f, s).own) /\ Home[Nth(f, s).own.ip] = n
                                   /\ FilterBySrcIP(n, Made(f, n, s).entry)
    BY <1>1, <2>4, TrafficAssumption, Zenon DEF Listed, FilterBySrcIP, IsPod
  <2> QED
    BY <2>1, <2>3, <2>5, Zenon
<1>2. CASE client # "cilium"
  <2>1. x \in ListEntries(n) <=> x \in netfilterEntries(n) /\ FilterBySrcIP(n, x.entry)
    BY <1>2, Zenon DEF ListEntries
  <2>2. x \in netfilterEntries(n) <=>
            \E f \in flows : \E s \in 1..2 : Passes(f, n) /\ f.counted /\ x = Made(f, n, s)
    BY <1>2, NetfilterItems, Zenon DEF Made
  <2>3. ASSUME NEW f \in flows, NEW s \in 1..2
        PROVE  Listed(f, n, s) <=> /\ Passes(f, n) /\ f.counted
                                   /\ FilterBySrcIP(n, Made(f, n, s).entry)
    <3>1. Made(f, n, s).entry.src = IF s = 1 THEN Shown(f, n) ELSE f.sv
      BY <1>2, Zenon DEF Made, Item, Side, Entry
    <3>2. ASSUME Listed(f, n, s)
          PROVE  Passes(f, n) /\ f.counted /\ FilterBySrcIP(n, Made(f, n, s).entry)
      BY <1>2, <3>1, <3>2, TrafficAssumption, Zenon DEF Listed, Own, Passes, IsPod, FilterBySrcIP, Shown
    <3>3. ASSUME Passes(f, n), f.counted, FilterBySrcIP(n, Made(f, n, s).entry)
          PROVE  Listed(f, n, s)
      BY <3>1, <3>3, ShownListed, Zenon DEF Listed, Own, FilterBySrcIP
    <3> QED
      BY <3>2, <3>3, Zenon
  <2> QED
    BY <2>1, <2>2, <2>3, Zenon
<1> QED
  BY <1>1, <1>2, Zenon

\* The other end, as the item of f at that end has it.
Facing(f, n, s) == IF s = 1 THEN f.sv ELSE IF client = "cilium" THEN f.cl ELSE Shown(f, n)

\* What such an item says.
LEMMA MadeFacts ==
    ASSUME FlowsInv, NEW n \in Hosts, NEW f \in flows, NEW s \in 1..2, Listed(f, n, s)
    PROVE  /\ Made(f, n, s).of = f
           /\ Made(f, n, s).entry.src = Own(f, s) /\ Made(f, n, s).entry.dst = Facing(f, n, s)
           /\ Made(f, n, s).entry.proto = f.proto
           /\ Made(f, n, s).entry.tx = Nth(f, s).tx /\ Made(f, n, s).entry.rx = Nth(f, s).rx
<1>1. CASE client = "cilium"
  BY <1>1, ZenonT(30) DEF Made, Item, Entry, Nth, Own, Facing
<1>2. CASE client # "cilium"
  <2>1. s = 1 => Shown(f, n) = f.cl
    BY TrafficAssumption, Zenon DEF Listed, Own, Shown, IsPod
  <2> QED
    BY <1>2, <2>1, ZenonT(30) DEF Made, Item, Entry, Side, Nth, Own, Facing
<1> QED
  BY <1>1, <1>2, ZenonT(30)

\* A client of this node, or of none, is not seen as one of another node.
LEMMA ShownOnce ==
    ASSUME FlowsInv, NEW n \in Hosts, NEW f \in flows, NEW g \in flows, Shown(f, n) = Shown(g, n)
    PROVE  f.cl = g.cl \/ f.seen = g.seen
<1>1. ASSUME NEW p \in flows, NEW q \in flows, IsPod(p.cl) => Home[p.cl.ip] = n, p.cl = q.seen,
             IsPod(q.cl), Home[q.cl.ip] # n
      PROVE  FALSE
  <2>1. p.cl.ip \in PodIPs \cup Outside
    BY FlowFacts, Zenon
  <2>2. q.seen.ip = q.cl.ip
    BY <1>1, <2>1, TrafficAssumption, Zenon DEF FlowsInv
  <2> QED
    BY <1>1, <2>2, Zenon DEF IsPod
<1> QED
  BY <1>1, Zenon DEF Shown

\* Items of a node with the same ends are of one flow or of twins.
LEMMA SameFlow ==
    ASSUME FlowsInv, NEW n \in Hosts, NEW f \in flows, NEW g \in flows, NEW s \in 1..2, NEW t \in 1..2,
           Own(f, s) = Own(g, t), Facing(f, n, s) = Facing(g, n, t), f.proto = g.proto
    PROVE  s = t /\ (f = g \/ (f.cl = g.cl /\ f.sv = g.sv))
<1>1. s = t
  BY FlowFacts DEF Own
<1>2. CASE s = 1
  BY <1>1, <1>2, Zenon DEF Own, Facing
<1>3. CASE s = 2
  <2>1. f.sv = g.sv
    BY <1>1, <1>3 DEF Own
  <2>2. f.cl = g.cl \/ f.seen = g.seen
    BY <1>1, <1>3, ShownOnce DEF Facing
  <2> QED
    BY <1>1, <2>1, <2>2, Zenon DEF FlowsInv
<1> QED
  BY <1>2, <1>3

\* The items made of a flow for one of its ends are the one that its own node makes.
LEMMA OneItem ==
    ASSUME FlowsInv, NEW f \in flows, NEW s \in 1..2,
           NEW e, NEW n \in Hosts, e \in ListEntries(n), e.of = f, e.entry.src = Own(f, s)
    PROVE  e = Made(f, Home[Own(f, s).ip], s)
<1>1. PICK g \in flows, t \in 1..2 : Listed(g, n, t) /\ e = Made(g, n, t)
  BY Listing, Zenon
<1>2. f = g /\ Own(f, s) = Own(f, t)
  <2>1. Made(g, n, t).of = g /\ Made(g, n, t).entry.src = Own(g, t)
    BY <1>1, MadeFacts, Zenon
  <2>2. f = g
    BY <1>1, <2>1, Zenon
  <2>3. Own(f, s) = Own(g, t)
    BY <1>1, <2>1, Zenon
  <2> QED
    BY <2>2, <2>3, Zenon
<1>3. s = t
  BY <1>2, FlowFacts DEF Own
<1>4. n = Home[Own(f, s).ip]
  BY <1>1, <1>2, <1>3, Zenon DEF Listed
<1> QED
  BY <1>1, <1>2, <1>3, <1>4, ZenonT(30)

LEMMA EachEndListed == FlowsInv => EachEndOnce
<1> DEFINE listed == UNION {ListEntries(n) : n \in Hosts}
<1> SUFFICES ASSUME FlowsInv, NEW f \in flows, client = "netfilter" => f.counted,
                    NEW x \in Ends(f), x.own.ip \in Tracked
             PROVE  \E e \in listed :
                        /\ {d \in listed : d.of = f /\ d.entry.src = x.own} = {e}
                        /\ e.entry.dst \in {x.other, f.seen}
                        /\ e.entry.tx = x.tx /\ e.entry.rx = x.rx
  BY Zenon DEF EachEndOnce
<1>0. client # "cilium" => f.counted
  BY Zenon DEF FlowsInv
<1>1. PICK s \in 1..2 : x = Nth(f, s) /\ x.own = Own(f, s)
  BY DEF Ends, Nth, Own
<1>2. PICK n : n = Home[Own(f, s).ip]
  OBVIOUS
<1>3. n \in Hosts /\ Listed(f, n, s)
  BY <1>0, <1>1, <1>2, TrafficAssumption, Zenon DEF Listed
<1>4. PICK e0 : e0 = Made(f, n, s)
  OBVIOUS
<1>5. e0 \in ListEntries(n)
  BY <1>3, <1>4, Listing, Zenon
<1>6. /\ e0.of = f /\ e0.entry.src = x.own /\ e0.entry.dst = Facing(f, n, s)
      /\ e0.entry.tx = x.tx /\ e0.entry.rx = x.rx
  BY <1>1, <1>3, <1>4, MadeFacts, ZenonT(30)
<1>7. Facing(f, n, s) \in {x.other, f.seen}
  BY <1>1, Zenon DEF Facing, Nth, Shown
<1>8. ASSUME NEW e \in listed, e.of = f, e.entry.src = x.own PROVE e = e0
  <2>1. PICK m \in Hosts : e \in ListEntries(m)
    BY <1>8, Zenon
  <2> QED
    BY <1>1, <1>2, <1>4, <1>8, <2>1, OneItem, Zenon
<1>9. e0 \in listed
  BY <1>3, <1>5, Zenon
<1>10. {d \in listed : d.of = f /\ d.entry.src = x.own} = {e0}
  BY <1>6, <1>8, <1>9, Zenon
<1> QED
  BY <1>6, <1>7, <1>9, <1>10, Zenon

LEMMA KeysListed == FlowsInv => KeysDiffer
<1> SUFFICES ASSUME FlowsInv, NEW n \in Hosts, NEW x \in ListEntries(n), NEW y \in ListEntries(n),
                    x # y, conntrackEntryKey(x.entry) = conntrackEntryKey(y.entry)
             PROVE  Twin(x.of)
  BY Zenon DEF KeysDiffer
<1>1. PICK f \in flows, s \in 1..2 : Listed(f, n, s) /\ x = Made(f, n, s)
  BY Listing, Zenon
<1>2. PICK g \in flows, t \in 1..2 : Listed(g, n, t) /\ y = Made(g, n, t)
  BY Listing, Zenon
<1>3. /\ x.of = f /\ x.entry.src = Own(f, s) /\ x.entry.dst = Facing(f, n, s)
      /\ x.entry.proto = f.proto
  BY <1>1, MadeFacts, Zenon
<1>4. y.entry.src = Own(g, t) /\ y.entry.dst = Facing(g, n, t) /\ y.entry.proto = g.proto
  BY <1>2, MadeFacts, Zenon
<1>5. x.entry.src = y.entry.src /\ x.entry.dst = y.entry.dst /\ x.entry.proto = y.entry.proto
  BY Zenon DEF conntrackEntryKey
<1>6. Own(f, s) = Own(g, t) /\ Facing(f, n, s) = Facing(g, n, t) /\ f.proto = g.proto
  BY <1>3, <1>4, <1>5, Zenon
<1>7. s = t /\ (f = g \/ (f.cl = g.cl /\ f.sv = g.sv))
  BY <1>6, SameFlow
<1>8. f # g
  BY <1>1, <1>2, <1>7, Zenon
<1> QED
  BY <1>3, <1>6, <1>7, <1>8, Zenon DEF Twin

(* Whatever nodes, pods and services there are, whatever flows they open    *)
(* and the kernel translates: every end that is a tracked pod is listed     *)
(* once in the cluster, by either client, with what that pod sent and       *)
(* received and the pod that is at the other end.                           *)
THEOREM EndsAreListedOnce == TrafficSpec => []EachEndOnce
  BY FlowsInvariance, EachEndListed, PTL

(* The entries of one listing have keys of their own in the collector's     *)
(* cache, unless a port of a client has two flows to one server.            *)
THEOREM EntriesHaveTheirKeys == TrafficSpec => []KeysDiffer
  BY FlowsInvariance, KeysListed, PTL
=============================================================================
