----------------------------- MODULE KernelClock -----------------------------
(***************************************************************************)
(* conntrack/time.go and conntrack/kernel_hz.go: the length of a jiffy is  *)
(* estimated from two readings of the kernel's counter, and an entry's     *)
(* remaining life from the kernel's clock.  Cilium writes the end of an    *)
(* entry's life in seconds (ktime) or in units of 256 jiffies.             *)
(***************************************************************************)
EXTENDS Integers, Sequences

CONSTANTS
    Elapsed,        \* wall time between the readings in ms; time.Sleep makes it 100 or more
    Jitter,         \* ticks a pair of readings may be off
    Lives           \* units an entry has left to live, negative when it is over

ASSUME ClockAssumption ==
    /\ Elapsed \subseteq {t \in Nat : t >= 100}
    /\ Jitter \in Nat
    /\ Lives \subseteq Int

\* The readings are less than 24 ticks a second off.  Two readings at any phase
\* are one tick off, which this allows for every wait of 100 ms or more.
ASSUME SteadyAssumption == \A td \in Elapsed : 1000 * (Jitter + 1) <= 24 * td

VARIABLES
    config,         \* CONFIG_HZ
    source,         \* the clock source
    read,           \* what the readings gave: ticks and ms, or <<>> before and after an error
    hertz,          \* the package's hertz; 0 before init
    left,           \* what an entry has left, in the kernel's units
    expire          \* expireSeconds of that entry

clockVars == <<config, source, read, hertz, left, expire>>

MaxUint16 == 65535

hzValues == <<1000, 300, 250, 100>>

Values == {hzValues[i] : i \in 1..4}

ClockInit ==
    /\ config \in Values
    /\ source \in {"ktime", "jiffies"}
    /\ read = <<>>
    /\ hertz = 0
    /\ left = 0 /\ expire = 0

\* float64(kd) / td.Seconds(), rounded.
interpolate(kd, td) == (2000 * kd + td) \div (2 * td)

\* Mutant: the distance is not made absolute, so it wraps below a value.
WrappedDistance(in, v) == (in - v) % (MaxUint16 + 1)

distance(in, v) == IF in < v THEN v - in ELSE in - v

\* An iteration of nearest: v is taken if it is closer to in than the best so far.
closer(in, best, v) ==
    IF distance(in, v) < best.min THEN [min |-> distance(in, v), out |-> v] ELSE best

\* Its loop over the four hzValues.
nearest(in) ==
    LET b0 == [min |-> MaxUint16, out |-> 0]
        b1 == closer(in, b0, hzValues[1])
        b2 == closer(in, b1, hzValues[2])
        b3 == closer(in, b2, hzValues[3])
        b4 == closer(in, b3, hzValues[4])
    IN  b4.out

\* getKernelHZ: the counter moved kd ticks in td ms.  A result past uint16 is an error.
getKernelHZ(kd, td) ==
    /\ hertz = 0
    /\ read' = <<kd, td>>
    /\ hertz' = IF interpolate(kd, td) > MaxUint16 THEN 1 ELSE nearest(interpolate(kd, td))
    /\ UNCHANGED <<config, source, left, expire>>

\* /proc/schedstat cannot be read, or has no timestamp.
noTimestamp ==
    /\ hertz = 0
    /\ hertz' = 1
    /\ UNCHANGED <<config, source, read, left, expire>>

\* int64 division, towards zero.
Div(a, b) == IF a < 0 THEN -((-a) \div b) ELSE a \div b

\* Mutant: divided before it is scaled.
DiffThenScale(diff) == IF source = "ktime" THEN diff ELSE Div(diff, hertz) * 256

\* kernelTimeDiffSecondsFunc, of t - now.
timeDiff(diff) == IF source = "ktime" THEN diff ELSE Div(diff * 256, hertz)

\* listRecords meets an entry that has u units left.
ListRecord(u) ==
    /\ hertz # 0
    /\ left' = u
    /\ expire' = timeDiff(u)
    /\ UNCHANGED <<config, source, read, hertz>>

\* Ticks of a kernel of config Hz in td ms, give or take Jitter.
Ticks(td) == {k \in (config * td) \div 1000 - Jitter .. (config * td) \div 1000 + Jitter : k >= 0}

ClockNext ==
    \/ \E td \in Elapsed : \E kd \in Ticks(td) : getKernelHZ(kd, td)
    \/ noTimestamp
    \/ \E u \in Lives : ListRecord(u)

ClockSpec == ClockInit /\ [][ClockNext]_clockVars

-----------------------------------------------------------------------------
(* Two readings 100 ms or more apart that are a tick off, or more when they *)
(* are further apart, still give the kernel's CONFIG_HZ, in spite of        *)
(* rounding and of how close 250 and 300 are.                               *)
HertzMeasured == read # <<>> => hertz = config

(* An entry that has not ended is never taken for ended and the other way   *)
(* round, whatever hertz is; when hertz was measured the rest of its life   *)
(* is right to the second, and never overestimated.                         *)
ExpirySound ==
    LET scale == IF source = "ktime" THEN 1 ELSE 256
        unit  == IF source = "ktime" THEN 1 ELSE config
        abs(n) == IF n < 0 THEN -n ELSE n
    IN  /\ left >= 0 => expire >= 0
        /\ left <= 0 => expire <= 0
        /\ read # <<>> => /\ abs(expire) * unit <= abs(left) * scale
                          /\ abs(left) * scale < (abs(expire) + 1) * unit
=============================================================================
