-------------------------- MODULE MCCollectorParts --------------------------
(***************************************************************************)
(* Small instances, for TLC, of four parts of the collector that share no  *)
(* state.  They are put side by side, not interleaved: part names the one  *)
(* that moves, and the others keep their initial states, in which none of  *)
(* their fair actions is enabled.                                          *)
(***************************************************************************)
EXTENDS RunningPodsCache, CollectorProgram, NodeTraffic, KernelClock, TLC

CONSTANTS
    n1, n2, ip1,                    \* RunningPodsCache
    a, b, c, vip, far, h1, h2       \* NodeTraffic: a and b are on node h1, c is on h2

VARIABLE part

partsVars == <<vars, programVars, trafficVars, clockVars, part>>

MCHome == (a :> h1) @@ (b :> h1) @@ (c :> h2)

MCHostIP == (h1 :> h1) @@ (h2 :> h2)

MCLives == -5..5

MCElapsed == (100..130) \cup {150, 333, 1000}

PartsInit ==
    /\ part \in {"pods", "program", "traffic", "clock"}
    /\ Init /\ ProgramInit
    /\ TrafficInit /\ (part # "traffic" => client = "netfilter")
    /\ ClockInit /\ (part # "clock" => config = 100 /\ source = "ktime")

PartsNext ==
    /\ UNCHANGED part
    /\ \/ part = "pods" /\ Next /\ UNCHANGED <<programVars, trafficVars, clockVars>>
       \/ part = "program" /\ ProgramNext /\ UNCHANGED <<vars, trafficVars, clockVars>>
       \/ part = "traffic" /\ TrafficNext /\ UNCHANGED <<vars, programVars, clockVars>>
       \/ part = "clock" /\ ClockNext /\ UNCHANGED <<vars, programVars, trafficVars>>

PartsSpec == PartsInit /\ [][PartsNext]_partsVars /\ Fairness /\ ProgramFairness
=============================================================================
