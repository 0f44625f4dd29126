--------------------------- MODULE ExporterProgram ---------------------------
(***************************************************************************)
(* cmd/exporter/main.go: main and run around the rounds of ExportRound.    *)
(* run starts the goroutine that waits for a signal, waits for the         *)
(* informers' caches, starts ex.Start in a goroutine nobody waits for, and *)
(* returns what ListenAndServe returns.  main then ends the process, and   *)
(* Kubernetes starts the next one.                                         *)
(***************************************************************************)
EXTENDS ExportRound

VARIABLES
    ppc,            \* where run is
    sig             \* where the goroutine that waits for a signal is

programVars == <<vars, ppc, sig>>

ProgramInit ==
    /\ Init
    /\ ppc = "starting" /\ sig = "waiting"

-----------------------------------------------------------------------------
(* The goroutine that waits for a signal. *)

\* srv.Shutdown: from here on ListenAndServe returns ErrServerClosed.
Signal ==
    /\ sig = "waiting"
    /\ sig' = "shutdown"
    /\ UNCHANGED <<vars, ppc>>

\* Shutdown returns, after 10 seconds at the latest, and ctx is cancelled.
SignalCancels ==
    /\ sig = "shutdown"
    /\ sig' = "done"
    /\ cancelled' = TRUE
    /\ UNCHANGED <<epc, fetching, pulledBatch, podsMetrics, pushing, serial, lost, ppc>>

-----------------------------------------------------------------------------
(* run. *)

\* The clientset is built, the caches are in sync, the configuration has a sink.
StartUp ==
    /\ ppc = "starting"
    /\ ppc' = "serving"
    /\ UNCHANGED <<vars, sig>>

\* run returns; its deferred cancel is called.
Return ==
    /\ ppc' = "returned"
    /\ cancelled' = TRUE
    /\ UNCHANGED <<epc, fetching, pulledBatch, podsMetrics, pushing, serial, lost, sig>>

StartFails == ppc = "starting" /\ Return

\* The port cannot be listened on, or accepting fails.
ListenFails == ppc = "serving" /\ sig = "waiting" /\ Return

\* Mutant: run waits for ex.Start as well.
ReturnsAfterExporter == ppc = "serving" /\ sig # "waiting" /\ epc = "stopped" /\ Return

ServerClosed == ppc = "serving" /\ sig # "waiting" /\ Return

\* main ends the process once run has returned.
Exit ==
    /\ ppc = "returned"
    /\ Die
    /\ ppc' = "starting" /\ sig' = "waiting"

\* The kernel or the kubelet ends it at any time.
Killed ==
    /\ Die
    /\ ppc' = "starting" /\ sig' = "waiting"

\* The goroutine of ex.Start and those it starts, until the process ends.
Exporter(A) == ppc # "starting" /\ A /\ UNCHANGED <<ppc, sig>>

-----------------------------------------------------------------------------
ProgramNext ==
    \/ Signal \/ SignalCancels
    \/ StartUp \/ StartFails \/ ListenFails \/ ServerClosed
    \/ Exit \/ Killed
    \/ Exporter(Work)

ProgramSpec == ProgramInit /\ [][ProgramNext]_programVars

\* Every goroutine goes on; a fetch ends by CollectorFetchTimeout, a push by
\* its timeout (HTTP) or that of its client, Shutdown by its own.  Nothing makes
\* a round begin, a signal come or the caches get in sync.
Fairness ==
    /\ WF_programVars(SignalCancels)
    /\ WF_programVars(ServerClosed)
    /\ WF_programVars(Exit)
    /\ WF_programVars(Exporter(Producer))
    /\ \A c \in Collectors : WF_programVars(Exporter(Fetch(c)))
    /\ WF_programVars(Exporter(Export))
    /\ \A s \in Sinks : WF_programVars(Exporter(PushEnds(s)))

FairProgramSpec == ProgramSpec /\ Fairness

-----------------------------------------------------------------------------
(* A round ends, whatever collectors and sinks do, unless ctx is done while *)
(* the producer is in its loop: then nobody closes the channel.             *)
RoundEnds == (epc \in {"consume", "push"}) ~> (epc = "idle" \/ producer = "quit")

(* Once caches are in sync a signal ends the process, in whatever state it  *)
(* finds the round, the one no goroutine gets out of included: run waits    *)
(* for the HTTP server only.                                                *)
SignalEndsProgram == (ppc # "starting" /\ sig # "waiting") ~> (sig = "waiting")
=============================================================================
