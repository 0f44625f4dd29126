--------------------------- MODULE CollectorProgram ---------------------------
(***************************************************************************)
(* cmd/collector/main.go: main and run.  Three goroutines run ip2dns,      *)
(* the collector and the HTTP server.  Each of them sends the error it     *)
(* ends with to the unbuffered channel errc and then closes errc, so that  *)
(* the second to close it, or one that sends after the first, panics.  run *)
(* returns what it receives from errc first.                               *)
(***************************************************************************)
EXTENDS Integers

VARIABLES
    mpc,        \* where run is
    result,     \* what it returns
    tracing,    \* ip2dns is an IP2DNS and not a Noop
    caches,     \* IP2DNS.Start has made its caches
    comp,       \* the goroutine of each component
    errc,       \* the channel
    ctxDone,    \* ctx is cancelled
    sig,        \* where the goroutine that waits for a signal is
    mu,         \* who holds the collector's mu
    loop,       \* where Collector.Start is: in its select, or in collect or cleanup
    req,        \* where the request to GetRawNetworkMetricsHandler is, if there is one
    exit        \* how the process ended

locking     == <<mu, loop, req>>
programVars == <<mpc, result, tracing, caches, comp, errc, ctxDone, sig, locking, exit>>

Components == {"ip2dns", "coll", "srv"}

ProgramInit ==
    /\ mpc = "starting" /\ result = "none" /\ exit = "none"
    /\ tracing = FALSE /\ caches = FALSE
    /\ comp = [c \in Components |-> "off"]
    /\ errc = "open" /\ ctxDone = FALSE /\ sig = "off"
    /\ mu = "free" /\ loop = "select" /\ req = "none"

-----------------------------------------------------------------------------
(* main and run. *)

\* The kubeconfig, the clientset or the conntrack client cannot be had.
StartFails ==
    /\ mpc = "starting"
    /\ mpc' = "returned" /\ result' = "error"
    /\ UNCHANGED <<tracing, caches, comp, errc, ctxDone, sig, locking, exit>>

\* The pods' cache is in sync; the goroutines are started.
StartUp(withTracer) ==
    /\ mpc = "starting"
    /\ mpc' = "waiting"
    /\ tracing' = withTracer
    /\ comp' = [c \in Components |-> "running"]
    /\ sig' = "waiting"
    /\ UNCHANGED <<result, caches, errc, ctxDone, locking, exit>>

\* <-errc finds the channel closed; run returns nil, and its deferred cancel is called.
ReturnNil ==
    /\ mpc = "waiting" /\ errc = "closed"
    /\ mpc' = "returned" /\ result' = "nil"
    /\ ctxDone' = TRUE
    /\ UNCHANGED <<tracing, caches, comp, errc, sig, locking, exit>>

\* main: log.Fatal, or status 0.
Exit ==
    /\ mpc = "returned"
    /\ exit' = IF result = "error" THEN "fatal" ELSE "ok"
    /\ UNCHANGED <<mpc, result, tracing, caches, comp, errc, ctxDone, sig, locking>>

-----------------------------------------------------------------------------
(* The goroutine that waits for a signal. *)

\* srv.Shutdown: ListenAndServe returns at once, Shutdown when requests are done.
Signal ==
    /\ sig = "waiting"
    /\ sig' = "shutdown"
    /\ UNCHANGED <<mpc, result, tracing, caches, comp, errc, ctxDone, locking, exit>>

SignalCancels ==
    /\ sig = "shutdown"
    /\ sig' = "done"
    /\ ctxDone' = TRUE
    /\ UNCHANGED <<mpc, result, tracing, caches, comp, errc, locking, exit>>

-----------------------------------------------------------------------------
(* The components. *)

Goes(c, from, to) ==
    /\ comp[c] = from
    /\ comp' = [comp EXCEPT ![c] = to]

MakeCaches ==
    /\ tracing /\ ~caches /\ comp["ip2dns"] = "running"
    /\ caches' = TRUE
    /\ UNCHANGED <<mpc, result, tracing, comp, errc, ctxDone, sig, locking, exit>>

\* Mutants: an error is logged and the goroutine ends; it is logged and errc closed.
FailsUnseen(c) ==
    /\ c = "srv" \/ (c = "ip2dns" /\ tracing /\ caches)
    /\ Goes(c, "running", "ended")
    /\ UNCHANGED <<mpc, result, tracing, caches, errc, ctxDone, sig, locking, exit>>

FailsAsNil(c) ==
    /\ c = "srv" \/ (c = "ip2dns" /\ tracing /\ caches)
    /\ Goes(c, "running", "closing")
    /\ UNCHANGED <<mpc, result, tracing, caches, errc, ctxDone, sig, locking, exit>>

\* The tracer or the listener fails. Collector.Start returns nothing but ctx.Err().
Fails(c) ==
    /\ c = "srv" \/ (c = "ip2dns" /\ tracing /\ caches)
    /\ Goes(c, "running", "sending")
    /\ UNCHANGED <<mpc, result, tracing, caches, errc, ctxDone, sig, locking, exit>>

\* Start returns as ctx is done, between two collects; ListenAndServe after Shutdown.
Stops(c) ==
    /\ \/ c = "srv" /\ sig \in {"shutdown", "done"}
       \/ c = "coll" /\ ctxDone /\ loop = "select"
       \/ c = "ip2dns" /\ ctxDone /\ (tracing => caches)
    /\ Goes(c, "running", "closing")
    /\ UNCHANGED <<mpc, result, tracing, caches, errc, ctxDone, sig, locking, exit>>

Panic == exit' = "panic" /\ UNCHANGED <<mpc, result, errc, ctxDone, comp>>

\* errc <- err: run receives it and returns.
SendErr(c) ==
    /\ \/ errc = "closed" /\ comp[c] = "sending" /\ Panic
       \/ /\ errc = "open" /\ mpc = "waiting"
          /\ Goes(c, "sending", "closing")
          /\ mpc' = "returned" /\ result' = "error" /\ ctxDone' = TRUE
          /\ UNCHANGED <<errc, exit>>
    /\ UNCHANGED <<tracing, caches, sig, locking>>

\* close(errc).
CloseErrc(c) ==
    /\ \/ errc = "closed" /\ comp[c] = "closing" /\ Panic
       \/ /\ errc = "open"
          /\ Goes(c, "closing", "ended")
          /\ errc' = "closed"
          /\ UNCHANGED <<mpc, result, ctxDone, exit>>
    /\ UNCHANGED <<tracing, caches, sig, locking>>

-----------------------------------------------------------------------------
(* collect and cleanup on the collector's goroutine, and a request to        *)
(* GetRawNetworkMetricsHandler on one of its own, with mu between them.     *)

others == <<mpc, result, tracing, caches, comp, errc, ctxDone, sig, exit>>

\* A ticker fires: collect lists the connections, or cleanup is called, up to mu.Lock().
CollectCalled ==
    /\ comp["coll"] = "running" /\ loop = "select"
    /\ loop' = "waiting"
    /\ UNCHANGED <<others, mu, req>>

CollectLock ==
    /\ loop = "waiting" /\ mu = "free"
    /\ loop' = "locked" /\ mu' = "coll"
    /\ UNCHANGED <<others, req>>

\* The deferred mu.Unlock(), and back to the select.
CollectReturns ==
    /\ loop = "locked"
    /\ loop' = "select" /\ mu' = "free"
    /\ UNCHANGED <<others, req>>

RequestComes ==
    /\ comp["srv"] = "running" /\ req = "none"
    /\ req' = "waiting"
    /\ UNCHANGED <<others, mu, loop>>

HandlerLock ==
    /\ req = "waiting" /\ mu = "free"
    /\ req' = "records" /\ mu' = "srv"
    /\ UNCHANGED <<others, loop>>

\* ip2dns.Records(), by Noop or from the caches.
HandlerRecords ==
    /\ req = "records" /\ (tracing => caches)
    /\ req' = "writing"
    /\ UNCHANGED <<others, mu, loop>>

\* Mutant: mu.Unlock() at the end of the handler, which a panic passes by.
PanicsLocked ==
    /\ req = "records" /\ tracing /\ ~caches
    /\ req' = "none"
    /\ UNCHANGED <<others, mu, loop>>

\* IP2DNS.Start has not made the caches yet: Records panics on a nil cache, the
\* deferred mu.Unlock() is run, and net/http recovers.
HandlerPanics ==
    /\ req = "records" /\ tracing /\ ~caches
    /\ req' = "none" /\ mu' = "free"
    /\ UNCHANGED <<others, loop>>

\* The body is written or cannot be; the deferred mu.Unlock().
HandlerReturns ==
    /\ req = "writing"
    /\ req' = "none" /\ mu' = "free"
    /\ UNCHANGED <<others, loop>>

-----------------------------------------------------------------------------
Main == ReturnNil \/ Exit

HandlerStep == HandlerRecords \/ HandlerPanics \/ HandlerReturns

Locking ==
    \/ CollectCalled \/ CollectLock \/ CollectReturns
    \/ RequestComes \/ HandlerLock \/ HandlerStep

Leaves(c) == Stops(c) \/ SendErr(c) \/ CloseErrc(c)

ProgramNext ==
    /\ exit = "none"
    /\ \/ StartFails \/ \E withTracer \in BOOLEAN : StartUp(withTracer)
       \/ Main
       \/ Signal \/ SignalCancels
       \/ MakeCaches
       \/ \E c \in Components : Fails(c) \/ Leaves(c)
       \/ Locking

ProgramSpec == ProgramInit /\ [][ProgramNext]_programVars

\* Every goroutine goes on.  Nothing makes the pods' cache get in sync, a
\* component fail, or a signal or a request come.  CollectLock is strongly fair:
\* Go's mutex hands itself to a waiter that has starved for 1ms.
ProgramFairness ==
    /\ WF_programVars(exit = "none" /\ Main)
    /\ WF_programVars(exit = "none" /\ SignalCancels)
    /\ WF_programVars(exit = "none" /\ MakeCaches)
    /\ \A c \in Components : WF_programVars(exit = "none" /\ Leaves(c))
    /\ SF_programVars(exit = "none" /\ CollectLock)
    /\ WF_programVars(exit = "none" /\ CollectReturns)
    /\ WF_programVars(exit = "none" /\ HandlerStep)

-----------------------------------------------------------------------------
(* A signal, or one component that has ended, ends the process: no          *)
(* goroutine is left sending to an errc nobody reads while the others work  *)
(* on.                                                                      *)
ProgramEnds ==
    []<>(sig \in {"shutdown", "done"} \/ (\E c \in Components : comp[c] \notin {"off", "running"})
            => exit # "none")

(* The process ends, with status 0 or with the panic of a second close,     *)
(* only after a signal, or when run returns the error of a component; a     *)
(* component that fails is never taken for one that was told to stop.       *)
EndsForAReason == exit # "none" => sig \in {"shutdown", "done"} \/ result = "error"

(* collect and cleanup return, whatever requests come and whenever: also    *)
(* after one that panicked because it was served before IP2DNS.Start had    *)
(* made its caches, which net/http hides from all but the client.           *)
CollectReturnsAlways == []<>(loop = "select" \/ exit # "none")
=============================================================================
