---------------------------- MODULE SeederProcess ----------------------------
(* The life of the seeder's process (app/cmd/seeder/main.go) with the set-up  *)
(* and the shutdown of telemetry (telemetry.go: New, Shutdown): what it has   *)
(* acquired at each point, what a signal does to it there, and what is        *)
(* released on each way out.  The pipeline is the step from "run" to "stop".  *)
VARIABLES
    at,         \* where main is
    enabled,    \* cfg.TelemetryEnabled
    tp, mp,     \* the trace and the meter provider
    server,     \* the metrics server
    scraping,   \* a request to the metrics server is open
    notified,   \* NotifyContext receives the signals
    canceled,   \* its context is done
    expired,    \* the context of Shutdown is done
    errs,       \* the calls of Shutdown that returned an error
    exit        \* how the process ended

vars == <<at, enabled, tp, mp, server, scraping, notified, canceled, expired, errs, exit>>

Init ==
    /\ at = "load"
    /\ enabled \in BOOLEAN
    /\ tp = "none" /\ mp = "none" /\ server = "none"
    /\ scraping = FALSE
    /\ notified = FALSE /\ canceled = FALSE
    /\ expired = FALSE /\ errs = {}
    /\ exit = "none"

Goto(p)    == at' = p /\ UNCHANGED exit
Exit(code) == at' = "gone" /\ exit' = code

(* What a step of main that has nothing to do with them leaves alone. *)
Outside == UNCHANGED <<enabled, scraping>>
Signals == UNCHANGED <<notified, canceled>>
Closing == UNCHANGED <<expired, errs>>

-----------------------------------------------------------------------------
(* Start: config.Load and telemetry.New.  Each step of New may fail; then it  *)
(* releases what it has, and main exits.                                      *)
Load ==
    /\ at = "load"
    /\ \/ Goto(IF enabled THEN "exporter" ELSE "notify")
       \/ Exit("error")
    /\ UNCHANGED <<tp, mp, server>> /\ Outside /\ Signals /\ Closing

CreateExporter ==
    /\ at = "exporter"
    /\ \/ Goto("prometheus") /\ tp' = "up"
       \/ Exit("error") /\ UNCHANGED tp
    /\ UNCHANGED <<mp, server>> /\ Outside /\ Signals /\ Closing

CreatePrometheus ==
    /\ at = "prometheus"
    /\ \/ Goto("instruments") /\ mp' = "up" /\ UNCHANGED tp
       \/ Exit("error") /\ tp' = "down" /\ UNCHANGED mp
    /\ UNCHANGED server /\ Outside /\ Signals /\ Closing

CreateInstruments ==
    /\ at = "instruments"
    /\ \/ Goto("listen") /\ UNCHANGED <<tp, mp>>
       \/ Exit("error") /\ mp' = "down" /\ tp' = "down"
    /\ UNCHANGED server /\ Outside /\ Signals /\ Closing

Listen ==
    /\ at = "listen"
    /\ \/ Goto("notify") /\ server' = "up" /\ UNCHANGED <<tp, mp>>
       \/ Exit("error") /\ mp' = "down" /\ tp' = "down" /\ UNCHANGED server
    /\ Outside /\ Signals /\ Closing

-----------------------------------------------------------------------------
(* Run, and main behind it. *)
Notify ==
    /\ at = "notify"
    /\ Goto("run")
    /\ notified' = TRUE
    /\ UNCHANGED <<tp, mp, server, canceled>> /\ Outside /\ Closing

(* BeginDrain that gives the signals back first, so that a second one kills. *)
BeginDrain_Stops ==
    /\ at = "run" /\ canceled
    /\ Goto("drain")
    /\ notified' = FALSE
    /\ UNCHANGED <<tp, mp, server, canceled>> /\ Outside /\ Closing

BeginDrain ==
    /\ at = "run"
    /\ canceled
    /\ Goto("drain")
    /\ UNCHANGED <<tp, mp, server>> /\ Outside /\ Signals /\ Closing

(* Run returns nil: its context was canceled, the signal being the only thing *)
(* that ends it.  An error of Run would make main exit without its deferred   *)
(* calls.                                                                     *)
RunReturns ==
    /\ at = "drain"
    /\ IF canceled THEN Goto("stop") ELSE Exit("error")
    /\ UNCHANGED <<tp, mp, server>> /\ Outside /\ Signals /\ Closing

(* The deferred calls run in reverse order: stop, then tel.Shutdown. *)
Stop ==
    /\ at = "stop"
    /\ notified' = FALSE
    /\ IF enabled THEN Goto("close") ELSE Exit("ok")
    /\ UNCHANGED <<tp, mp, server, canceled>> /\ Outside /\ Closing

(* server.Shutdown closes the listener and waits for the open requests. *)
CloseServer ==
    /\ at = "close"
    /\ server' = "down"
    /\ Goto("await")
    /\ UNCHANGED <<tp, mp>> /\ Outside /\ Signals /\ Closing

(* AwaitRequests without a deadline. *)
AwaitRequests_Forever ==
    /\ at = "await" /\ ~scraping
    /\ Goto("meters")
    /\ UNCHANGED <<tp, mp, server>> /\ Outside /\ Signals /\ Closing

(* AwaitRequests whose error ends Shutdown. *)
AwaitRequests_FirstError ==
    /\ at = "await"
    /\ \/ ~scraping /\ Goto("meters") /\ UNCHANGED errs
       \/ expired /\ Exit("ok") /\ errs' = errs \cup {"server"}
    /\ UNCHANGED <<tp, mp, server, expired>> /\ Outside /\ Signals

AwaitRequests ==
    /\ at = "await"
    /\ \/ ~scraping /\ UNCHANGED errs
       \/ expired /\ errs' = errs \cup {"server"}
    /\ Goto("meters")
    /\ UNCHANGED <<tp, mp, server, expired>> /\ Outside /\ Signals

ShutdownMeters ==
    /\ at = "meters"
    /\ mp' = "down"
    /\ \/ UNCHANGED errs
       \/ expired /\ errs' = errs \cup {"meters"}
    /\ Goto("traces")
    /\ UNCHANGED <<tp, server, expired>> /\ Outside /\ Signals

(* The batch spans that are left are exported, or that fails.  main logs the  *)
(* joined errors and ends as it would without.                                *)
ShutdownTraces ==
    /\ at = "traces"
    /\ tp' = "down"
    /\ errs' \in {errs, errs \cup {"traces"}}
    /\ Exit("ok")
    /\ UNCHANGED <<mp, server, expired>> /\ Outside /\ Signals

Main ==
    \/ Load \/ CreateExporter \/ CreatePrometheus \/ CreateInstruments \/ Listen
    \/ Notify \/ BeginDrain \/ RunReturns \/ Stop
    \/ CloseServer \/ AwaitRequests \/ ShutdownMeters \/ ShutdownTraces

-----------------------------------------------------------------------------
(* The other goroutines and the world. *)

(* Prometheus opens and closes a request; it may also hang. *)
Scrape ==
    /\ at # "gone"
    /\ scraping \/ server = "up"
    /\ scraping' = ~scraping
    /\ UNCHANGED <<at, enabled, tp, mp, server,
                   notified, canceled, expired, errs, exit>>

(* Serve returns with an error that is only logged. *)
ServeFails ==
    /\ server = "up" /\ at # "gone"
    /\ server' = "failed"
    /\ UNCHANGED <<at, enabled, tp, mp, scraping,
                   notified, canceled, expired, errs, exit>>

(* SIGINT or SIGTERM: it ends the context while NotifyContext receives it,    *)
(* and the process otherwise.                                                 *)
Signal ==
    /\ at # "gone"
    /\ IF notified THEN canceled' = TRUE /\ UNCHANGED <<at, exit>>
                   ELSE Exit("killed") /\ UNCHANGED canceled
    /\ UNCHANGED <<enabled, tp, mp, server, scraping,
                   notified, expired, errs>>

(* The deadline of Shutdown, at most five seconds. *)
Expire ==
    /\ at \in {"close", "await", "meters", "traces"}
    /\ ~expired
    /\ expired' = TRUE
    /\ UNCHANGED <<at, enabled, tp, mp, server, scraping,
                   notified, canceled, errs, exit>>

World == Scrape \/ ServeFails \/ Signal

Next == Main \/ Expire \/ World

(* main goes on and its deadline comes; nothing ends a scrape. *)
Fairness == WF_vars(Main) /\ WF_vars(Expire)
Spec     == Init /\ [][Next]_vars
FairSpec == Spec /\ Fairness

-----------------------------------------------------------------------------
(* Unless a signal kills it, the process leaves nothing running behind: not   *)
(* when New fails at any of its steps, not when it exits with an error, and   *)
(* not when a call of Shutdown fails before the others have been made         *)
(* (telemetry.go:104-109, 117-143, 315-331, main.go:28-47).                   *)
NothingLeftRunning ==
    exit \in {"ok", "error"} => {tp, mp, server} \subseteq {"none", "down"}

(* A second signal during the drain does not kill the process: from the start *)
(* of Run to its end signals only end the context (main.go:41-44).            *)
DrainSurvivesSignals == [][(at \in {"run", "drain"}) => (exit' # "killed")]_vars

(* After a signal the process ends, even with a scrape that hangs and a       *)
(* collector that does not answer (main.go:33-39, telemetry.go:321-329).      *)
SignalEndsProcess == canceled ~> exit # "none"
=============================================================================
