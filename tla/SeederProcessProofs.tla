------------------------- MODULE SeederProcessProofs -------------------------
(* The theorems about the life of the seeder's process.                       *)
EXTENDS SeederProcess, TLAPS

(* Where main is, tells what the process has acquired. *)
Starting == {"load", "exporter", "prometheus", "instruments", "listen"}
Ending   == {"close", "await", "meters", "traces"}

Acquired ==
    /\ at \in {"load", "exporter"} => tp = "none"
    /\ at \in {"load", "exporter", "prometheus"} => mp = "none"
    /\ at \in Starting => server = "none"
    /\ at \in {"await", "meters", "traces"} => server = "down"
    /\ at = "traces" => mp = "down"

(* Telemetry that is not enabled is never set up nor shut down. *)
Disabled ==
    /\ ~enabled => tp = "none" /\ mp = "none" /\ server = "none"
    /\ at \in (Starting \ {"load"}) \cup Ending => enabled

(* Run has the signals, and it goes on to its end only when one has come. *)
Signaled ==
    /\ at \in {"run", "drain"} => notified
    /\ at = "drain" => canceled

Ended == exit # "none" => at = "gone"

ProcessInv == Acquired /\ Disabled /\ Signaled /\ Ended /\ NothingLeftRunning

LEMMA InitProcessInv == Init => ProcessInv
BY DEF Init, ProcessInv, Acquired, Disabled, Signaled, Ended, NothingLeftRunning,
       Starting, Ending

(* The start of the process keeps the invariant. *)
LEMMA StartKeeps ==
    ASSUME ProcessInv,
           Load \/ CreateExporter \/ CreatePrometheus \/ CreateInstruments \/ Listen
    PROVE  ProcessInv'
<1> USE DEF ProcessInv, Acquired, Disabled, Signaled, Ended, NothingLeftRunning,
            Starting, Ending, Goto, Exit, Outside, Signals, Closing
<1>1. CASE Load
  BY <1>1 DEF Load
<1>2. CASE CreateExporter
  BY <1>2 DEF CreateExporter
<1>3. CASE CreatePrometheus
  BY <1>3 DEF CreatePrometheus
<1>4. CASE CreateInstruments
  BY <1>4 DEF CreateInstruments
<1>5. CASE Listen
  BY <1>5 DEF Listen
<1> QED
  BY <1>1, <1>2, <1>3, <1>4, <1>5

(* Run and the calls deferred behind it keep the invariant. *)
LEMMA RunKeeps ==
    ASSUME ProcessInv,
           Notify \/ BeginDrain \/ RunReturns \/ Stop
           \/ CloseServer \/ AwaitRequests \/ ShutdownMeters \/ ShutdownTraces
    PROVE  ProcessInv'
<1> USE DEF ProcessInv, Acquired, Disabled, Signaled, Ended, NothingLeftRunning,
            Starting, Ending, Goto, Exit, Outside, Signals, Closing
<1>1. CASE Notify
  BY <1>1 DEF Notify
<1>2. CASE BeginDrain
  BY <1>2 DEF BeginDrain
<1>3. CASE RunReturns
  BY <1>3 DEF RunReturns
<1>4. CASE Stop
  BY <1>4 DEF Stop
<1>5. CASE CloseServer
  BY <1>5 DEF CloseServer
<1>6. CASE AwaitRequests
  BY <1>6 DEF AwaitRequests
<1>7. CASE ShutdownMeters
  BY <1>7 DEF ShutdownMeters
<1>8. CASE ShutdownTraces
  BY <1>8 DEF ShutdownTraces
<1> QED
  BY <1>1, <1>2, <1>3, <1>4, <1>5, <1>6, <1>7, <1>8

(* The world outside main keeps the invariant. *)
LEMMA WorldKeeps ==
    ASSUME ProcessInv, Expire \/ World \/ UNCHANGED vars
    PROVE  ProcessInv'
<1> USE DEF ProcessInv, Acquired, Disabled, Signaled, Ended, NothingLeftRunning,
            Starting, Ending, Exit
<1>1. CASE Scrape
  BY <1>1 DEF Scrape
<1>2. CASE ServeFails
  BY <1>2 DEF ServeFails
<1>3. CASE Signal
  BY <1>3 DEF Signal
<1>4. CASE Expire
  BY <1>4 DEF Expire
<1>5. CASE UNCHANGED vars
  BY <1>5 DEF vars
<1> QED
  BY <1>1, <1>2, <1>3, <1>4, <1>5 DEF World

LEMMA ProcessInvHolds == Spec => []ProcessInv
<1>1. ProcessInv /\ [Next]_vars => ProcessInv'
  BY StartKeeps, RunKeeps, WorldKeeps DEF Next, Main
<1> QED
  BY InitProcessInv, <1>1, PTL DEF Spec

(* Unless a signal kills it, the process leaves no provider and no server     *)
(* running, wherever its start or its shutdown fails (telemetry.go:104-143,   *)
(* 315-331, main.go:28-47).                                                   *)
THEOREM AllReleased == Spec => []NothingLeftRunning
<1>1. ProcessInv => NothingLeftRunning
  BY DEF ProcessInv
<1> QED
  BY ProcessInvHolds, <1>1, PTL

(* A signal while Run works or drains, the first or any other, does not kill  *)
(* the process (main.go:41-44).                                               *)
THEOREM RunSurvives == Spec => DrainSurvivesSignals
<1>1. ProcessInv /\ [Next]_vars
        => [(at \in {"run", "drain"}) => (exit' # "killed")]_vars
  <2> SUFFICES ASSUME ProcessInv, Next, at \in {"run", "drain"}
               PROVE  exit' # "killed"
    BY DEF vars
  <2>1. exit = "none" /\ notified
    BY DEF ProcessInv, Ended, Signaled
  <2>2. CASE Main
    BY <2>1, <2>2 DEF Main, Load, CreateExporter, CreatePrometheus, CreateInstruments,
       Listen, Notify, BeginDrain, RunReturns, Stop, CloseServer, AwaitRequests,
       ShutdownMeters, ShutdownTraces, Goto, Exit
  <2>3. CASE Expire \/ World
    BY <2>1, <2>3 DEF Expire, World, Scrape, ServeFails, Signal
  <2> QED
    BY <2>2, <2>3 DEF Next
<1> QED
  BY ProcessInvHolds, <1>1, PTL DEF Spec, DrainSurvivesSignals

=============================================================================
