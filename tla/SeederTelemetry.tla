--------------------------- MODULE SeederTelemetry ---------------------------
(* The pipeline with the telemetry its goroutines keep (telemetry.go): the    *)
(* counters and the latency histogram of each core, and the three atomics     *)
(* behind its gauges.  A goroutine of SeederPipeline makes a number of        *)
(* telemetry calls after each of its steps and only then goes on; every call  *)
(* is a step of its own, and so is the len(channel) that the argument of      *)
(* SetQueueDepth is.  Two of the calls come between the return of PostBatch   *)
(* and the decision what becomes of the batch, which SeederPipeline takes in  *)
(* one step: here the worker holds the result while others go on.  Telemetry  *)
(* is enabled.                                                                *)
EXTENDS SeederPipeline

VARIABLES
    metrics,    \* the counters of each core
    latency,    \* how many requests of each outcome the histogram counts
    gauges,     \* coreState: the atomics of each core
    calls,      \* the calls each goroutine makes before its next step
    result      \* what PostBatch has returned to each worker that has not looked at it

telVars == <<metrics, latency, gauges, calls, result>>
allVars == <<phase, forced, prod, batch, queue, pc, job, attempt, stats, settled,
             metrics, latency, gauges, calls, result>>

ASSUME NameAssumption == Cores \cap Workers = {}

Counter == {"generatedDocs", "sentDocs", "batchesSent", "sendFailures", "retries"}
Gauge   == {"activeWorkers", "inFlight", "queueDepth"}
RequestOutcome == {"success", "canceled", "error"}
Request == {"post", "doomed"}

Goroutine == Cores \cup Workers
Core(a)   == IF a \in Cores THEN a ELSE CoreOf[a]

(* A call names what it changes and by how much; "len" is the evaluation of   *)
(* len(channel), which leaves the Store to be done.                           *)
SetQueueDepth    == <<"len", 0>>
StartWorker      == <<"activeWorkers", 1>>
doneWorker       == <<"activeWorkers", -1>>
StartRequestCall == <<"inFlight", 1>>
doneRequest      == <<"inFlight", -1>>
RecordRequestDuration(err) == <<requestOutcome(err), 1>>
AddGeneratedDocs == <<"generatedDocs", 1>>
AddRetry         == <<"retries", 1>>
RecordBatchFailure == <<"sendFailures", 1>>

(* RecordBatchSuccess with the configured size of a batch. *)
RecordBatchSuccess_Configured(n) == << <<"sentDocs", BatchSize>>, <<"batchesSent", 1>> >>

RecordBatchSuccess(n) == << <<"sentDocs", n>>, <<"batchesSent", 1>> >>

TelInit ==
    /\ Init
    /\ metrics = [c \in Cores |-> [m \in Counter |-> 0]]
    /\ latency = [c \in Cores |-> [o \in RequestOutcome |-> 0]]
    /\ gauges = [c \in Cores |-> [g \in Gauge |-> 0]]
    /\ calls = [a \in Goroutine |-> IF a \in Workers THEN <<StartWorker>> ELSE <<>>]
    /\ result = [w \in Workers |-> {}]

Idle(a)     == calls[a] = <<>>
Then(a, cs) == calls' = [calls EXCEPT ![a] = cs]

-----------------------------------------------------------------------------
(* The calls. *)

(* The argument of SetQueueDepth: nothing holds the channel until the Store. *)
EvaluateLen(a) ==
    LET c == Core(a)
    IN  /\ ~Idle(a)
        /\ Head(calls[a])[1] = "len"
        /\ Then(a, << <<"queueDepth", Len(queue[c])>> >> \o Tail(calls[a]))
        /\ UNCHANGED <<vars, metrics, latency, gauges, result>>

Store(a) ==
    LET call == Head(calls[a])
    IN  /\ ~Idle(a)
        /\ call[1] = "queueDepth"
        /\ gauges' = [gauges EXCEPT ![Core(a)].queueDepth = call[2]]
        /\ Then(a, Tail(calls[a]))
        /\ UNCHANGED <<vars, metrics, latency, result>>

(* activeWorkers and inFlight. *)
Track(a) ==
    LET call == Head(calls[a])
    IN  /\ ~Idle(a)
        /\ call[1] \in {"activeWorkers", "inFlight"}
        /\ gauges' = [gauges EXCEPT ![Core(a)][call[1]] = @ + call[2]]
        /\ Then(a, Tail(calls[a]))
        /\ UNCHANGED <<vars, metrics, latency, result>>

Count(a) ==
    LET call == Head(calls[a])
    IN  /\ ~Idle(a)
        /\ call[1] \in Counter
        /\ metrics' = [metrics EXCEPT ![Core(a)][call[1]] = @ + call[2]]
        /\ Then(a, Tail(calls[a]))
        /\ UNCHANGED <<vars, latency, gauges, result>>

(* The histogram of request durations. *)
Measure(a) ==
    LET call == Head(calls[a])
    IN  /\ ~Idle(a)
        /\ call[1] \in RequestOutcome
        /\ latency' = [latency EXCEPT ![Core(a)][call[1]] = @ + call[2]]
        /\ Then(a, Tail(calls[a]))
        /\ UNCHANGED <<vars, metrics, gauges, result>>

Observe(a) == EvaluateLen(a) \/ Store(a) \/ Track(a) \/ Count(a) \/ Measure(a)

-----------------------------------------------------------------------------
(* The steps of the pipeline and the calls that follow them. *)

(* The flush and the send set the depth; a drop does not. *)
TelProduce(c) ==
    /\ Idle(c)
    /\ \/ Generate(c) /\ Then(c, <<AddGeneratedDocs>>)
       \/ (SendBatch(c) \/ FlushPartial(c)) /\ Then(c, <<SetQueueDepth>>)
       \/ (KeepGoing(c) \/ SendInterrupted(c) \/ StopEmpty(c) \/ DropPartial(c))
             /\ UNCHANGED calls
    /\ UNCHANGED <<metrics, latency, gauges, result>>

(* AfterPostBatch whose doneRequest is reached by successful requests only. *)
AfterPostBatch_OnSuccess(err) ==
    IF err.failed THEN <<RecordRequestDuration(err)>>
                  ELSE <<doneRequest, RecordRequestDuration(err)>>

(* The calls before the result is looked at. *)
AfterPostBatch(err) == <<doneRequest, RecordRequestDuration(err)>>

Return(w, err) ==
    /\ result' = [result EXCEPT ![w] = {err}]
    /\ Then(w, AfterPostBatch(err))

(* PostReturns whose requests are made under a context of their own. *)
PostReturns_Detached(w) ==
    /\ pc[w] \in Request /\ result[w] = {}
    /\ \E x \in Answers \cup ContextEnds("deadline") : Return(w, PostBatch(x))
    /\ UNCHANGED <<vars, metrics, latency, gauges>>

(* PostBatch returns, as in PostEnds, RequestTimeout and RequestCanceled. *)
PostReturns(w) ==
    /\ result[w] = {}
    /\ \/ pc[w] = "post" /\ \E x \in Answers \cup ContextEnds("deadline") :
                               Return(w, PostBatch(x))
       \/ pc[w] \in Request /\ forced
             /\ \E x \in ContextEnds("canceled") : Return(w, PostBatch(x))
    /\ UNCHANGED <<vars, metrics, latency, gauges>>

(* The worker looks at the result, and at its context as it is by now. *)
TelAfterPost(w) ==
    /\ \E err \in result[w] :
          \/ Succeed(w, err) /\ Then(w, RecordBatchSuccess(Cardinality(job[w])))
          \/ GiveUpCanceled(w, err) /\ UNCHANGED calls
          \/ GiveUp(w, err) /\ Then(w, <<RecordBatchFailure>>)
          \/ ScheduleRetry(w, err) /\ Then(w, <<AddRetry>>)
    /\ result' = [result EXCEPT ![w] = {}]
    /\ UNCHANGED <<phase, forced, prod, batch, queue, metrics, latency, gauges>>

(* The producer closes the channel after its last SetQueueDepth. *)
TelReturn(w) ==
    /\ \/ ReturnIdle(w) /\ (forced \/ Idle(CoreOf[w]))
       \/ SleepCanceled(w)
    /\ Then(w, <<doneWorker>>)

TelWork(w) ==
    /\ Idle(w)
    /\ \/ PostReturns(w) \/ TelAfterPost(w)
       \/ /\ \/ ReceiveJob(w) /\ Then(w, <<SetQueueDepth, StartRequestCall>>)
             \/ BackoffElapsed(w) /\ Then(w, <<StartRequestCall>>)
             \/ (BackoffCanceled(w) \/ SleepElapsed(w)) /\ UNCHANGED calls
             \/ TelReturn(w)
          /\ UNCHANGED <<metrics, latency, gauges, result>>

(* The wait groups count goroutines that have made all their calls. *)
TelCoordinate ==
    /\ \/ Shutdown \/ ShutdownTimeout
       \/ ProducersJoined /\ \A c \in Cores : Idle(c)
       \/ Finish /\ \A w \in Workers : Idle(w)
    /\ UNCHANGED telVars

TelNext ==
    \/ \E a \in Goroutine : Observe(a)
    \/ \E c \in Cores : TelProduce(c)
    \/ \E w \in Workers : TelWork(w)
    \/ TelCoordinate

TelSpec == TelInit /\ [][TelNext]_allVars

-----------------------------------------------------------------------------
(* The gauges of workers and requests tell the truth whenever no worker of    *)
(* the core is on its way to a call, whatever path it took out of a request   *)
(* or out of its loop: retry, failure, cancellation during a request, a       *)
(* backoff or a pause.  So they are zero when Run has returned, and at any    *)
(* moment no more requests are in flight than workers are active              *)
(* (telemetry.go:221-245, worker.go:96-100, worker.go:143-148).               *)
GaugesTrackWorkers ==
    \A c \in Cores :
        /\ gauges[c].inFlight <= gauges[c].activeWorkers
        /\ gauges[c].activeWorkers <= Cardinality(WorkersOf(c))
        /\ (\A w \in WorkersOf(c) : Idle(w)) =>
              /\ gauges[c].inFlight
                    = Cardinality({w \in WorkersOf(c) : pc[w] \in Request /\ result[w] = {}})
              /\ gauges[c].activeWorkers
                    = Cardinality({w \in WorkersOf(c) : pc[w] # "returned"})

(* The exported counters never run ahead of the seeder's own, and both say    *)
(* the same when Run logs the final totals (worker.go:44-47, 153-213,         *)
(* runner.go:168).                                                            *)
CountersMirrorStats ==
    \A c \in Cores :
        LET m     == metrics[c]
            s     == stats[c]
            pairs == { <<m.generatedDocs, s.generatedDocs>>, <<m.sentDocs, s.successfulDocs>>,
                       <<m.batchesSent, s.successfulRequests>>,
                       <<m.sendFailures, s.terminalFailures>>, <<m.retries, s.retryAttempts>> }
        IN  \A p \in pairs : p[1] <= p[2] /\ (phase = "finished" => p[1] = p[2])

(* The requests of core c that the histogram has and the counters do not: the *)
(* worker holds a result whose outcome is one of these.                       *)
Ahead(c, outcomes) ==
    Cardinality({w \in WorkersOf(c) :
        Idle(w) /\ \E err \in result[w] : requestOutcome(err) \in outcomes})

(* Every request the histogram counts is accounted for by the counters: a     *)
(* success is a batch sent, and an error is a retry or a terminal failure,    *)
(* except that the forced shutdown settles a batch without either, also one   *)
(* whose request had failed before it; nothing is recorded as canceled before *)
(* it.  The histogram is ahead by the requests that have returned and whose   *)
(* result no one has looked at, and by nothing else (worker.go:147-210,       *)
(* 248-256).                                                                  *)
LatencyExplained ==
    \A c \in Cores :
        LET l       == latency[c]
            counted == stats[c].retryAttempts + stats[c].terminalFailures
            failed  == Ahead(c, {"error", "canceled"})
        IN  /\ l["success"] = stats[c].successfulRequests + Ahead(c, {"success"})
            /\ counted + failed <= l["error"] + l["canceled"]
            /\ l["error"] + l["canceled"]
                  <= counted + failed + Cardinality(settled[c]["canceled"])
            /\ ~forced => l["error"] = counted + Ahead(c, {"error"}) /\ l["canceled"] = 0

(* The pipeline alone, where PostBatch returns and its result is dealt with   *)
(* in one step, does whatever the pipeline with telemetry does: that workers  *)
(* hold results while forceCancel strikes and others send, drop and count     *)
(* opens no outcome that the one step does not have (worker.go:147-210).      *)
ImplementsPipeline == Init /\ [][Next]_vars

(* What the gauge's description says, "Current number of queued batches       *)
(* waiting for workers.", asked only when no goroutine is on its way to       *)
(* storing a depth (telemetry.go:415).                                        *)
QueueDepthCurrent ==
    (\A a \in Goroutine : Idle(a)) => \A c \in Cores : gauges[c].queueDepth = Len(queue[c])
=============================================================================
