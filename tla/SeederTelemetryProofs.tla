------------------------ MODULE SeederTelemetryProofs ------------------------
(* The pipeline with its telemetry implements the pipeline alone, so that     *)
(* what is proved of the one holds of the other: a result that a worker       *)
(* holds, whatever others do meanwhile, is one the pipeline would still give  *)
(* it.  On this rest the gauges, the histogram and the exported counters.     *)
EXTENDS SeederTelemetry, SeederPipelineProofs

(* A result that PostBatch may return to a worker in its place; being forced  *)
(* lasts, so the place alone decides when the worker looks at it.             *)
Obtained(w, err) ==
    \/ pc[w] = "post" /\ \E x \in Answers \cup ContextEnds("deadline") : err = PostBatch(x)
    \/ pc[w] \in Request /\ forced /\ \E x \in ContextEnds("canceled") : err = PostBatch(x)

Held(w) == result[w] = {} \/ \E err : Obtained(w, err) /\ result[w] = {err}

ResultInv ==
    /\ calls = [a \in Goroutine |-> calls[a]]
    /\ result = [w \in Workers |-> result[w]]
    /\ \A w \in Workers : Held(w)

LEMMA ResultsStart == TelInit => ResultInv
BY DEF TelInit, ResultInv, Held

(* What a held result tells of its worker. *)
LEMMA HeldFacts ==
    ASSUME ResultInv, NEW w \in Workers, NEW err \in result[w]
    PROVE  pc[w] \in Request /\ Obtained(w, err) /\ result[w] = {err}
BY DEF ResultInv, Held, Obtained, Request

(* A call changes telemetry only. *)
LEMMA CallsStutter ==
    ASSUME NEW a \in Goroutine, Observe(a)
    PROVE  UNCHANGED vars /\ result' = result
BY DEF Observe, EvaluateLen, Store, Track, Count, Measure

(* A step of a producer with its calls is a step of the producer. *)
LEMMA ProducerSteps ==
    ASSUME NEW c \in Cores, TelProduce(c)
    PROVE  Produce(c)
BY DEF TelProduce, Produce

(* What a worker does with the result it holds is what it would do had the    *)
(* request ended just now.                                                    *)
LEMMA ResultSteps ==
    ASSUME ResultInv, NEW w \in Workers, TelAfterPost(w)
    PROVE  Work(w)
<1>1. PICK err \in result[w] : AfterPost(w, err)
  BY DEF TelAfterPost, AfterPost
<1>2. Obtained(w, err)
  BY HeldFacts
<1>3. CASE pc[w] = "post" /\ \E x \in Answers : err = PostBatch(x)
  BY <1>1, <1>3 DEF PostEnds, Work
<1>4. CASE pc[w] = "post" /\ \E x \in ContextEnds("deadline") : err = PostBatch(x)
  BY <1>1, <1>4 DEF RequestTimeout, WorkAlone, Work
<1>5. CASE pc[w] \in Request /\ forced /\ \E x \in ContextEnds("canceled") : err = PostBatch(x)
  BY <1>1, <1>5 DEF RequestCanceled, WorkAlone, Work, Request
<1> QED
  BY <1>2, <1>3, <1>4, <1>5 DEF Obtained

(* A step of a worker with its calls is a step of the worker, or the return   *)
(* of PostBatch, of which the pipeline knows nothing yet.                     *)
LEMMA WorkerSteps ==
    ASSUME ResultInv, NEW w \in Workers, TelWork(w)
    PROVE  Work(w) \/ (PostReturns(w) /\ UNCHANGED vars)
<1>1. CASE PostReturns(w)
  BY <1>1 DEF PostReturns
<1>2. CASE TelAfterPost(w)
  BY <1>2, ResultSteps
<1>3. CASE ~PostReturns(w) /\ ~TelAfterPost(w)
  BY <1>3 DEF TelWork, TelReturn, Work, WorkAlone
<1> QED
  BY <1>1, <1>2, <1>3

LEMMA TelSteps ==
    ASSUME ResultInv, [TelNext]_allVars
    PROVE  [Next]_vars
<1> SUFFICES Next \/ UNCHANGED vars
  BY DEF vars
<1>1. CASE \E a \in Goroutine : Observe(a)
  BY <1>1, CallsStutter
<1>2. CASE \E c \in Cores : TelProduce(c)
  BY <1>2, ProducerSteps DEF Next
<1>3. CASE \E w \in Workers : TelWork(w)
  BY <1>3, WorkerSteps DEF Next
<1>4. CASE TelCoordinate
  BY <1>4 DEF TelCoordinate, Coordinate, Next
<1>5. CASE UNCHANGED allVars
  BY <1>5 DEF allVars, vars
<1> QED
  BY <1>1, <1>2, <1>3, <1>4, <1>5 DEF TelNext

(* Where the others are while a worker moves, and that they keep what they    *)
(* hold.                                                                      *)
LEMMA WorkerPlaces ==
    ASSUME TypeOK, NEW w \in Workers, Work(w)
    PROVE  /\ \A v \in Workers \ {w} : pc'[v] = pc[v]
           /\ forced' = forced
BY DEF TypeOK, Work, WorkAlone, ReceiveJob, ReturnIdle, PostEnds, RequestTimeout,
       RequestCanceled, BackoffElapsed, BackoffCanceled, SleepElapsed, SleepCanceled,
       AfterPost, Succeed, GiveUpCanceled, GiveUp, ScheduleRetry, Release, StartRequest

LEMMA HeldStays ==
    ASSUME NEW v \in Workers, Held(v), result'[v] = result[v], pc'[v] = pc[v],
           forced => forced'
    PROVE  Held(v)'
BY DEF Held, Obtained

(* The steps of a worker that leave results alone start from places without   *)
(* one.                                                                       *)
LEMMA LoopPlaces ==
    ASSUME NEW w \in Workers, TelWork(w), ~PostReturns(w), ~TelAfterPost(w)
    PROVE  pc[w] \notin Request /\ result' = result
BY DEF TelWork, TelReturn, ReceiveJob, BackoffElapsed, BackoffCanceled, SleepElapsed,
       ReturnIdle, SleepCanceled, Request

LEMMA ResultsWork ==
    ASSUME ResultInv, TypeOK, NEW w \in Workers, TelWork(w)
    PROVE  \A v \in Workers : Held(v)'
<1>1. \A v \in Workers : Held(v)
  BY DEF ResultInv
<1>2. /\ \A v \in Workers \ {w} : pc'[v] = pc[v]
      /\ forced' = forced
  BY WorkerSteps, WorkerPlaces DEF vars
<1>3. \A v \in Workers \ {w} : result'[v] = result[v]
  BY DEF TelWork, PostReturns, Return, TelAfterPost, ResultInv
<1>4. \A v \in Workers \ {w} : Held(v)'
  BY <1>1, <1>2, <1>3, HeldStays
<1>5. CASE PostReturns(w)
  <2>1. PICK err : /\ Obtained(w, err)
                   /\ result' = [result EXCEPT ![w] = {err}]
    BY <1>5 DEF PostReturns, Return, Obtained
  <2>2. result'[w] = {err}
    BY <2>1 DEF ResultInv
  <2>3. pc' = pc /\ forced' = forced
    BY <1>5 DEF PostReturns, vars
  <2>4. Obtained(w, err)'
    BY <2>1, <2>3 DEF Obtained
  <2>5. Held(w)'
    BY <2>2, <2>4 DEF Held
  <2> QED
    BY <1>4, <2>5
<1>6. CASE TelAfterPost(w)
  <2>1. result'[w] = {}
    BY <1>6 DEF TelAfterPost, ResultInv
  <2>2. Held(w)'
    BY <2>1 DEF Held
  <2> QED
    BY <1>4, <2>2
<1>7. CASE ~PostReturns(w) /\ ~TelAfterPost(w)
  <2>1. pc[w] \notin Request /\ result'[w] = result[w]
    BY <1>7, LoopPlaces
  <2>2. result[w] = {}
    BY <1>1, <2>1 DEF Held, Obtained, Request
  <2>3. Held(w)'
    BY <2>1, <2>2 DEF Held
  <2> QED
    BY <1>4, <2>3
<1> QED
  BY <1>5, <1>6, <1>7

LEMMA ResultsStep ==
    ASSUME ResultInv, TypeOK, [TelNext]_allVars
    PROVE  ResultInv'
<1>1. /\ calls' = [a \in Goroutine |-> calls'[a]]
      /\ result' = [w \in Workers |-> result'[w]]
  BY DEF ResultInv, TelNext, Observe, EvaluateLen, Store, Track, Count, Measure,
         TelProduce, TelWork, PostReturns, Return, TelAfterPost, TelReturn, Then,
         TelCoordinate, telVars, allVars
<1>2. \A v \in Workers : Held(v)
  BY DEF ResultInv
<1>3. CASE \E a \in Goroutine : Observe(a)
  <2>1. result' = result /\ pc' = pc /\ forced' = forced
    BY <1>3, CallsStutter DEF vars
  <2> QED
    BY <1>1, <1>2, <2>1, HeldStays DEF ResultInv
<1>4. CASE \E c \in Cores : TelProduce(c)
  <2>1. PICK c \in Cores : TelProduce(c)
    BY <1>4
  <2>2. result' = result
    BY <2>1 DEF TelProduce
  <2>3. pc' = pc /\ forced' = forced
    BY <2>1, ProducerSteps DEF Produce, KeepGoing, Generate, SendBatch, SendInterrupted,
                               StopEmpty, FlushPartial, DropPartial
  <2> QED
    BY <1>1, <1>2, <2>2, <2>3, HeldStays DEF ResultInv
<1>5. CASE \E w \in Workers : TelWork(w)
  BY <1>1, <1>5, ResultsWork DEF ResultInv
<1>6. CASE TelCoordinate \/ UNCHANGED allVars
  <2>1. result' = result /\ pc' = pc /\ (forced => forced')
    BY <1>6 DEF TelCoordinate, telVars, allVars, Shutdown, ShutdownTimeout, ProducersJoined,
                Finish
  <2> QED
    BY <1>1, <1>2, <2>1, HeldStays DEF ResultInv
<1> QED
  BY <1>3, <1>4, <1>5, <1>6 DEF TelNext

LEMMA ResultsAlways == TelSpec => [](ResultInv /\ TypeOK)
<1>1. TelInit => ResultInv /\ TypeInv
  BY ResultsStart, TypeInit DEF TelInit
<1>2. TypeInv => TypeOK
  BY DEF TypeInv
<1>3. ResultInv /\ TypeInv /\ [TelNext]_allVars => (ResultInv /\ TypeInv)'
  BY <1>2, ResultsStep, TelSteps, TypeNext
<1> QED
  BY <1>1, <1>2, <1>3, PTL DEF TelSpec

(* Whatever the pipeline with telemetry does, the pipeline does where         *)
(* PostBatch returns and its result is dealt with in one step: no sending,    *)
(* dropping or forceCancel between the two lets a worker decide what it       *)
(* could not have decided at once (worker.go:147-210).                        *)
THEOREM TelemetryImplementsPipeline == TelSpec => ImplementsPipeline
<1>1. TelInit => Init
  BY DEF TelInit
<1>2. ResultInv /\ [TelNext]_allVars => [Next]_vars
  BY TelSteps
<1> QED
  BY <1>1, <1>2, ResultsAlways, PTL DEF TelSpec, ImplementsPipeline

(* So no document is lost or held twice while telemetry is switched on        *)
(* (worker.go:20-125).                                                        *)
THEOREM DocsAccountedObserved == TelSpec => []DocsAccounted
BY TelemetryImplementsPipeline, DocsAlwaysAccounted, PTL DEF ImplementsPipeline, Spec

(* The pipeline with telemetry keeps the document ledger too                  *)
(* (worker.go:20-125).                                                        *)
THEOREM LedgerObserved == TelSpec => ImplementsLedger
BY TelemetryImplementsPipeline, PipelineKeepsLedger, PTL DEF ImplementsPipeline, Spec

-----------------------------------------------------------------------------
(* The gauges.  A worker on its way into a request has yet to set the depth   *)
(* and to register the request; one whose request has returned has yet to     *)
(* take it out and to record it; one that has left its loop has yet to say    *)
(* so; any other has at most to count, or to say that it started.             *)
Waits(s) ==
    \/ s = <<>> \/ s = <<StartRequestCall>>
    \/ \E name \in {"len", "queueDepth"}, n \in Nat : s = << <<name, n>>, StartRequestCall>>

Reports(s, o) == s = <<>> \/ s = << <<o, 1>> >> \/ s = <<doneRequest, <<o, 1>> >>

Reporting(w) == \E err \in result[w] : Reports(calls[w], requestOutcome(err))

Counts(s) == s \in Seq(Counter \X Nat)

CallShape(w) ==
    /\ pc[w] \in Request => IF result[w] = {} THEN Waits(calls[w]) ELSE Reporting(w)
    /\ pc[w] = "returned" => calls[w] = <<>> \/ calls[w] = <<doneWorker>>
    /\ pc[w] \notin Request \cup {"returned"} =>
          calls[w] = <<StartWorker>> \/ Counts(calls[w])

(* What the gauges count: the requests between their StartRequest and their   *)
(* doneRequest, and the workers between their StartWorker and doneWorker.     *)
Registered(w) ==
    /\ pc[w] \in Request
    /\ IF result[w] = {} THEN Idle(w) ELSE ~Idle(w) /\ Head(calls[w]) = doneRequest

Started(w)    == IF pc[w] = "returned" THEN ~Idle(w) ELSE calls[w] # <<StartWorker>>

GaugesExact ==
    \A c \in Cores :
        /\ gauges[c].inFlight = Cardinality({w \in WorkersOf(c) : Registered(w)})
        /\ gauges[c].activeWorkers = Cardinality({w \in WorkersOf(c) : Started(w)})

GaugeTypeOK ==
    /\ gauges \in [Cores -> [Gauge -> Int]]
    /\ calls = [a \in Goroutine |-> calls[a]]
    /\ \A c \in Cores : calls[c] \in Seq((Counter \cup {"len", "queueDepth"}) \X Nat)

CallsFit == GaugeTypeOK /\ \A w \in Workers : CallShape(w)

GaugeInv == CallsFit /\ GaugesExact

LEMMA WaitsMoves ==
    ASSUME NEW s, Waits(s), s # <<>>
    PROVE  \/ /\ Head(s)[1] \in {"len", "queueDepth"}
              /\ Head(s)[2] \in Nat
              /\ Tail(s) = <<StartRequestCall>>
           \/ Head(s) = StartRequestCall /\ Tail(s) = <<>>
<1>1. CASE s = <<StartRequestCall>>
  BY <1>1
<1>2. ASSUME NEW name \in {"len", "queueDepth"}, NEW n \in Nat,
             s = << <<name, n>>, StartRequestCall>>
      PROVE  Head(s) = <<name, n>> /\ Tail(s) = <<StartRequestCall>>
  BY <1>2
<1> QED
  BY <1>1, <1>2 DEF Waits

LEMMA WaitsForms ==
    /\ Waits(<<>>) /\ Waits(<<StartRequestCall>>)
    /\ Waits(<<SetQueueDepth, StartRequestCall>>)
    /\ \A n \in Nat : Waits(<< <<"queueDepth", n>>, StartRequestCall>>)
    /\ \A s : Waits(s) => s # <<StartWorker>>
BY DEF Waits, SetQueueDepth, StartRequestCall, StartWorker

LEMMA OutcomeType == \A err : requestOutcome(err) \in RequestOutcome
BY DEF requestOutcome, RequestOutcome

LEMMA ReportsMoves ==
    ASSUME NEW w \in Workers, Reporting(w), calls[w] # <<>>
    PROVE  \E err \in result[w], o \in RequestOutcome :
              /\ o = requestOutcome(err)
              /\ \/ Head(calls[w]) = doneRequest /\ Tail(calls[w]) = << <<o, 1>> >>
                 \/ Head(calls[w]) = <<o, 1>> /\ Tail(calls[w]) = <<>>
<1>1. PICK err \in result[w] : Reports(calls[w], requestOutcome(err))
  BY DEF Reporting
<1> DEFINE o == requestOutcome(err)
<1>2. o \in RequestOutcome
  BY OutcomeType
<1>3. CASE calls[w] = << <<o, 1>> >>
  BY <1>2, <1>3
<1>4. CASE calls[w] = <<doneRequest, <<o, 1>> >>
  <2> DEFINE d == doneRequest
             x == <<o, 1>>
  <2>1. calls[w] = <<d, x>>
    BY <1>4
  <2> HIDE DEF d, x
  <2>2. Head(calls[w]) = d /\ Tail(calls[w]) = <<x>>
    BY <2>1
  <2> QED
    BY <1>2, <2>2 DEF d, x
<1> QED
  BY <1>1, <1>3, <1>4 DEF Reports

LEMMA ReportsForms ==
    \A o \in RequestOutcome :
        /\ Reports(<<>>, o) /\ Reports(<< <<o, 1>> >>, o) /\ Reports(<<doneRequest, <<o, 1>> >>, o)
        /\ \A s : Reports(s, o) => s # <<StartWorker>>
BY DEF Reports, StartWorker, doneRequest, RequestOutcome

LEMMA ReportingStarted ==
    ASSUME NEW w \in Workers, Reporting(w)
    PROVE  calls[w] # <<StartWorker>>
BY ReportsForms, OutcomeType DEF Reporting

LEMMA CountsMoves ==
    ASSUME NEW s, Counts(s), s # <<>>
    PROVE  Head(s)[1] \in Counter /\ Counts(Tail(s))
<1>1. Head(s) \in Counter \X Nat /\ Tail(s) \in Seq(Counter \X Nat)
  BY HeadTailProperties DEF Counts
<1> QED
  BY <1>1 DEF Counts

LEMMA CountsForms ==
    /\ Counts(<<>>) /\ Counts(<<RecordBatchFailure>>) /\ Counts(<<AddRetry>>)
    /\ \A n \in Nat : Counts(RecordBatchSuccess(n))
    /\ \A s : Counts(s) => s # <<StartWorker>>
<1>1. Counts(<<>>)
  BY DEF Counts
<1>2. Counts(<<RecordBatchFailure>>) /\ Counts(<<AddRetry>>)
  BY DEF Counts, RecordBatchFailure, AddRetry, Counter
<1>3. \A n \in Nat : Counts(RecordBatchSuccess(n))
  BY DEF Counts, RecordBatchSuccess, Counter
<1>4. ASSUME NEW s, Counts(s), s = <<StartWorker>> PROVE FALSE
  <2>1. s[1] \in Counter \X Nat
    BY <1>4 DEF Counts
  <2> QED
    BY <1>4, <2>1 DEF StartWorker, Counter
<1> QED
  BY <1>1, <1>2, <1>3, <1>4

-----------------------------------------------------------------------------
(* Counting the members of a set of which one may come or go. *)
One(b) == IF b THEN 1 ELSE 0

LEMMA CountOne ==
    ASSUME NEW A, NEW B, NEW w, IsFiniteSet(A), A \ {w} = B \ {w}
    PROVE  /\ Cardinality(A) \in Nat
           /\ Cardinality(B) = Cardinality(A) + One(w \in B) - One(w \in A)
<1>1. Cardinality(A) \in Nat
  BY FS_CardinalityType
<1>2. CASE (w \in A) = (w \in B)
  <2>1. A = B
    BY <1>2
  <2> QED
    BY <1>1, <2>1 DEF One
<1>3. CASE w \notin A /\ w \in B
  <2>1. B = A \cup {w}
    BY <1>3
  <2> QED
    BY <1>1, <1>3, <2>1, FS_AddElement DEF One
<1>4. CASE w \in A /\ w \notin B
  <2>1. B = A \ {w}
    BY <1>4
  <2> QED
    BY <1>1, <1>4, <2>1, FS_RemoveElement DEF One
<1> QED
  BY <1>2, <1>3, <1>4

Stays(v) == UNCHANGED <<pc[v], result[v]>>

LEMMA OthersCount ==
    ASSUME NEW w \in Workers, NEW v \in Workers, Stays(v), calls'[v] = calls[v]
    PROVE  Registered(v)' = Registered(v) /\ Started(v)' = Started(v)
BY DEF Registered, Started, Idle, Stays

(* The gauges stay exact when one worker moves and they follow it. *)
LEMMA OneWorkerMoves ==
    ASSUME GaugesExact, NEW w \in Workers,
           \A v \in Workers \ {w} : Stays(v) /\ calls'[v] = calls[v],
           \A c \in Cores \ {CoreOf[w]} :
               /\ gauges'[c].inFlight = gauges[c].inFlight
               /\ gauges'[c].activeWorkers = gauges[c].activeWorkers,
           gauges'[CoreOf[w]].inFlight
               = gauges[CoreOf[w]].inFlight + One(Registered(w)') - One(Registered(w)),
           gauges'[CoreOf[w]].activeWorkers
               = gauges[CoreOf[w]].activeWorkers + One(Started(w)') - One(Started(w))
    PROVE  GaugesExact'
<1> SUFFICES ASSUME NEW c \in Cores
             PROVE  /\ gauges'[c].inFlight
                         = Cardinality({v \in WorkersOf(c) : Registered(v)'})
                    /\ gauges'[c].activeWorkers
                         = Cardinality({v \in WorkersOf(c) : Started(v)'})
  BY DEF GaugesExact, WorkersOf
<1> DEFINE R == {v \in WorkersOf(c) : Registered(v)}
           R2 == {v \in WorkersOf(c) : Registered(v)'}
           S == {v \in WorkersOf(c) : Started(v)}
           S2 == {v \in WorkersOf(c) : Started(v)'}
<1>1. IsFiniteSet(R) /\ IsFiniteSet(S)
  BY PoolAssumption, FS_Subset DEF WorkersOf
<1>2. R \ {w} = R2 \ {w} /\ S \ {w} = S2 \ {w}
  BY OthersCount DEF WorkersOf
<1>3. gauges[c].inFlight = Cardinality(R) /\ gauges[c].activeWorkers = Cardinality(S)
  BY DEF GaugesExact
<1>4. /\ Cardinality(R2) = Cardinality(R) + One(w \in R2) - One(w \in R)
      /\ Cardinality(S2) = Cardinality(S) + One(w \in S2) - One(w \in S)
      /\ Cardinality(R) \in Nat /\ Cardinality(S) \in Nat
  BY <1>1, <1>2, CountOne
<1>5. CASE c = CoreOf[w]
  <2>1. /\ (w \in R) <=> Registered(w)
        /\ (w \in R2) <=> Registered(w)'
        /\ (w \in S) <=> Started(w)
        /\ (w \in S2) <=> Started(w)'
    BY <1>5 DEF WorkersOf
  <2>2. /\ One(w \in R) = One(Registered(w)) /\ One(w \in R2) = One(Registered(w)')
        /\ One(w \in S) = One(Started(w)) /\ One(w \in S2) = One(Started(w)')
    BY <2>1 DEF One
  <2> QED
    BY <1>3, <1>4, <1>5, <2>2
<1>6. CASE c # CoreOf[w]
  <2>1. w \notin R /\ w \notin R2 /\ w \notin S /\ w \notin S2
    BY <1>6 DEF WorkersOf
  <2> QED
    BY <1>3, <1>4, <1>6, <2>1 DEF One
<1> QED
  BY <1>5, <1>6

(* ... and when no worker moves. *)
LEMMA NoWorkerMoves ==
    ASSUME GaugesExact,
           \A v \in Workers : Stays(v) /\ calls'[v] = calls[v],
           \A c \in Cores : /\ gauges'[c].inFlight = gauges[c].inFlight
                            /\ gauges'[c].activeWorkers = gauges[c].activeWorkers
    PROVE  GaugesExact'
<1> SUFFICES ASSUME NEW c \in Cores
             PROVE  /\ gauges'[c].inFlight
                         = Cardinality({v \in WorkersOf(c) : Registered(v)'})
                    /\ gauges'[c].activeWorkers
                         = Cardinality({v \in WorkersOf(c) : Started(v)'})
  BY DEF GaugesExact, WorkersOf
<1>1. /\ {v \in WorkersOf(c) : Registered(v)'} = {v \in WorkersOf(c) : Registered(v)}
      /\ {v \in WorkersOf(c) : Started(v)'} = {v \in WorkersOf(c) : Started(v)}
  BY OthersCount DEF WorkersOf
<1> QED
  BY <1>1 DEF GaugesExact

-----------------------------------------------------------------------------
(* The steps.  First what they have in common: one goroutine gets other calls *)
(* to make.                                                                   *)
LEMMA WorkerFits ==
    ASSUME CallsFit, NEW w \in Workers, NEW cs,
           calls' = [calls EXCEPT ![w] = cs],
           \A v \in Workers \ {w} : Stays(v),
           gauges' \in [Cores -> [Gauge -> Int]],
           calls'[w] = cs => CallShape(w)'
    PROVE  /\ CallsFit'
           /\ calls'[w] = cs
           /\ \A v \in Workers \ {w} : calls'[v] = calls[v]
<1>1. calls'[w] = cs /\ \A a \in Goroutine \ {w} : calls'[a] = calls[a]
  BY DEF CallsFit, GaugeTypeOK, Goroutine
<1>2. calls' = [a \in Goroutine |-> calls'[a]]
  BY DEF CallsFit, GaugeTypeOK
<1>3. ASSUME NEW c \in Cores PROVE calls'[c] = calls[c]
  BY <1>1, NameAssumption DEF Goroutine
<1>4. ASSUME NEW v \in Workers, v # w PROVE CallShape(v)'
  <2>1. calls'[v] = calls[v] /\ pc'[v] = pc[v] /\ result'[v] = result[v]
    BY <1>1, <1>4 DEF Goroutine, Stays
  <2> QED
    BY <2>1 DEF CallsFit, CallShape, Reporting
<1> QED
  BY <1>1, <1>2, <1>3, <1>4 DEF CallsFit, GaugeTypeOK, Goroutine

LEMMA ProducerFits ==
    ASSUME CallsFit, NEW c \in Cores, NEW cs,
           calls' = [calls EXCEPT ![c] = cs],
           cs \in Seq((Counter \cup {"len", "queueDepth"}) \X Nat),
           pc' = pc, result' = result,
           gauges' \in [Cores -> [Gauge -> Int]]
    PROVE  CallsFit' /\ \A v \in Workers : calls'[v] = calls[v]
<1>1. calls'[c] = cs /\ \A a \in Goroutine \ {c} : calls'[a] = calls[a]
  BY DEF CallsFit, GaugeTypeOK, Goroutine
<1>2. calls' = [a \in Goroutine |-> calls'[a]]
  BY DEF CallsFit, GaugeTypeOK
<1>3. ASSUME NEW v \in Workers PROVE calls'[v] = calls[v]
  BY <1>1, NameAssumption DEF Goroutine
<1>4. ASSUME NEW v \in Workers PROVE CallShape(v)'
  BY <1>3 DEF CallsFit, CallShape, Reporting
<1>5. ASSUME NEW d \in Cores
      PROVE  calls'[d] \in Seq((Counter \cup {"len", "queueDepth"}) \X Nat)
  BY <1>1 DEF CallsFit, GaugeTypeOK, Goroutine
<1> QED
  BY <1>2, <1>3, <1>4, <1>5 DEF CallsFit, GaugeTypeOK

LEMMA GaugesStart == TelInit => GaugeInv
<1> SUFFICES ASSUME TelInit PROVE GaugeInv
  OBVIOUS
<1>1. GaugeTypeOK
  BY NameAssumption DEF TelInit, GaugeTypeOK, Goroutine
<1>2. ASSUME NEW w \in Workers
      PROVE  pc[w] = "receive" /\ calls[w] = <<StartWorker>>
  BY DEF TelInit, Init, Goroutine
<1>3. ASSUME NEW w \in Workers
      PROVE  CallShape(w) /\ ~Registered(w) /\ ~Started(w)
  BY <1>2 DEF CallShape, Registered, Started, Request
<1>4. ASSUME NEW c \in Cores
      PROVE  /\ {w \in WorkersOf(c) : Registered(w)} = {}
             /\ {w \in WorkersOf(c) : Started(w)} = {}
  BY <1>3 DEF WorkersOf
<1>5. GaugesExact
  BY <1>4, FS_EmptySet DEF GaugesExact, TelInit, Gauge
<1> QED
  BY <1>1, <1>3, <1>5 DEF GaugeInv, CallsFit

(* A producer counts and sets the depth; no worker notices.                   *)
LEMMA ProducerCall ==
    ASSUME GaugeInv, TypeOK, NEW c \in Cores, Observe(c)
    PROVE  GaugeInv'
<1> DEFINE Call == (Counter \cup {"len", "queueDepth"}) \X Nat
<1>1. /\ pc' = pc /\ result' = result
      /\ calls[c] \in Seq(Call) /\ calls[c] # <<>> /\ Core(c) = c
  BY CallsStutter DEF vars, Observe, EvaluateLen, Store, Track, Count, Measure, Idle, Core,
                      GaugeInv, CallsFit, GaugeTypeOK, Goroutine
<1>2. Head(calls[c]) \in Call /\ Tail(calls[c]) \in Seq(Call)
  BY <1>1, HeadTailProperties
<1>3. ASSUME NEW cs \in Seq(Call), Then(c, cs), gauges' \in [Cores -> [Gauge -> Int]],
             \A d \in Cores : /\ gauges'[d].inFlight = gauges[d].inFlight
                              /\ gauges'[d].activeWorkers = gauges[d].activeWorkers
      PROVE  GaugeInv'
  <2>1. CallsFit' /\ \A v \in Workers : calls'[v] = calls[v]
    BY <1>1, <1>3, ProducerFits DEF GaugeInv, Then
  <2> QED
    BY <1>1, <1>3, <2>1, NoWorkerMoves DEF GaugeInv, Stays
<1>4. gauges \in [Cores -> [Gauge -> Int]]
  BY DEF GaugeInv, CallsFit, GaugeTypeOK
<1>5. CASE EvaluateLen(c)
  <2> DEFINE depth == <<"queueDepth", Len(queue[c])>>
  <2>1. depth \in Call
    BY DEF TypeOK
  <2>2. <<depth>> \o Tail(calls[c]) \in Seq(Call)
    BY <1>2, <2>1
  <2> QED
    BY <1>1, <1>3, <1>4, <1>5, <2>2 DEF EvaluateLen
<1>6. CASE Store(c)
  <2>1. Head(calls[c])[2] \in Int
    BY <1>2
  <2>2. gauges' = [gauges EXCEPT ![c].queueDepth = Head(calls[c])[2]]
    BY <1>1, <1>6 DEF Store
  <2>3. gauges' \in [Cores -> [Gauge -> Int]]
    BY <1>4, <2>1, <2>2 DEF Gauge
  <2>4. ASSUME NEW d \in Cores
        PROVE  /\ gauges'[d].inFlight = gauges[d].inFlight
               /\ gauges'[d].activeWorkers = gauges[d].activeWorkers
    BY <1>4, <2>2 DEF Gauge
  <2>5. Then(c, Tail(calls[c]))
    BY <1>6 DEF Store
  <2> QED
    BY <1>2, <1>3, <2>3, <2>4, <2>5
<1>7. CASE Track(c)
  BY <1>2, <1>7 DEF Track, Counter
<1>8. CASE Count(c)
  BY <1>2, <1>3, <1>4, <1>8 DEF Count
<1>9. CASE Measure(c)
  BY <1>2, <1>9 DEF Measure, Counter, RequestOutcome
<1> QED
  BY <1>5, <1>6, <1>7, <1>8, <1>9 DEF Observe

LEMMA CallsOf ==
    ASSUME CallsFit, NEW w \in Workers, NEW cs, Then(w, cs)
    PROVE  calls'[w] = cs
BY DEF CallsFit, GaugeTypeOK, Then, Goroutine

LEMMA GaugesAreInts ==
    ASSUME gauges \in [Cores -> [Gauge -> Int]], NEW c \in Cores
    PROVE  gauges[c].inFlight \in Int /\ gauges[c].activeWorkers \in Int
BY DEF Gauge

(* A worker that the gauges count as before, ... *)
LEMMA WorkerStays ==
    ASSUME GaugeInv, NEW w \in Workers, NEW cs, Then(w, cs),
           \A v \in Workers \ {w} : Stays(v),
           gauges' \in [Cores -> [Gauge -> Int]],
           \A c \in Cores : /\ gauges'[c].inFlight = gauges[c].inFlight
                            /\ gauges'[c].activeWorkers = gauges[c].activeWorkers,
           CallShape(w)',
           Registered(w)' <=> Registered(w),
           Started(w)' <=> Started(w)
    PROVE  GaugeInv'
<1>1. CallsFit' /\ \A v \in Workers \ {w} : calls'[v] = calls[v]
  BY WorkerFits DEF GaugeInv, Then
<1>2. CoreOf[w] \in Cores
  BY PoolAssumption
<1>3. gauges[CoreOf[w]].inFlight \in Int /\ gauges[CoreOf[w]].activeWorkers \in Int
  BY <1>2, GaugesAreInts DEF GaugeInv, CallsFit, GaugeTypeOK
<1>4. One(Registered(w)') = One(Registered(w)) /\ One(Started(w)') = One(Started(w))
  BY DEF One
<1>5. One(Registered(w)) \in Int /\ One(Started(w)) \in Int
  BY DEF One
<1>6. /\ gauges'[CoreOf[w]].inFlight
            = gauges[CoreOf[w]].inFlight + One(Registered(w)') - One(Registered(w))
      /\ gauges'[CoreOf[w]].activeWorkers
            = gauges[CoreOf[w]].activeWorkers + One(Started(w)') - One(Started(w))
  BY <1>2, <1>3, <1>4, <1>5
<1> QED
  BY <1>1, <1>6, OneWorkerMoves DEF GaugeInv

(* ... and one that comes or goes, and which they follow. *)
LEMMA WorkerMoves ==
    ASSUME GaugeInv, NEW w \in Workers, NEW cs, Then(w, cs),
           \A v \in Workers \ {w} : Stays(v),
           CallShape(w)',
           NEW g \in {"inFlight", "activeWorkers"}, NEW d \in {1, -1},
           gauges' = [gauges EXCEPT ![CoreOf[w]][g] = @ + d],
           One(Registered(w)') - One(Registered(w)) = IF g = "inFlight" THEN d ELSE 0,
           One(Started(w)') - One(Started(w)) = IF g = "activeWorkers" THEN d ELSE 0
    PROVE  GaugeInv'
<1> DEFINE c == CoreOf[w]
<1>1. c \in Cores /\ gauges \in [Cores -> [Gauge -> Int]]
  BY PoolAssumption DEF GaugeInv, CallsFit, GaugeTypeOK
<1>2. gauges[c].inFlight \in Int /\ gauges[c].activeWorkers \in Int
  BY <1>1, GaugesAreInts
<1>3. gauges' \in [Cores -> [Gauge -> Int]]
  BY <1>1 DEF Gauge
<1>4. CallsFit' /\ \A v \in Workers \ {w} : calls'[v] = calls[v]
  BY <1>3, WorkerFits DEF GaugeInv, Then
<1>5. \A e \in Cores \ {c} : gauges'[e] = gauges[e]
  BY <1>1
<1>6. /\ gauges'[c].inFlight = gauges[c].inFlight + (IF g = "inFlight" THEN d ELSE 0)
      /\ gauges'[c].activeWorkers
            = gauges[c].activeWorkers + (IF g = "activeWorkers" THEN d ELSE 0)
  BY <1>1, <1>2 DEF Gauge
<1>7. /\ One(Registered(w)) \in Int /\ One(Registered(w)') \in Int
      /\ One(Started(w)) \in Int /\ One(Started(w)') \in Int
  BY DEF One
<1>8. /\ gauges'[c].inFlight
            = gauges[c].inFlight + One(Registered(w)') - One(Registered(w))
      /\ gauges'[c].activeWorkers
            = gauges[c].activeWorkers + One(Started(w)') - One(Started(w))
  BY <1>2, <1>6, <1>7
<1> QED
  BY <1>4, <1>5, <1>8, OneWorkerMoves DEF GaugeInv

(* The calls of a worker: StartWorker, StartRequest and doneWorker move it in *)
(* or out of what the gauges count, the others do not.                        *)
LEMMA WorkerCallFacts ==
    ASSUME GaugeInv, NEW w \in Workers, Observe(w)
    PROVE  /\ pc' = pc /\ result' = result
           /\ \A v \in Workers : Stays(v)
           /\ calls[w] # <<>>
           /\ Core(w) = CoreOf[w] /\ CoreOf[w] \in Cores
           /\ gauges \in [Cores -> [Gauge -> Int]]
           /\ CallShape(w)
BY CallsStutter, NameAssumption, PoolAssumption
   DEF vars, Observe, EvaluateLen, Store, Track, Count, Measure, Idle, Core,
       GaugeInv, CallsFit, GaugeTypeOK, Goroutine, Stays

(* Only a worker on its way into a request sets the depth. *)
LEMMA DepthCall ==
    ASSUME NEW w \in Workers, CallShape(w), calls[w] # <<>>,
           Head(calls[w])[1] \in {"len", "queueDepth"}
    PROVE  /\ pc[w] \in Request /\ result[w] = {}
           /\ Head(calls[w])[2] \in Nat
           /\ Tail(calls[w]) = <<StartRequestCall>>
           /\ calls[w] # <<StartWorker>>
<1>1. pc[w] \in Request
  BY CountsMoves DEF CallShape, doneWorker, StartWorker, Counter, Request
<1>2. result[w] = {} /\ Waits(calls[w])
  BY <1>1, ReportsMoves DEF CallShape, doneRequest, RequestOutcome
<1>3. Head(calls[w])[1] # "inFlight"
  OBVIOUS
<1>4. Head(calls[w]) # StartRequestCall
  BY <1>3 DEF StartRequestCall
<1> QED
  BY <1>1, <1>2, <1>4, WaitsMoves, WaitsForms

LEMMA OneThenOne ==
    ASSUME NEW x, NEW y
    PROVE  <<x>> \o <<y>> = <<x, y>>
<1> DEFINE s == <<x>>
           t == <<y>>
           r == s \o t
<1>1. /\ s \in Seq({x, y}) /\ Len(s) = 1 /\ s[1] = x
      /\ t \in Seq({x, y}) /\ Len(t) = 1 /\ t[1] = y
  OBVIOUS
<1> HIDE DEF s, t
<1>2. /\ r \in Seq({x, y})
      /\ Len(r) = Len(s) + Len(t)
      /\ \A i \in 1..(Len(s) + Len(t)) : r[i] = IF i <= Len(s) THEN s[i] ELSE t[i - Len(s)]
  BY <1>1, ConcatProperties
<1>3. r \in Seq({x, y}) /\ Len(r) = 2 /\ r[1] = x /\ r[2] = y
  BY <1>1, <1>2
<1> HIDE DEF r
<1>4. r = <<r[1], r[2]>>
  BY <1>3
<1> QED
  BY <1>3, <1>4 DEF r, s, t

LEMMA WorkerLen ==
    ASSUME GaugeInv, TypeOK, NEW w \in Workers, EvaluateLen(w)
    PROVE  GaugeInv'
<1> DEFINE n == Len(queue[CoreOf[w]])
           cs == << <<"queueDepth", n>>, StartRequestCall>>
<1>1. Observe(w)
  BY DEF Observe
<1>2. Head(calls[w])[1] = "len"
  BY DEF EvaluateLen
<1>3. /\ pc' = pc /\ result' = result /\ \A v \in Workers : Stays(v)
      /\ calls[w] # <<>> /\ Core(w) = CoreOf[w] /\ CoreOf[w] \in Cores
      /\ gauges \in [Cores -> [Gauge -> Int]] /\ CallShape(w)
  BY <1>1, WorkerCallFacts
<1>4. /\ pc[w] \in Request /\ result[w] = {} /\ Tail(calls[w]) = <<StartRequestCall>>
      /\ calls[w] # <<StartWorker>>
  BY <1>2, <1>3, DepthCall
<1>5. n \in Nat
  BY <1>3 DEF TypeOK
<1>6. << <<"queueDepth", n>> >> \o <<StartRequestCall>> = cs
  BY OneThenOne
<1>7. Then(w, cs) /\ gauges' = gauges
  BY <1>3, <1>4, <1>6 DEF EvaluateLen
<1>8. calls'[w] = cs
  BY <1>7, CallsOf DEF GaugeInv
<1>9. Waits(cs) /\ cs # <<>> /\ cs # <<StartWorker>>
  BY <1>5, WaitsForms
<1>10. CallShape(w)' /\ (Registered(w)' <=> Registered(w)) /\ (Started(w)' <=> Started(w))
  BY <1>3, <1>4, <1>8, <1>9 DEF CallShape, Registered, Started, Idle, Request
<1> HIDE DEF cs
<1> QED
  BY <1>3, <1>7, <1>10, WorkerStays

LEMMA WorkerStore ==
    ASSUME GaugeInv, NEW w \in Workers, Store(w)
    PROVE  GaugeInv'
<1> DEFINE n == Head(calls[w])[2]
<1>1. Observe(w)
  BY DEF Observe
<1>2. Head(calls[w])[1] = "queueDepth"
  BY DEF Store
<1>3. /\ pc' = pc /\ result' = result /\ \A v \in Workers : Stays(v)
      /\ calls[w] # <<>> /\ Core(w) = CoreOf[w] /\ CoreOf[w] \in Cores
      /\ gauges \in [Cores -> [Gauge -> Int]] /\ CallShape(w)
  BY <1>1, WorkerCallFacts
<1>4. /\ pc[w] \in Request /\ result[w] = {} /\ n \in Nat
      /\ Tail(calls[w]) = <<StartRequestCall>>
      /\ calls[w] # <<StartWorker>>
  BY <1>2, <1>3, DepthCall
<1>5. /\ Then(w, <<StartRequestCall>>)
      /\ gauges' = [gauges EXCEPT ![CoreOf[w]].queueDepth = n]
  BY <1>3, <1>4 DEF Store
<1>6. /\ gauges' \in [Cores -> [Gauge -> Int]]
      /\ \A c \in Cores : /\ gauges'[c].inFlight = gauges[c].inFlight
                          /\ gauges'[c].activeWorkers = gauges[c].activeWorkers
  BY <1>3, <1>4, <1>5 DEF Gauge
<1>7. calls'[w] = <<StartRequestCall>>
  BY <1>5, CallsOf DEF GaugeInv
<1>8. /\ Waits(<<StartRequestCall>>) /\ <<StartRequestCall>> # <<>>
      /\ <<StartRequestCall>> # <<StartWorker>>
  BY WaitsForms
<1>9. CallShape(w)' /\ (Registered(w)' <=> Registered(w)) /\ (Started(w)' <=> Started(w))
  BY <1>3, <1>4, <1>7, <1>8 DEF CallShape, Registered, Started, Idle, Request
<1> QED
  BY <1>3, <1>5, <1>6, <1>9, WorkerStays

LEMMA WorkerCount ==
    ASSUME GaugeInv, NEW w \in Workers, Count(w)
    PROVE  GaugeInv'
<1>1. Observe(w)
  BY DEF Observe
<1>2. Head(calls[w])[1] \in Counter
  BY DEF Count
<1>3. /\ pc' = pc /\ result' = result /\ \A v \in Workers : Stays(v)
      /\ calls[w] # <<>> /\ gauges \in [Cores -> [Gauge -> Int]] /\ CallShape(w)
  BY <1>1, WorkerCallFacts
<1>4. Counts(calls[w]) /\ pc[w] \notin Request /\ pc[w] # "returned"
  BY <1>2, <1>3, WaitsMoves, ReportsMoves
     DEF CallShape, doneWorker, StartWorker, StartRequestCall, doneRequest, Counter, Request,
         RequestOutcome
<1>5. Counts(Tail(calls[w]))
  BY <1>3, <1>4, CountsMoves
<1>6. Then(w, Tail(calls[w])) /\ gauges' = gauges
  BY DEF Count
<1>7. calls'[w] = Tail(calls[w])
  BY <1>6, CallsOf DEF GaugeInv
<1>8. Tail(calls[w]) # <<StartWorker>> /\ calls[w] # <<StartWorker>>
  BY <1>4, <1>5, CountsForms
<1>9. CallShape(w)' /\ (Registered(w)' <=> Registered(w)) /\ (Started(w)' <=> Started(w))
  BY <1>3, <1>4, <1>5, <1>7, <1>8 DEF CallShape, Registered, Started, Idle, Request
<1> QED
  BY <1>3, <1>6, <1>9, WorkerStays

LEMMA WorkerTrack ==
    ASSUME GaugeInv, NEW w \in Workers, Track(w)
    PROVE  GaugeInv'
<1>1. Observe(w)
  BY DEF Observe
<1>2. Head(calls[w])[1] \in {"activeWorkers", "inFlight"}
  BY DEF Track
<1>3. /\ pc' = pc /\ result' = result /\ \A v \in Workers : Stays(v)
      /\ calls[w] # <<>> /\ Core(w) = CoreOf[w] /\ CoreOf[w] \in Cores
      /\ gauges \in [Cores -> [Gauge -> Int]] /\ CallShape(w)
  BY <1>1, WorkerCallFacts
<1>4. ~Counts(calls[w])
  BY <1>2, <1>3, CountsMoves DEF Counter
<1>5. /\ gauges' = [gauges EXCEPT ![CoreOf[w]][Head(calls[w])[1]] = @ + Head(calls[w])[2]]
      /\ Then(w, Tail(calls[w]))
  BY <1>3 DEF Track
<1>6. calls'[w] = Tail(calls[w])
  BY <1>5, CallsOf DEF GaugeInv
<1>7. <<>> # <<StartWorker>> /\ <<>> # <<doneWorker>> /\ <<doneWorker>> # <<StartWorker>>
  BY DEF StartWorker, doneWorker
<1>8. CASE pc[w] \in Request /\ result[w] = {}
  <2>1. Waits(calls[w])
    BY <1>3, <1>8 DEF CallShape
  <2>2. Head(calls[w]) = StartRequestCall /\ Tail(calls[w]) = <<>>
    BY <1>2, <1>3, <2>1, WaitsMoves
  <2>3. Head(calls[w])[1] = "inFlight" /\ Head(calls[w])[2] = 1
    BY <2>2 DEF StartRequestCall
  <2>4. gauges' = [gauges EXCEPT ![CoreOf[w]]["inFlight"] = @ + 1]
    BY <1>5, <2>3
  <2>5. calls[w] # <<StartWorker>> /\ Waits(<<>>)
    BY <2>1, WaitsForms
  <2>6. CallShape(w)' /\ Registered(w)' /\ ~Registered(w) /\ Started(w)' /\ Started(w)
    BY <1>3, <1>6, <1>7, <1>8, <2>2, <2>5 DEF CallShape, Registered, Started, Idle, Request
  <2>7. One(Registered(w)') - One(Registered(w)) = 1 /\ One(Started(w)') - One(Started(w)) = 0
    BY <2>6 DEF One
  <2> QED
    BY <1>3, <1>5, <2>4, <2>6, <2>7, WorkerMoves
<1>9. CASE pc[w] = "returned"
  <2>1. calls[w] = <<doneWorker>>
    BY <1>3, <1>9 DEF CallShape
  <2>2. Head(calls[w]) = doneWorker /\ Tail(calls[w]) = <<>>
    BY <2>1
  <2>3. Head(calls[w])[1] = "activeWorkers" /\ Head(calls[w])[2] = -1
    BY <2>2 DEF doneWorker
  <2>4. gauges' = [gauges EXCEPT ![CoreOf[w]]["activeWorkers"] = @ + (-1)]
    BY <1>5, <2>3
  <2>5. CallShape(w)' /\ ~Registered(w)' /\ ~Registered(w) /\ ~Started(w)' /\ Started(w)
    BY <1>3, <1>6, <1>9, <2>2 DEF CallShape, Registered, Started, Idle, Request
  <2>6. One(Registered(w)') - One(Registered(w)) = 0 /\ One(Started(w)') - One(Started(w)) = -1
    BY <2>5 DEF One
  <2> QED
    BY <1>3, <1>5, <2>4, <2>5, <2>6, WorkerMoves
<1>10. CASE pc[w] \notin Request \cup {"returned"}
  <2>1. calls[w] = <<StartWorker>>
    BY <1>3, <1>4, <1>10 DEF CallShape
  <2>2. Head(calls[w]) = StartWorker /\ Tail(calls[w]) = <<>>
    BY <2>1
  <2>3. Head(calls[w])[1] = "activeWorkers" /\ Head(calls[w])[2] = 1
    BY <2>2 DEF StartWorker
  <2>4. gauges' = [gauges EXCEPT ![CoreOf[w]]["activeWorkers"] = @ + 1]
    BY <1>5, <2>3
  <2>5. Counts(<<>>)
    BY CountsForms
  <2>6. CallShape(w)' /\ ~Registered(w)' /\ ~Registered(w) /\ Started(w)' /\ ~Started(w)
    BY <1>3, <1>6, <1>7, <1>10, <2>1, <2>2, <2>5
       DEF CallShape, Registered, Started, Idle, Request
  <2>7. One(Registered(w)') - One(Registered(w)) = 0 /\ One(Started(w)') - One(Started(w)) = 1
    BY <2>6 DEF One
  <2> QED
    BY <1>3, <1>5, <2>4, <2>6, <2>7, WorkerMoves
<1>11. CASE pc[w] \in Request /\ result[w] # {}
  <2>1. Reporting(w)
    BY <1>3, <1>11 DEF CallShape
  <2>2. PICK err \in result[w], o \in RequestOutcome :
            /\ o = requestOutcome(err)
            /\ \/ Head(calls[w]) = doneRequest /\ Tail(calls[w]) = << <<o, 1>> >>
               \/ Head(calls[w]) = <<o, 1>> /\ Tail(calls[w]) = <<>>
    BY <1>3, <2>1, ReportsMoves
  <2>3. Head(calls[w]) = doneRequest /\ Tail(calls[w]) = << <<o, 1>> >>
    BY <1>2, <2>2 DEF RequestOutcome
  <2>4. Head(calls[w])[1] = "inFlight" /\ Head(calls[w])[2] = -1
    BY <2>3 DEF doneRequest
  <2>5. gauges' = [gauges EXCEPT ![CoreOf[w]]["inFlight"] = @ + (-1)]
    BY <1>5, <2>4
  <2> DEFINE t == << <<o, 1>> >>
  <2>6. calls[w] # <<StartWorker>> /\ Reports(t, o) /\ t # <<StartWorker>>
    BY <2>1, ReportsForms, ReportingStarted
  <2>7. Head(t) # doneRequest
    BY DEF doneRequest, RequestOutcome
  <2>8. calls'[w] = t
    BY <1>6, <2>3
  <2> HIDE DEF t
  <2>9. Reporting(w)'
    BY <1>3, <2>2, <2>6, <2>8 DEF Reporting
  <2>10. CallShape(w)' /\ ~Registered(w)' /\ Registered(w) /\ Started(w)' /\ Started(w)
    BY <1>3, <1>11, <2>3, <2>6, <2>7, <2>8, <2>9
       DEF CallShape, Registered, Started, Idle, Request
  <2>11. One(Registered(w)') - One(Registered(w)) = -1 /\ One(Started(w)') - One(Started(w)) = 0
    BY <2>10 DEF One
  <2> QED
    BY <1>3, <1>5, <2>5, <2>10, <2>11, WorkerMoves
<1> QED
  BY <1>8, <1>9, <1>10, <1>11

LEMMA WorkerMeasure ==
    ASSUME GaugeInv, NEW w \in Workers, Measure(w)
    PROVE  GaugeInv'
<1>1. Observe(w)
  BY DEF Observe
<1>2. Head(calls[w])[1] \in RequestOutcome
  BY DEF Measure
<1>3. /\ pc' = pc /\ result' = result /\ \A v \in Workers : Stays(v)
      /\ calls[w] # <<>> /\ gauges \in [Cores -> [Gauge -> Int]] /\ CallShape(w)
  BY <1>1, WorkerCallFacts
<1>4. pc[w] \in Request /\ result[w] # {} /\ Reporting(w)
  BY <1>2, <1>3, WaitsMoves, CountsMoves
     DEF CallShape, doneWorker, StartWorker, StartRequestCall, Counter, Request, RequestOutcome
<1>5. Head(calls[w]) # doneRequest /\ Tail(calls[w]) = <<>>
  BY <1>2, <1>3, <1>4, ReportsMoves DEF doneRequest, RequestOutcome
<1>6. Then(w, <<>>) /\ gauges' = gauges
  BY <1>5 DEF Measure
<1>7. calls'[w] = <<>>
  BY <1>6, CallsOf DEF GaugeInv
<1>8. calls[w] # <<StartWorker>> /\ <<>> # <<StartWorker>> /\ Reporting(w)'
  BY <1>3, <1>4, <1>7, ReportsForms, OutcomeType, ReportingStarted, WaitsForms DEF Reporting
<1>9. CallShape(w)' /\ (Registered(w)' <=> Registered(w)) /\ (Started(w)' <=> Started(w))
  BY <1>3, <1>4, <1>5, <1>7, <1>8 DEF CallShape, Registered, Started, Idle, Request
<1> QED
  BY <1>3, <1>6, <1>9, WorkerStays

LEMMA WorkerCall ==
    ASSUME GaugeInv, TypeOK, NEW w \in Workers, Observe(w)
    PROVE  GaugeInv'
BY WorkerLen, WorkerStore, WorkerCount, WorkerTrack, WorkerMeasure DEF Observe

(* The steps of the producer. *)
LEMMA ProducerStep ==
    ASSUME GaugeInv, NEW c \in Cores, TelProduce(c)
    PROVE  GaugeInv'
<1>1. pc' = pc /\ gauges' = gauges /\ result' = result
  BY ProducerSteps
     DEF TelProduce, Produce, KeepGoing, Generate, SendBatch, SendInterrupted, StopEmpty,
         FlushPartial, DropPartial
<1>2. \/ calls' = calls
      \/ \E cs \in Seq((Counter \cup {"len", "queueDepth"}) \X Nat) : Then(c, cs)
  <2>1. /\ <<AddGeneratedDocs>> \in Seq((Counter \cup {"len", "queueDepth"}) \X Nat)
        /\ <<SetQueueDepth>> \in Seq((Counter \cup {"len", "queueDepth"}) \X Nat)
    BY DEF AddGeneratedDocs, SetQueueDepth, Counter
  <2> QED
    BY <2>1 DEF TelProduce
<1>3. gauges \in [Cores -> [Gauge -> Int]]
  BY DEF GaugeInv, CallsFit, GaugeTypeOK
<1>4. CASE calls' = calls
  <2>1. CallsFit'
    BY <1>1, <1>4 DEF GaugeInv, CallsFit, GaugeTypeOK, CallShape, Reporting
  <2> QED
    BY <1>1, <1>4, <2>1, NoWorkerMoves DEF GaugeInv, Stays
<1>5. CASE \E cs \in Seq((Counter \cup {"len", "queueDepth"}) \X Nat) : Then(c, cs)
  <2>1. CallsFit' /\ \A v \in Workers : calls'[v] = calls[v]
    BY <1>1, <1>3, <1>5, ProducerFits DEF GaugeInv, Then
  <2> QED
    BY <1>1, <2>1, NoWorkerMoves DEF GaugeInv, Stays
<1> QED
  BY <1>2, <1>4, <1>5

(* What a worker is about to call after a step of its loop. *)
LEMMA LoopSteps ==
    ASSUME GaugeInv, TypeOK, NEW w \in Workers, Idle(w), NEW cs, Then(w, cs),
           \A v \in Workers \ {w} : Stays(v),
           gauges' = gauges, result'[w] = {},
           \/ pc[w] \notin Request \cup {"returned"} /\ pc'[w] \in Request
                 /\ Waits(cs) /\ cs # <<>>
           \/ pc[w] \notin Request \cup {"returned"}
                 /\ pc'[w] \notin Request \cup {"returned"} /\ cs = <<>>
           \/ pc[w] \notin Request \cup {"returned"} /\ pc'[w] = "returned"
                 /\ cs = <<doneWorker>>
    PROVE  GaugeInv'
<1>1. calls'[w] = cs
  BY CallsOf DEF GaugeInv
<1>2. <<>> # <<StartWorker>> /\ <<>> # <<doneWorker>> /\ calls[w] = <<>> /\ Counts(<<>>)
  BY CountsForms DEF Idle
<1>3. Waits(cs) => cs # <<StartWorker>>
  BY WaitsForms
<1>4. CallShape(w)' /\ (Registered(w)' <=> Registered(w)) /\ (Started(w)' <=> Started(w))
  BY <1>1, <1>2, <1>3 DEF CallShape, Registered, Started, Idle, Request
<1>5. gauges \in [Cores -> [Gauge -> Int]]
  BY DEF GaugeInv, CallsFit, GaugeTypeOK
<1>6. GaugeInv'
  BY <1>4, <1>5, WorkerStays
<1> QED
  BY <1>6

(* A request that has returned stays in the gauge until its doneRequest, ...  *)
LEMMA ReturnStep ==
    ASSUME GaugeInv, ResultInv, NEW w \in Workers, Idle(w), PostReturns(w)
    PROVE  GaugeInv'
<1>1. PICK err : Return(w, err)
  BY DEF PostReturns
<1> DEFINE o == requestOutcome(err)
           cs == <<doneRequest, <<o, 1>> >>
<1>2. o \in RequestOutcome
  BY DEF requestOutcome, RequestOutcome
<1> HIDE DEF o
<1>3. Then(w, cs) /\ result' = [result EXCEPT ![w] = {err}]
  BY <1>1 DEF Return, AfterPostBatch, RecordRequestDuration, o
<1>4. calls'[w] = cs /\ result'[w] = {err} /\ result[w] = {} /\ pc[w] \in Request /\ pc' = pc
  BY <1>3, CallsOf DEF GaugeInv, ResultInv, PostReturns, vars, Request
<1>5. \A v \in Workers \ {w} : Stays(v)
  BY <1>3, <1>4 DEF Stays, ResultInv
<1>6. Reports(cs, o) /\ cs # <<StartWorker>> /\ <<>> # <<StartWorker>>
  BY <1>2, ReportsForms
<1>7. cs # <<>> /\ Head(cs) = doneRequest
  OBVIOUS
<1> HIDE DEF cs
<1>8. Reporting(w)'
  BY <1>4, <1>6 DEF Reporting, o
<1>9. CallShape(w)' /\ Registered(w)' /\ Registered(w)
  BY <1>4, <1>6, <1>7, <1>8 DEF CallShape, Registered, Idle, Request
<1>10. Started(w)' /\ Started(w)
  BY <1>4, <1>6 DEF Started, Idle, Request
<1>11. gauges' = gauges /\ gauges \in [Cores -> [Gauge -> Int]]
  BY DEF PostReturns, GaugeInv, CallsFit, GaugeTypeOK
<1> QED
  BY <1>3, <1>5, <1>9, <1>10, <1>11, WorkerStays

(* ... which the worker has made when it looks at the result. *)
LEMMA DecideStep ==
    ASSUME GaugeInv, ResultInv, TypeOK, NEW w \in Workers, Idle(w), TelAfterPost(w)
    PROVE  GaugeInv'
<1>1. \A v \in Workers \ {w} : Stays(v)
  BY ResultSteps, WorkerPlaces DEF TelAfterPost, ResultInv, Stays
<1>2. PICK err \in result[w] :
          \/ Succeed(w, err) /\ Then(w, RecordBatchSuccess(Cardinality(job[w])))
          \/ GiveUpCanceled(w, err) /\ UNCHANGED calls
          \/ GiveUp(w, err) /\ Then(w, <<RecordBatchFailure>>)
          \/ ScheduleRetry(w, err) /\ Then(w, <<AddRetry>>)
  BY DEF TelAfterPost
<1>3. pc[w] \in Request /\ result[w] # {}
  BY HeldFacts
<1>4. pc'[w] \notin Request \cup {"returned"}
  BY <1>2 DEF TypeOK, Succeed, GiveUpCanceled, GiveUp, ScheduleRetry, Release, Request
<1>5. \E cs : Then(w, cs) /\ Counts(cs)
  <2>1. Cardinality(job[w]) \in Nat
    BY DocSetFacts DEF TypeOK
  <2>2. CASE UNCHANGED calls
    <3>1. Then(w, <<>>)
      BY <2>2 DEF Then, Idle, GaugeInv, CallsFit, GaugeTypeOK, Goroutine
    <3> QED
      BY <3>1, CountsForms
  <2> QED
    BY <1>2, <2>1, <2>2, CountsForms
<1>6. PICK cs : Then(w, cs) /\ Counts(cs)
  BY <1>5
<1>7. calls'[w] = cs /\ calls[w] = <<>> /\ cs # <<StartWorker>> /\ <<>> # <<StartWorker>>
  BY <1>6, CallsOf, CountsForms, WaitsForms DEF GaugeInv, Idle
<1>8. CallShape(w)' /\ ~Registered(w)' /\ ~Registered(w) /\ Started(w)' /\ Started(w)
  BY <1>3, <1>4, <1>6, <1>7 DEF CallShape, Registered, Started, Idle, Request
<1>9. gauges' = gauges /\ gauges \in [Cores -> [Gauge -> Int]]
  BY DEF TelAfterPost, GaugeInv, CallsFit, GaugeTypeOK
<1> QED
  BY <1>1, <1>6, <1>8, <1>9, WorkerStays

LEMMA WorkerStep ==
    ASSUME GaugeInv, ResultInv, TypeOK, NEW w \in Workers, TelWork(w)
    PROVE  GaugeInv'
<1>1. Idle(w)
  BY DEF TelWork
<1>2. CASE PostReturns(w)
  BY <1>1, <1>2, ReturnStep
<1>3. CASE TelAfterPost(w)
  BY <1>1, <1>3, DecideStep
<1>4. CASE ~PostReturns(w) /\ ~TelAfterPost(w)
  <2>1. pc[w] \notin Request /\ result' = result
    BY <1>4, LoopPlaces
  <2>2. gauges' = gauges
    BY <1>4 DEF TelWork
  <2>3. \A v \in Workers \ {w} : Stays(v)
    BY <1>4, <2>1, WorkerSteps, WorkerPlaces DEF Stays
  <2>4. result'[w] = {}
    BY <2>1, HeldFacts
  <2>5. CASE ReceiveJob(w) /\ Then(w, <<SetQueueDepth, StartRequestCall>>)
    <3>1. pc[w] = "receive" /\ pc'[w] \in Request
      BY <2>5 DEF ReceiveJob, StartRequest, TypeOK, Request
    <3>2. /\ Waits(<<SetQueueDepth, StartRequestCall>>)
          /\ <<SetQueueDepth, StartRequestCall>> # <<>>
      BY WaitsForms
    <3> QED
      BY <1>1, <2>2, <2>3, <2>4, <2>5, <3>1, <3>2, LoopSteps DEF Request
  <2>6. CASE BackoffElapsed(w) /\ Then(w, <<StartRequestCall>>)
    <3>1. pc[w] = "backoff" /\ pc'[w] \in Request
      BY <2>6 DEF BackoffElapsed, StartRequest, TypeOK, Request
    <3>2. Waits(<<StartRequestCall>>) /\ <<StartRequestCall>> # <<>>
      BY WaitsForms
    <3> QED
      BY <1>1, <2>2, <2>3, <2>4, <2>6, <3>1, <3>2, LoopSteps DEF Request
  <2>7. CASE (BackoffCanceled(w) \/ SleepElapsed(w)) /\ UNCHANGED calls
    <3>1. pc[w] \notin Request \cup {"returned"} /\ pc'[w] \notin Request \cup {"returned"}
      BY <2>7 DEF BackoffCanceled, SleepElapsed, Release, TypeOK, Request
    <3>2. Then(w, <<>>)
      BY <1>1, <2>7 DEF Then, Idle, GaugeInv, CallsFit, GaugeTypeOK, Goroutine
    <3> QED
      BY <1>1, <2>2, <2>3, <2>4, <3>1, <3>2, LoopSteps
  <2>8. CASE TelReturn(w)
    <3>1. pc[w] \notin Request \cup {"returned"} /\ pc'[w] = "returned"
      BY <2>8 DEF TelReturn, ReturnIdle, SleepCanceled, TypeOK, Request
    <3>2. Then(w, <<doneWorker>>)
      BY <2>8 DEF TelReturn
    <3> QED
      BY <1>1, <2>2, <2>3, <2>4, <3>1, <3>2, LoopSteps
  <2> QED
    BY <1>4, <2>5, <2>6, <2>7, <2>8 DEF TelWork
<1> QED
  BY <1>2, <1>3, <1>4

LEMMA GaugesStep ==
    ASSUME GaugeInv, ResultInv, TypeOK, [TelNext]_allVars
    PROVE  GaugeInv'
<1>1. CASE UNCHANGED <<pc, gauges, calls, result>>
  <2>1. CallsFit'
    BY <1>1 DEF GaugeInv, CallsFit, GaugeTypeOK, CallShape, Reporting
  <2> QED
    BY <1>1, <2>1, NoWorkerMoves DEF GaugeInv, Stays
<1>2. CASE \E a \in Goroutine : Observe(a)
  BY <1>2, WorkerCall, ProducerCall DEF Goroutine
<1>3. CASE \E c \in Cores : TelProduce(c)
  BY <1>3, ProducerStep
<1>4. CASE \E w \in Workers : TelWork(w)
  BY <1>4, WorkerStep
<1>5. CASE TelCoordinate
  BY <1>1, <1>5 DEF TelCoordinate, Shutdown, ShutdownTimeout, ProducersJoined, Finish, telVars
<1> QED
  BY <1>1, <1>2, <1>3, <1>4, <1>5 DEF TelNext, allVars

(* Exact gauges are what the property asks for. *)
LEMMA ExactGaugesTrack == GaugeInv => GaugesTrackWorkers
<1> SUFFICES ASSUME GaugeInv, NEW c \in Cores
             PROVE  /\ gauges[c].inFlight <= gauges[c].activeWorkers
                    /\ gauges[c].activeWorkers <= Cardinality(WorkersOf(c))
                    /\ (\A w \in WorkersOf(c) : Idle(w)) =>
                          /\ gauges[c].inFlight
                                = Cardinality({w \in WorkersOf(c) :
                                              pc[w] \in Request /\ result[w] = {}})
                          /\ gauges[c].activeWorkers
                                = Cardinality({w \in WorkersOf(c) : pc[w] # "returned"})
  BY DEF GaugesTrackWorkers
<1> DEFINE R == {w \in WorkersOf(c) : Registered(w)}
           S == {w \in WorkersOf(c) : Started(w)}
<1>1. gauges[c].inFlight = Cardinality(R) /\ gauges[c].activeWorkers = Cardinality(S)
  BY DEF GaugeInv, GaugesExact
<1>2. IsFiniteSet(WorkersOf(c)) /\ IsFiniteSet(R) /\ IsFiniteSet(S)
  BY PoolAssumption, FS_Subset DEF WorkersOf
<1>3. R \subseteq S /\ S \subseteq WorkersOf(c)
  <2>1. ASSUME NEW w \in WorkersOf(c), Registered(w) PROVE Started(w)
    <3>1. CallShape(w)
      BY DEF GaugeInv, CallsFit, WorkersOf
    <3>2. pc[w] \in Request /\ (Waits(calls[w]) \/ Reporting(w))
      BY <2>1, <3>1 DEF CallShape, Registered
    <3>3. calls[w] # <<StartWorker>>
      BY <3>2, WaitsForms, ReportingStarted DEF WorkersOf
    <3> QED
      BY <3>2, <3>3 DEF Started, Request
  <2> QED
    BY <2>1
<1>4. Cardinality(R) <= Cardinality(S) /\ Cardinality(S) <= Cardinality(WorkersOf(c))
  BY <1>2, <1>3, FS_Subset
<1>5. ASSUME \A w \in WorkersOf(c) : Idle(w)
      PROVE  /\ R = {w \in WorkersOf(c) : pc[w] \in Request /\ result[w] = {}}
             /\ S = {w \in WorkersOf(c) : pc[w] # "returned"}
  <2>1. <<>> # <<StartWorker>>
    BY WaitsForms
  <2> QED
    BY <1>5, <2>1 DEF Registered, Started, Idle, Request
<1> QED
  BY <1>1, <1>4, <1>5

LEMMA GaugesAlways == TelSpec => []GaugeInv
<1>1. GaugeInv /\ ResultInv /\ TypeOK /\ [TelNext]_allVars => GaugeInv'
  BY GaugesStep
<1> QED
  BY <1>1, ResultsAlways, GaugesStart, PTL DEF TelSpec

(* The gauges of workers and requests are right whenever no worker is on its  *)
(* way to a call, for any number of cores and workers, whatever way each of   *)
(* them takes out of its requests and its loop (telemetry.go:221-245,         *)
(* worker.go:96-100, worker.go:143-148).                                      *)
THEOREM GaugesAreTrue == TelSpec => []GaugesTrackWorkers
BY GaugesAlways, ExactGaugesTrack, PTL

-----------------------------------------------------------------------------
(* The histogram of request durations.  A request that is settled as canceled *)
(* settles at least one document: no batch that is sent is empty.             *)
Filled ==
    /\ \A c \in Cores : prod[c] = "send" => batch[c] # {}
    /\ \A c \in Cores : \A i \in 1..Len(queue[c]) : queue[c][i] # {}
    /\ \A w \in Workers : pc[w] \in {"post", "doomed", "backoff"} => job[w] # {}

LEMMA FilledProduce ==
    ASSUME TypeOK, Filled, NEW c \in Cores, Produce(c)
    PROVE  Filled'
<1> USE DEF TypeOK
<1>1. UNCHANGED <<pc, job>> /\ \A d \in Cores \ {c} : /\ prod'[d] = prod[d]
                                                     /\ batch'[d] = batch[d]
                                                     /\ queue'[d] = queue[d]
  BY DEF Produce, KeepGoing, Generate, SendBatch, SendInterrupted, StopEmpty, FlushPartial,
         DropPartial
<1>2. prod'[c] = "send" => batch'[c] # {}
  <2>1. CASE Generate(c)
    <3>1. batch'[c] = batch[c] \cup {stats[c].generatedDocs + 1}
      BY <2>1 DEF Generate
    <3> QED
      BY <3>1
  <2> QED
    BY <2>1 DEF Produce, KeepGoing, SendBatch, SendInterrupted, StopEmpty, FlushPartial,
                DropPartial
<1>3. \A i \in 1..Len(queue'[c]) : queue'[c][i] # {}
  <2>1. CASE UNCHANGED queue
    BY <2>1 DEF Filled
  <2>2. CASE SendBatch(c) \/ FlushPartial(c)
    <3>1. queue'[c] = Append(queue[c], batch[c]) /\ batch[c] # {}
      BY <2>2 DEF SendBatch, FlushPartial, Filled
    <3>2. /\ Len(Append(queue[c], batch[c])) = Len(queue[c]) + 1
          /\ Append(queue[c], batch[c])[Len(queue[c]) + 1] = batch[c]
          /\ \A i \in 1..Len(queue[c]) : Append(queue[c], batch[c])[i] = queue[c][i]
          /\ Len(queue[c]) \in Nat
      BY AppendProperties
    <3> HIDE DEF TypeOK
    <3> QED
      BY <3>1, <3>2 DEF Filled
  <2> QED
    BY <2>1, <2>2 DEF Produce, KeepGoing, Generate, SendInterrupted, StopEmpty, DropPartial
<1> QED
  BY <1>1, <1>2, <1>3 DEF Filled

LEMMA FilledWork ==
    ASSUME TypeOK, Filled, NEW w \in Workers, Work(w)
    PROVE  Filled'
<1> DEFINE c == CoreOf[w]
<1>1. c \in Cores
  BY PoolAssumption
<1>2. UNCHANGED <<prod, batch>>
  BY DEF Work, WorkAlone, ReceiveJob, ReturnIdle, PostEnds, RequestTimeout, RequestCanceled,
         BackoffElapsed, BackoffCanceled, SleepElapsed, SleepCanceled, AfterPost
<1>3. \A v \in Workers \ {w} : pc'[v] = pc[v] /\ job'[v] = job[v]
  BY DEF TypeOK, Work, WorkAlone, ReceiveJob, ReturnIdle, PostEnds, RequestTimeout,
         RequestCanceled, BackoffElapsed, BackoffCanceled, SleepElapsed, SleepCanceled,
         AfterPost, Succeed, GiveUpCanceled, GiveUp, ScheduleRetry, Release, StartRequest
<1>4. CASE ReceiveJob(w)
  <2> DEFINE q == queue[c]
  <2>1. /\ q \in Seq(DocSet) /\ q # <<>>
        /\ queue'[c] = Tail(q) /\ job'[w] = Head(q)
        /\ \A d \in Cores \ {c} : queue'[d] = queue[d]
    BY <1>1, <1>4 DEF TypeOK, ReceiveJob
  <2>2. \A i \in 1..Len(q) : q[i] # {}
    BY <1>1 DEF Filled
  <2> HIDE DEF q
  <2>3. Head(q) = q[1] /\ Len(q) \in Nat /\ Len(q) >= 1
    BY <2>1
  <2>4. Len(Tail(q)) = Len(q) - 1 /\ \A i \in 1..Len(Tail(q)) : Tail(q)[i] = q[i + 1]
    BY <2>1, HeadTailProperties
  <2>5. job'[w] # {} /\ \A i \in 1..Len(queue'[c]) : queue'[c][i] # {}
    BY <2>1, <2>2, <2>3, <2>4
  <2> QED
    BY <1>2, <1>3, <2>1, <2>5 DEF Filled
<1>5. CASE ~ReceiveJob(w)
  <2>1. UNCHANGED queue
    BY <1>5 DEF Work, WorkAlone, ReturnIdle, PostEnds, RequestTimeout, RequestCanceled,
                BackoffElapsed, BackoffCanceled, SleepElapsed, SleepCanceled, AfterPost
  <2>2. \/ pc'[w] \notin {"post", "doomed", "backoff"}
        \/ pc[w] \in {"post", "doomed", "backoff"} /\ job'[w] = job[w]
    BY <1>5 DEF TypeOK, Work, WorkAlone, ReturnIdle, PostEnds, RequestTimeout,
         RequestCanceled, BackoffElapsed, BackoffCanceled, SleepElapsed, SleepCanceled,
         AfterPost, Succeed, GiveUpCanceled, GiveUp, ScheduleRetry, Release, StartRequest
  <2> QED
    BY <1>2, <1>3, <2>1, <2>2 DEF Filled
<1> QED
  BY <1>4, <1>5

LEMMA FilledAlways == Spec => []Filled
<1>1. Init => Filled
  BY DEF Init, Filled
<1>2. TypeOK /\ Filled /\ [Next]_vars => Filled'
  <2> SUFFICES ASSUME TypeOK, Filled, [Next]_vars PROVE Filled'
    OBVIOUS
  <2>1. CASE Shutdown \/ Coordinate \/ UNCHANGED vars
    BY <2>1 DEF Shutdown, Coordinate, ProducersJoined, ShutdownTimeout, Finish, vars, Filled
  <2> QED
    BY <2>1, FilledProduce, FilledWork DEF Next
<1> QED
  BY <1>1, <1>2, TypeCorrect, PTL DEF Spec

-----------------------------------------------------------------------------
(* A request that the histogram has counted and whose result no one has       *)
(* looked at; what is left without these are the requests the statistics      *)
(* know of, and it moves with them only.                                      *)
Measured(w, o) == Idle(w) /\ \E err \in result[w] : requestOutcome(err) = o
Unseen(c, o)   == Cardinality({w \in WorkersOf(c) : Measured(w, o)})
Seen == [c \in Cores |-> [o \in RequestOutcome |-> latency[c][o] - Unseen(c, o)]]

LatencyTypeOK ==
    /\ latency \in [Cores -> [RequestOutcome -> Int]]
    /\ Seen \in [Cores -> [RequestOutcome -> Nat]]

SeenExplained ==
    \A c \in Cores :
        LET l       == Seen[c]
            counted == stats[c].retryAttempts + stats[c].terminalFailures
        IN  /\ l["success"] = stats[c].successfulRequests
            /\ counted <= l["error"] + l["canceled"]
            /\ l["error"] + l["canceled"] <= counted + Cardinality(settled[c]["canceled"])
            /\ ~forced => l["error"] = counted /\ l["canceled"] = 0

LEMMA UnseenType ==
    ASSUME NEW c \in Cores, NEW o
    PROVE  Unseen(c, o) \in Nat
<1>1. IsFiniteSet(WorkersOf(c))
  BY PoolAssumption, FS_Subset DEF WorkersOf
<1>2. IsFiniteSet({w \in WorkersOf(c) : Measured(w, o)})
  BY <1>1, FS_Subset
<1> QED
  BY <1>2, FS_CardinalityType DEF Unseen

(* The requests of one core and one outcome when one worker moves. *)
LEMMA UnseenMoves ==
    ASSUME NEW w \in Workers,
           \A v \in Workers \ {w} : calls'[v] = calls[v] /\ result'[v] = result[v],
           NEW c \in Cores, NEW o
    PROVE  /\ Unseen(c, o) \in Nat
           /\ Unseen(c, o)' = IF c = CoreOf[w]
                 THEN Unseen(c, o) + One(Measured(w, o)') - One(Measured(w, o))
                 ELSE Unseen(c, o)
<1> DEFINE A == {v \in WorkersOf(c) : Measured(v, o)}
           B == {v \in WorkersOf(c) : Measured(v, o)'}
<1>1. IsFiniteSet(A)
  BY PoolAssumption, FS_Subset DEF WorkersOf
<1>2. A \ {w} = B \ {w}
  BY DEF Measured, Idle, WorkersOf
<1>3. Unseen(c, o) = Cardinality(A) /\ Unseen(c, o)' = Cardinality(B)
  BY DEF Unseen, WorkersOf
<1>4. /\ Cardinality(A) \in Nat
      /\ Cardinality(B) = Cardinality(A) + One(w \in B) - One(w \in A)
  BY <1>1, <1>2, CountOne
<1>5. CASE c = CoreOf[w]
  <2>1. ((w \in A) <=> Measured(w, o)) /\ ((w \in B) <=> Measured(w, o)')
    BY <1>5 DEF WorkersOf
  <2>2. One(w \in A) = One(Measured(w, o)) /\ One(w \in B) = One(Measured(w, o)')
    BY <2>1 DEF One
  <2> QED
    BY <1>3, <1>4, <1>5, <2>2
<1>6. CASE c # CoreOf[w]
  <2>1. w \notin A /\ w \notin B
    BY <1>6 DEF WorkersOf
  <2> QED
    BY <1>3, <1>4, <1>6, <2>1 DEF One
<1> QED
  BY <1>5, <1>6

(* The three ways in which a worker moves what has been looked at: not at     *)
(* all, ...                                                                   *)
LEMMA SeenStays ==
    ASSUME LatencyTypeOK, NEW w \in Workers,
           \A v \in Workers \ {w} : calls'[v] = calls[v] /\ result'[v] = result[v],
           latency' = latency,
           \A o \in RequestOutcome : Measured(w, o)' <=> Measured(w, o)
    PROVE  Seen' = Seen
<1>1. ASSUME NEW c \in Cores, NEW o \in RequestOutcome
      PROVE  Unseen(c, o)' = Unseen(c, o)
  <2>1. One(Measured(w, o)') = One(Measured(w, o)) /\ One(Measured(w, o)) \in Int
    BY DEF One
  <2>2. /\ Unseen(c, o) \in Nat
        /\ Unseen(c, o)' = IF c = CoreOf[w]
              THEN Unseen(c, o) + One(Measured(w, o)') - One(Measured(w, o))
              ELSE Unseen(c, o)
    BY UnseenMoves
  <2> QED
    BY <2>1, <2>2
<1> QED
  BY <1>1 DEF Seen

(* ... when the histogram counts the request, ... *)
LEMMA SeenMeasured ==
    ASSUME LatencyTypeOK, NEW w \in Workers, NEW o \in RequestOutcome,
           \A v \in Workers \ {w} : calls'[v] = calls[v] /\ result'[v] = result[v],
           latency' = [latency EXCEPT ![CoreOf[w]][o] = @ + 1],
           \A p \in RequestOutcome : ~Measured(w, p) /\ (Measured(w, p)' <=> p = o)
    PROVE  Seen' = Seen
<1>1. ASSUME NEW c \in Cores, NEW p \in RequestOutcome
      PROVE  latency'[c][p] - Unseen(c, p)' = latency[c][p] - Unseen(c, p)
  <2>1. /\ latency[c][p] \in Int
        /\ latency'[c][p] = IF c = CoreOf[w] /\ p = o THEN latency[c][p] + 1
                                                     ELSE latency[c][p]
    BY PoolAssumption DEF LatencyTypeOK
  <2>2. One(Measured(w, p)') = (IF p = o THEN 1 ELSE 0) /\ One(Measured(w, p)) = 0
    BY DEF One
  <2>3. /\ Unseen(c, p) \in Nat
        /\ Unseen(c, p)' = IF c = CoreOf[w]
              THEN Unseen(c, p) + One(Measured(w, p)') - One(Measured(w, p))
              ELSE Unseen(c, p)
    BY UnseenMoves
  <2> QED
    BY <2>1, <2>2, <2>3
<1> QED
  BY <1>1 DEF Seen

(* ... and when its result is looked at. *)
LEMMA SeenGrows ==
    ASSUME LatencyTypeOK, NEW w \in Workers, NEW o \in RequestOutcome,
           \A v \in Workers \ {w} : calls'[v] = calls[v] /\ result'[v] = result[v],
           latency' = latency,
           \A p \in RequestOutcome : ~Measured(w, p)' /\ (Measured(w, p) <=> p = o)
    PROVE  Seen' = [Seen EXCEPT ![CoreOf[w]][o] = @ + 1]
<1>1. ASSUME NEW c \in Cores, NEW p \in RequestOutcome
      PROVE  Seen'[c][p] = IF c = CoreOf[w] /\ p = o THEN Seen[c][p] + 1 ELSE Seen[c][p]
  <2>1. latency[c][p] \in Int /\ latency'[c][p] = latency[c][p]
    BY DEF LatencyTypeOK
  <2>2. One(Measured(w, p)) = (IF p = o THEN 1 ELSE 0) /\ One(Measured(w, p)') = 0
    BY DEF One
  <2>3. /\ Unseen(c, p) \in Nat
        /\ Unseen(c, p)' = IF c = CoreOf[w]
              THEN Unseen(c, p) + One(Measured(w, p)') - One(Measured(w, p))
              ELSE Unseen(c, p)
    BY UnseenMoves
  <2>4. Seen'[c][p] = latency'[c][p] - Unseen(c, p)' /\ Seen[c][p] = latency[c][p] - Unseen(c, p)
    BY DEF Seen
  <2> QED
    BY <2>1, <2>2, <2>3, <2>4
<1>2. /\ Seen' = [c \in Cores |-> [p \in RequestOutcome |-> Seen'[c][p]]]
      /\ Seen = [c \in Cores |-> [p \in RequestOutcome |-> Seen[c][p]]]
  BY DEF Seen
<1> DEFINE d == CoreOf[w]
<1>3. d \in Cores
  BY PoolAssumption
<1>4. [Seen EXCEPT ![d][o] = @ + 1]
        = [c \in Cores |-> [p \in RequestOutcome |->
              IF c = d /\ p = o THEN Seen[c][p] + 1 ELSE Seen[c][p]]]
  BY <1>2, <1>3
<1>5. [c \in Cores |-> [p \in RequestOutcome |-> Seen'[c][p]]]
        = [c \in Cores |-> [p \in RequestOutcome |->
              IF c = d /\ p = o THEN Seen[c][p] + 1 ELSE Seen[c][p]]]
  BY <1>1
<1> QED
  BY <1>2, <1>4, <1>5

(* A batch that is given up as canceled adds all its documents. *)
LEMMA CanceledGrows ==
    ASSUME AccountInv, NEW w \in Workers, Release(w, "canceled"), NEW c \in Cores
    PROVE  /\ Cardinality(settled[c]["canceled"]) \in Nat
           /\ Cardinality(settled'[c]["canceled"]) \in Nat
           /\ Cardinality(settled'[c]["canceled"]) >= Cardinality(settled[c]["canceled"])
           /\ c = CoreOf[w] /\ job[w] # {} =>
                Cardinality(settled'[c]["canceled"]) >= Cardinality(settled[c]["canceled"]) + 1
<1> DEFINE S == settled[c]["canceled"]
<1> USE DEF AccountInv, TypeInv, TypeOK
<1>1. S \in DocSet /\ job[w] \in DocSet
  BY DEF Outcome
<1>2. IsFiniteSet(S) /\ Cardinality(S) \in Nat /\ IsFiniteSet(job[w])
  BY <1>1, DocSetFacts DEF DocSet
<1>3. CASE c # CoreOf[w]
  <2>1. settled'[c] = settled[c]
    BY <1>3 DEF Release, Settle
  <2> QED
    BY <1>2, <1>3, <2>1
<1>4. CASE c = CoreOf[w]
  <2>1. settled'[c]["canceled"] = S \cup job[w]
    BY <1>4 DEF Release, Settle, Outcome
  <2>2. IsFiniteSet(S \cup job[w])
    BY <1>2, FS_Union
  <2>3. Cardinality(S \cup job[w]) \in Nat /\ Cardinality(S \cup job[w]) >= Cardinality(S)
    BY <1>2, <2>2, FS_CardinalityType, FS_Subset
  <2>4. job[w] \cap S = {}
    <3>1. job[w] \subseteq Sending(c)
      BY <1>4 DEF Sending, DocsIn, JobsOf, WorkersOf
    <3>2. S \subseteq Settled(c)
      <4>1. "canceled" \in DOMAIN settled[c]
        BY DEF Outcome
      <4> QED
        BY <4>1 DEF Settled, DocsIn
    <3>3. Sending(c) \cap Settled(c) = {}
      BY DEF DocsAccounted, Accounted
    <3> QED
      BY <3>1, <3>2, <3>3
  <2>5. ASSUME job[w] # {} PROVE Cardinality(S \cup job[w]) >= Cardinality(S) + 1
    <3>1. PICK d \in job[w] : TRUE
      BY <2>5
    <3>2. Cardinality(S \cup {d}) = Cardinality(S) + 1
      BY <1>2, <2>4, <3>1, FS_AddElement
    <3>3. S \cup {d} \subseteq S \cup job[w]
      BY <3>1
    <3>4. Cardinality(S \cup {d}) <= Cardinality(S \cup job[w])
      BY <2>2, <3>3, FS_Subset
    <3>5. Cardinality(S \cup {d}) \in Nat
      BY <1>2, <3>2
    <3> QED
      BY <1>2, <2>3, <3>2, <3>4, <3>5
  <2> QED
    BY <1>2, <2>1, <2>3, <2>5
<1> QED
  BY <1>3, <1>4

(* A step that decides about no request. *)
LEMMA NoRequestEnds ==
    ASSUME TypeOK, LatencyTypeOK, SeenExplained,
           Seen' = Seen, forced => forced',
           \A c \in Cores :
               /\ stats'[c].successfulRequests = stats[c].successfulRequests
               /\ stats'[c].retryAttempts = stats[c].retryAttempts
               /\ stats'[c].terminalFailures = stats[c].terminalFailures
               /\ Cardinality(settled[c]["canceled"]) \in Nat
               /\ Cardinality(settled'[c]["canceled"]) \in Nat
               /\ Cardinality(settled'[c]["canceled"]) >= Cardinality(settled[c]["canceled"])
    PROVE  SeenExplained'
<1> SUFFICES ASSUME NEW c \in Cores
             PROVE  LET l       == Seen'[c]
                        counted == stats'[c].retryAttempts + stats'[c].terminalFailures
                    IN  /\ l["success"] = stats'[c].successfulRequests
                        /\ counted <= l["error"] + l["canceled"]
                        /\ l["error"] + l["canceled"]
                              <= counted + Cardinality(settled'[c]["canceled"])
                        /\ ~forced' => l["error"] = counted /\ l["canceled"] = 0
  BY DEF SeenExplained
<1>1. stats[c].retryAttempts \in Nat /\ stats[c].terminalFailures \in Nat
  BY DEF TypeOK, CoreSnapshot
<1>2. Seen[c]["error"] \in Nat /\ Seen[c]["canceled"] \in Nat
  BY DEF LatencyTypeOK, RequestOutcome
<1> QED
  BY <1>1, <1>2 DEF SeenExplained

(* A result that is looked at adds one to its outcome, and the decision one   *)
(* to what explains it.                                                       *)
LEMMA RequestEnds ==
    ASSUME AccountInv, LatencyTypeOK, SeenExplained, NEW w \in Workers, NEW err,
           AfterPost(w, err), job[w] # {}, ~forced => ~IsCanceled(err),
           Seen' = [Seen EXCEPT ![CoreOf[w]][requestOutcome(err)] = @ + 1]
    PROVE  Seen' \in [Cores -> [RequestOutcome -> Nat]] /\ SeenExplained'
<1> DEFINE c == CoreOf[w]
           o == requestOutcome(err)
<1>1. c \in Cores /\ TypeOK
  BY PoolAssumption DEF AccountInv, TypeInv
<1>2. o \in RequestOutcome /\ Seen' = [Seen EXCEPT ![c][o] = @ + 1]
  BY OutcomeType
<1>3. forced' = forced
  BY DEF AfterPost
<1>4. Seen' \in [Cores -> [RequestOutcome -> Nat]]
  BY <1>1, <1>2 DEF LatencyTypeOK
<1>5. /\ \A p \in RequestOutcome : Seen[c][p] \in Nat
      /\ \A p \in RequestOutcome : Seen'[c][p] = Seen[c][p] + (IF p = o THEN 1 ELSE 0)
      /\ \A d \in Cores \ {c} : Seen'[d] = Seen[d]
  BY <1>1, <1>2 DEF LatencyTypeOK
<1>6. stats[c].retryAttempts \in Nat /\ stats[c].terminalFailures \in Nat
      /\ stats[c].successfulRequests \in Nat
  BY <1>1 DEF TypeOK, CoreSnapshot
<1> DEFINE counted == stats[c].retryAttempts + stats[c].terminalFailures
           K == Cardinality(settled[c]["canceled"])
           K2 == Cardinality(settled'[c]["canceled"])
<1>7. K \in Nat
  <2>1. settled[c]["canceled"] \in DocSet
    BY <1>1 DEF TypeOK, Outcome
  <2> QED
    BY <2>1, DocSetFacts
<1>8. /\ Seen[c]["success"] = stats[c].successfulRequests
      /\ counted <= Seen[c]["error"] + Seen[c]["canceled"]
      /\ Seen[c]["error"] + Seen[c]["canceled"] <= counted + K
      /\ ~forced => Seen[c]["error"] = counted /\ Seen[c]["canceled"] = 0
  BY <1>1 DEF SeenExplained
<1> DEFINE Explained ==
             /\ Seen'[c]["success"] = stats'[c].successfulRequests
             /\ stats'[c].retryAttempts + stats'[c].terminalFailures
                   <= Seen'[c]["error"] + Seen'[c]["canceled"]
             /\ Seen'[c]["error"] + Seen'[c]["canceled"]
                   <= stats'[c].retryAttempts + stats'[c].terminalFailures + K2
             /\ ~forced => /\ Seen'[c]["error"]
                                 = stats'[c].retryAttempts + stats'[c].terminalFailures
                           /\ Seen'[c]["canceled"] = 0
<1>9. CASE Succeed(w, err)
  <2>1. o = "success"
    BY <1>9 DEF Succeed, requestOutcome, IsCanceled
  <2>2. /\ stats'[c].successfulRequests = stats[c].successfulRequests + 1
        /\ stats'[c].retryAttempts = stats[c].retryAttempts
        /\ stats'[c].terminalFailures = stats[c].terminalFailures
    BY <1>1, <1>9 DEF Succeed, TypeOK, CoreSnapshot
  <2>3. K2 = K
    <3>1. Release(w, "sent") /\ "sent" \in Outcome /\ "canceled" \in Outcome
      BY <1>9 DEF Succeed, Outcome
    <3> QED
      BY <1>1, <3>1, ReleaseKeeps DEF AccountInv
  <2>4. /\ Seen'[c]["success"] = Seen[c]["success"] + 1
        /\ Seen'[c]["error"] = Seen[c]["error"]
        /\ Seen'[c]["canceled"] = Seen[c]["canceled"]
        /\ Seen[c]["error"] \in Nat /\ Seen[c]["canceled"] \in Nat
    BY <1>5, <2>1 DEF RequestOutcome
  <2>5. Explained
    BY <1>6, <1>7, <1>8, <2>2, <2>3, <2>4
  <2>6. \A d \in Cores \ {c} : stats'[d] = stats[d] /\ settled'[d] = settled[d]
    BY <1>1, <1>9 DEF Succeed, Release, Settle, TypeOK
  <2> QED
    BY <1>1, <1>3, <1>4, <1>5, <2>5, <2>6 DEF SeenExplained
<1>10. CASE GiveUpCanceled(w, err)
  <2>1. forced /\ o \in {"canceled", "error"}
    BY <1>10 DEF GiveUpCanceled, requestOutcome
  <2>2. stats' = stats /\ Release(w, "canceled")
    BY <1>10 DEF GiveUpCanceled
  <2>3. K2 \in Nat /\ K2 >= K + 1
    BY <1>1, <2>2, CanceledGrows
  <2>4. /\ Seen'[c]["success"] = Seen[c]["success"]
        /\ Seen'[c]["error"] + Seen'[c]["canceled"]
              = Seen[c]["error"] + Seen[c]["canceled"] + 1
        /\ Seen[c]["error"] \in Nat /\ Seen[c]["canceled"] \in Nat
    <3>1. CASE o = "canceled"
      BY <1>5, <3>1 DEF RequestOutcome
    <3>2. CASE o = "error"
      BY <1>5, <3>2 DEF RequestOutcome
    <3> QED
      BY <2>1, <3>1, <3>2
  <2>5. Explained
    BY <1>6, <1>7, <1>8, <2>1, <2>2, <2>3, <2>4
  <2>6. \A d \in Cores \ {c} : stats'[d] = stats[d] /\ settled'[d] = settled[d]
    BY <2>2 DEF Release, Settle
  <2> QED
    BY <1>1, <1>3, <1>4, <1>5, <2>5, <2>6 DEF SeenExplained
<1>11. CASE GiveUp(w, err) \/ ScheduleRetry(w, err)
  <2>1. o = "error"
    BY <1>11 DEF GiveUp, ScheduleRetry, requestOutcome
  <2>2. /\ stats'[c].successfulRequests = stats[c].successfulRequests
        /\ stats'[c].retryAttempts + stats'[c].terminalFailures = counted + 1
    <3>1. CASE GiveUp(w, err)
      BY <1>1, <1>6, <3>1 DEF GiveUp, TypeOK, CoreSnapshot
    <3>2. CASE ScheduleRetry(w, err)
      BY <1>1, <1>6, <3>2 DEF ScheduleRetry, TypeOK, CoreSnapshot
    <3> QED
      BY <1>11, <3>1, <3>2
  <2>3. K2 = K
    <3>1. CASE GiveUp(w, err)
      <4>1. Release(w, "failed") /\ "failed" \in Outcome /\ "canceled" \in Outcome
        BY <3>1 DEF GiveUp, Outcome
      <4> QED
        BY <1>1, <4>1, ReleaseKeeps DEF AccountInv
    <3>2. CASE ScheduleRetry(w, err)
      BY <3>2 DEF ScheduleRetry
    <3> QED
      BY <1>11, <3>1, <3>2
  <2>4. /\ Seen'[c]["success"] = Seen[c]["success"]
        /\ Seen'[c]["error"] = Seen[c]["error"] + 1
        /\ Seen'[c]["canceled"] = Seen[c]["canceled"]
        /\ Seen[c]["error"] \in Nat /\ Seen[c]["canceled"] \in Nat
    BY <1>5, <2>1 DEF RequestOutcome
  <2>5. Explained
    BY <1>6, <1>7, <1>8, <2>2, <2>3, <2>4
  <2>6. \A d \in Cores \ {c} : stats'[d] = stats[d] /\ settled'[d] = settled[d]
    <3>1. CASE GiveUp(w, err)
      BY <1>1, <3>1 DEF GiveUp, Release, Settle, TypeOK
    <3>2. CASE ScheduleRetry(w, err)
      BY <1>1, <3>2 DEF ScheduleRetry, TypeOK
    <3> QED
      BY <1>11, <3>1, <3>2
  <2> QED
    BY <1>1, <1>3, <1>4, <1>5, <2>5, <2>6 DEF SeenExplained
<1> QED
  BY <1>9, <1>10, <1>11 DEF AfterPost

LEMMA LatencyProduce ==
    ASSUME AccountInv, LatencyTypeOK, SeenExplained, NEW c \in Cores, Produce(c),
           Seen' = Seen
    PROVE  SeenExplained'
<1>1. TypeOK
  BY DEF AccountInv, TypeInv
<1>2. forced' = forced
  BY DEF Produce, KeepGoing, Generate, SendBatch, SendInterrupted, StopEmpty, FlushPartial,
         DropPartial
<1>3. ASSUME NEW d \in Cores
      PROVE  /\ stats'[d].successfulRequests = stats[d].successfulRequests
             /\ stats'[d].retryAttempts = stats[d].retryAttempts
             /\ stats'[d].terminalFailures = stats[d].terminalFailures
  <2>1. stats \in [Cores -> CoreSnapshot]
    BY <1>1 DEF TypeOK
  <2>2. CASE Generate(c)
    <3>1. stats' = [stats EXCEPT ![c].generatedDocs = stats[c].generatedDocs + 1]
      BY <2>2 DEF Generate
    <3> QED
      BY <2>1, <3>1 DEF CoreSnapshot
  <2>3. CASE DropPartial(c)
    BY <2>1, <2>3 DEF DropPartial, CoreSnapshot
  <2> QED
    BY <2>2, <2>3 DEF Produce, KeepGoing, SendBatch, SendInterrupted, StopEmpty, FlushPartial
<1>4. ASSUME NEW d \in Cores
      PROVE  settled'[d]["canceled"] = settled[d]["canceled"]
  <2>1. CASE DropPartial(c)
    <3>1. settled \in [Cores -> [Outcome -> DocSet]] /\ {"canceled", "dropped"} \subseteq Outcome
      BY <1>1 DEF TypeOK, Outcome
    <3>2. settled' = [settled EXCEPT ![c] = [settled[c] EXCEPT
                                              !["dropped"] = settled[c]["dropped"] \cup batch[c]]]
      BY <2>1, <3>1 DEF DropPartial, Settle
    <3> QED
      BY <3>1, <3>2
  <2> QED
    BY <2>1 DEF Produce, KeepGoing, Generate, SendBatch, SendInterrupted, StopEmpty, FlushPartial
<1>5. ASSUME NEW d \in Cores PROVE Cardinality(settled[d]["canceled"]) \in Nat
  <2>1. settled[d]["canceled"] \in DocSet
    BY <1>1 DEF TypeOK, Outcome
  <2> QED
    BY <2>1, DocSetFacts
<1>6. \A d \in Cores : Cardinality(settled'[d]["canceled"]) >= Cardinality(settled[d]["canceled"])
  BY <1>4, <1>5
<1> QED
  BY <1>1, <1>2, <1>3, <1>4, <1>5, <1>6, NoRequestEnds

(* What the end of a request that has not been forced cannot be. *)
LEMMA NotYetCanceled ==
    ASSUME ResultInv, NEW w \in Workers, NEW err \in result[w], ~forced
    PROVE  ~IsCanceled(err)
BY HeldFacts, NotCanceled DEF Obtained

LEMMA LatencyDecide ==
    ASSUME AccountInv, ResultInv, LatencyTypeOK, SeenExplained, Filled,
           NEW w \in Workers, Idle(w), TelAfterPost(w)
    PROVE  LatencyTypeOK' /\ SeenExplained'
<1>1. PICK err \in result[w] : AfterPost(w, err)
  BY DEF TelAfterPost, AfterPost
<1> DEFINE o == requestOutcome(err)
<1>2. o \in RequestOutcome
  BY OutcomeType
<1>3. result[w] = {err} /\ pc[w] \in Request
  BY HeldFacts
<1>4. /\ result'[w] = {} /\ latency' = latency
      /\ \A v \in Workers \ {w} : calls'[v] = calls[v] /\ result'[v] = result[v]
  BY DEF TelAfterPost, ResultInv, Then, Goroutine
<1>5. \A p \in RequestOutcome : ~Measured(w, p)' /\ (Measured(w, p) <=> p = o)
  BY <1>3, <1>4 DEF Measured
<1> HIDE DEF o
<1>6. Seen' = [Seen EXCEPT ![CoreOf[w]][o] = @ + 1]
  BY <1>2, <1>4, <1>5, SeenGrows
<1>7. job[w] # {}
  BY <1>3 DEF Filled, Request
<1>8. ~forced => ~IsCanceled(err)
  BY NotYetCanceled
<1>9. Seen' \in [Cores -> [RequestOutcome -> Nat]] /\ SeenExplained'
  BY <1>1, <1>6, <1>7, <1>8, RequestEnds DEF o
<1> QED
  BY <1>4, <1>9 DEF LatencyTypeOK

LEMMA LatencyWork ==
    ASSUME AccountInv, ResultInv, LatencyTypeOK, SeenExplained, Filled,
           NEW w \in Workers, TelWork(w)
    PROVE  LatencyTypeOK' /\ SeenExplained'
<1>1. TypeOK /\ Idle(w)
  BY DEF AccountInv, TypeInv, TelWork
<1>2. \A c \in Cores : Cardinality(settled[c]["canceled"]) \in Nat
  <2>1. \A c \in Cores : settled[c]["canceled"] \in DocSet
    BY <1>1 DEF TypeOK, Outcome
  <2> QED
    BY <2>1, DocSetFacts
<1>3. CASE TelAfterPost(w)
  BY <1>1, <1>3, LatencyDecide
<1>4. CASE PostReturns(w)
  <2>1. PICK err : Return(w, err)
    BY <1>4 DEF PostReturns
  <2>2. result[w] = {} /\ latency' = latency /\ UNCHANGED vars
    BY <1>4 DEF PostReturns
  <2>3. /\ calls'[w] # <<>>
        /\ \A v \in Workers \ {w} : calls'[v] = calls[v] /\ result'[v] = result[v]
    BY <2>1 DEF Return, AfterPostBatch, Then, ResultInv, Goroutine
  <2>4. \A o \in RequestOutcome : ~Measured(w, o) /\ ~Measured(w, o)'
    BY <2>2, <2>3 DEF Measured, Idle
  <2>5. Seen' = Seen
    BY <2>2, <2>3, <2>4, SeenStays
  <2> QED
    BY <2>2, <2>5 DEF LatencyTypeOK, SeenExplained, vars
<1>5. CASE ~PostReturns(w) /\ ~TelAfterPost(w)
  <2>1. latency' = latency
    BY <1>5 DEF TelWork
  <2>2. pc[w] \notin Request /\ result' = result
    BY <1>5, LoopPlaces
  <2>3. result[w] = {} /\ result'[w] = {}
    BY <2>2, HeldFacts
  <2>4. \A v \in Workers \ {w} : calls'[v] = calls[v] /\ result'[v] = result[v]
    BY <1>5, <2>2 DEF TelWork, TelReturn, Then, ResultInv, Goroutine
  <2>5. \A o \in RequestOutcome : ~Measured(w, o) /\ ~Measured(w, o)'
    BY <2>3 DEF Measured
  <2>6. Seen' = Seen
    BY <2>1, <2>4, <2>5, SeenStays
  <2>7. /\ stats' = stats
        /\ forced' = forced
        /\ Release(w, "canceled") \/ settled' = settled
    BY <1>5 DEF TelWork, TelReturn, ReceiveJob, BackoffElapsed, BackoffCanceled, SleepElapsed,
                SleepCanceled, ReturnIdle
  <2>8. \A c \in Cores :
           /\ Cardinality(settled'[c]["canceled"]) \in Nat
           /\ Cardinality(settled'[c]["canceled"]) >= Cardinality(settled[c]["canceled"])
    BY <1>2, <2>7, CanceledGrows
  <2>9. SeenExplained'
    BY <1>1, <1>2, <2>6, <2>7, <2>8, NoRequestEnds
  <2> QED
    BY <2>1, <2>6, <2>9 DEF LatencyTypeOK
<1> QED
  BY <1>3, <1>4, <1>5

(* A call that is not the last before the decision leaves its worker as       *)
(* unmeasured as it was; the last one is the histogram's.                     *)
LEMMA LatencyCall ==
    ASSUME GaugeInv, ResultInv, LatencyTypeOK, NEW w \in Workers, Observe(w)
    PROVE  LatencyTypeOK' /\ Seen' = Seen
<1>1. /\ pc' = pc /\ result' = result /\ calls[w] # <<>> /\ CallShape(w)
      /\ Core(w) = CoreOf[w] /\ CoreOf[w] \in Cores
  BY WorkerCallFacts
<1>2. \A v \in Workers \ {w} : calls'[v] = calls[v] /\ result'[v] = result[v]
  BY <1>1 DEF Observe, EvaluateLen, Store, Track, Count, Measure, Then, ResultInv, Goroutine
<1>3. \A o \in RequestOutcome : ~Measured(w, o)
  BY <1>1 DEF Measured, Idle
<1>4. ASSUME result[w] # {}
      PROVE  /\ Head(calls[w])[1] \in RequestOutcome \cup {"inFlight"}
             /\ Head(calls[w])[1] = "inFlight" => Tail(calls[w]) # <<>>
             /\ Head(calls[w])[1] \in RequestOutcome =>
                   \E err \in result[w] : /\ Head(calls[w]) = <<requestOutcome(err), 1>>
                                          /\ Tail(calls[w]) = <<>>
  <2>1. Reporting(w)
    BY <1>1, <1>4, HeldFacts DEF CallShape
  <2>2. PICK err \in result[w], o \in RequestOutcome :
            /\ o = requestOutcome(err)
            /\ \/ Head(calls[w]) = doneRequest /\ Tail(calls[w]) = << <<o, 1>> >>
               \/ Head(calls[w]) = <<o, 1>> /\ Tail(calls[w]) = <<>>
    BY <1>1, <2>1, ReportsMoves
  <2> DEFINE t == << <<o, 1>> >>
  <2>3. t # <<>>
    OBVIOUS
  <2> HIDE DEF t
  <2>4. CASE Head(calls[w]) = doneRequest /\ Tail(calls[w]) = t
    <3>1. Head(calls[w])[1] = "inFlight"
      BY <2>4 DEF doneRequest
    <3> QED
      BY <2>3, <2>4, <3>1 DEF RequestOutcome
  <2>5. CASE Head(calls[w]) = <<o, 1>> /\ Tail(calls[w]) = <<>>
    <3>1. Head(calls[w])[1] = o
      BY <2>5
    <3> QED
      BY <2>2, <2>5, <3>1 DEF RequestOutcome
  <2> QED
    BY <2>2, <2>4, <2>5 DEF t
<1>5. CASE Measure(w)
  <2>1. Head(calls[w])[1] \in RequestOutcome
    BY <1>5 DEF Measure
  <2>2. result[w] # {}
    BY <1>1, <2>1, WaitsMoves, CountsMoves
       DEF CallShape, doneWorker, StartWorker, StartRequestCall, Counter, RequestOutcome
  <2>3. PICK err \in result[w] : /\ Head(calls[w]) = <<requestOutcome(err), 1>>
                                 /\ Tail(calls[w]) = <<>>
    BY <1>4, <2>1, <2>2
  <2> DEFINE o == requestOutcome(err)
  <2>4. o \in RequestOutcome /\ result[w] = {err}
    BY OutcomeType, HeldFacts
  <2> HIDE DEF o
  <2>5. Head(calls[w])[1] = o /\ Head(calls[w])[2] = 1
    BY <2>3 DEF o
  <2>6. latency' = [latency EXCEPT ![CoreOf[w]][Head(calls[w])[1]] = @ + Head(calls[w])[2]]
    BY <1>1, <1>5 DEF Measure
  <2>7. latency' = [latency EXCEPT ![CoreOf[w]][o] = @ + 1]
    BY <2>5, <2>6
  <2>8. calls'[w] = <<>>
    BY <1>5, <2>3 DEF Measure, Then, ResultInv, Goroutine
  <2>9. \A p \in RequestOutcome : Measured(w, p)' <=> p = o
    BY <1>1, <2>4, <2>8 DEF Measured, Idle, o
  <2>10. Seen' = Seen
    BY <1>2, <1>3, <2>4, <2>7, <2>9, SeenMeasured
  <2>11. latency' \in [Cores -> [RequestOutcome -> Int]]
    BY <1>1, <2>4, <2>7 DEF LatencyTypeOK
  <2> QED
    BY <2>10, <2>11 DEF LatencyTypeOK
<1>6. CASE ~Measure(w)
  <2>1. latency' = latency
    BY <1>6 DEF Observe, EvaluateLen, Store, Track, Count
  <2>2. \A o \in RequestOutcome : ~Measured(w, o)'
    <3>1. CASE result[w] = {}
      BY <1>1, <3>1 DEF Measured
    <3>2. CASE result[w] # {}
      <4>1. Head(calls[w])[1] = "inFlight"
        BY <1>4, <1>6, <3>2 DEF Observe, EvaluateLen, Store, Track, Count, RequestOutcome, Counter
      <4>2. Track(w)
        BY <1>6, <4>1 DEF Observe, EvaluateLen, Store, Count, Counter
      <4>3. calls'[w] = Tail(calls[w])
        BY <4>2 DEF Track, Then, ResultInv, Goroutine
      <4>4. calls'[w] # <<>>
        BY <1>4, <3>2, <4>1, <4>3
      <4> QED
        BY <4>4 DEF Measured, Idle
    <3> QED
      BY <3>1, <3>2
  <2>3. Seen' = Seen
    BY <1>2, <1>3, <2>1, <2>2, SeenStays
  <2> QED
    BY <2>1, <2>3 DEF LatencyTypeOK
<1> QED
  BY <1>5, <1>6

(* No worker moves. *)
LEMMA SeenKept ==
    ASSUME LatencyTypeOK, latency' = latency,
           \A v \in Workers : calls'[v] = calls[v] /\ result'[v] = result[v]
    PROVE  LatencyTypeOK' /\ Seen' = Seen
<1>1. ASSUME NEW c \in Cores, NEW o PROVE Unseen(c, o)' = Unseen(c, o)
  <2>1. {w \in WorkersOf(c) : Measured(w, o)'} = {w \in WorkersOf(c) : Measured(w, o)}
    BY DEF Measured, Idle, WorkersOf
  <2> QED
    BY <2>1 DEF Unseen, WorkersOf
<1>2. Seen' = Seen
  BY <1>1 DEF Seen
<1> QED
  BY <1>2 DEF LatencyTypeOK

LEMMA LatencyStep ==
    ASSUME GaugeInv, ResultInv, AccountInv, Filled, LatencyTypeOK, SeenExplained,
           [TelNext]_allVars
    PROVE  LatencyTypeOK' /\ SeenExplained'
<1>1. ASSUME UNCHANGED <<stats, settled>>, Seen' = Seen, forced => forced'
      PROVE  SeenExplained'
  BY <1>1 DEF SeenExplained
<1>2. CASE \E w \in Workers : Observe(w)
  <2>1. UNCHANGED vars
    BY <1>2, CallsStutter DEF Goroutine
  <2>2. LatencyTypeOK' /\ Seen' = Seen
    BY <1>2, LatencyCall
  <2> QED
    BY <1>1, <2>1, <2>2 DEF vars
<1>3. ASSUME NEW c \in Cores, Observe(c) \/ TelProduce(c)
      PROVE  LatencyTypeOK' /\ Seen' = Seen
  <2>1. latency' = latency /\ result' = result
    <3>1. CASE Observe(c)
      <4>1. Head(calls[c])[1] \in Counter \cup {"len", "queueDepth"}
        <5> DEFINE Call == (Counter \cup {"len", "queueDepth"}) \X Nat
        <5>1. calls[c] \in Seq(Call) /\ calls[c] # <<>>
          BY <3>1 DEF GaugeInv, CallsFit, GaugeTypeOK, Observe, EvaluateLen, Store, Track,
                      Count, Measure, Idle
        <5>2. Head(calls[c]) \in Call
          BY <5>1, HeadTailProperties
        <5> QED
          BY <5>2
      <4>2. ~Measure(c)
        BY <4>1 DEF Measure, Counter, RequestOutcome
      <4> QED
        BY <3>1, <4>2 DEF Observe, EvaluateLen, Store, Track, Count
    <3> QED
      BY <1>3, <3>1 DEF TelProduce
  <2>2. \A v \in Workers : calls'[v] = calls[v]
    BY <1>3, NameAssumption
       DEF Observe, EvaluateLen, Store, Track, Count, Measure, TelProduce, Then, ResultInv,
           Goroutine
  <2> QED
    BY <2>1, <2>2, SeenKept
<1>4. CASE \E c \in Cores : Observe(c)
  <2>1. UNCHANGED vars
    BY <1>4, CallsStutter DEF Goroutine
  <2> QED
    BY <1>1, <1>3, <1>4, <2>1 DEF vars
<1>5. CASE \E c \in Cores : TelProduce(c)
  BY <1>3, <1>5, ProducerSteps, LatencyProduce
<1>6. CASE \E w \in Workers : TelWork(w)
  BY <1>6, LatencyWork
<1>7. CASE TelCoordinate \/ UNCHANGED allVars
  <2>1. /\ UNCHANGED <<stats, settled, latency, calls, result>>
        /\ forced => forced'
    BY <1>7 DEF TelCoordinate, Shutdown, ShutdownTimeout, ProducersJoined, Finish, telVars,
                allVars
  <2> QED
    BY <1>1, <2>1, SeenKept
<1> QED
  BY <1>2, <1>4, <1>5, <1>6, <1>7 DEF TelNext, Goroutine

(* The histogram is what has been looked at and what has not. *)
LEMMA SeenTells ==
    ASSUME ResultInv, LatencyTypeOK, SeenExplained, TypeOK
    PROVE  LatencyExplained
<1> SUFFICES ASSUME NEW c \in Cores
             PROVE  LET l       == latency[c]
                        counted == stats[c].retryAttempts + stats[c].terminalFailures
                        failed  == Ahead(c, {"error", "canceled"})
                    IN  /\ l["success"] = stats[c].successfulRequests + Ahead(c, {"success"})
                        /\ counted + failed <= l["error"] + l["canceled"]
                        /\ l["error"] + l["canceled"]
                              <= counted + failed + Cardinality(settled[c]["canceled"])
                        /\ ~forced => /\ l["error"] = counted + Ahead(c, {"error"})
                                      /\ l["canceled"] = 0
  BY DEF LatencyExplained
<1> DEFINE M(o) == {w \in WorkersOf(c) : Measured(w, o)}
<1>1. ASSUME NEW o
      PROVE  IsFiniteSet(M(o)) /\ Cardinality(M(o)) \in Nat /\ Unseen(c, o) = Cardinality(M(o))
  <2>1. IsFiniteSet(WorkersOf(c))
    BY PoolAssumption, FS_Subset DEF WorkersOf
  <2>2. IsFiniteSet(M(o))
    BY <2>1, FS_Subset
  <2> QED
    BY <2>2, FS_CardinalityType DEF Unseen
<1>2. ASSUME NEW o PROVE Ahead(c, {o}) = Unseen(c, o)
  <2>1. M(o) = {w \in WorkersOf(c) : Idle(w) /\ \E err \in result[w] : requestOutcome(err) \in {o}}
    BY DEF Measured
  <2> QED
    BY <1>1, <2>1 DEF Ahead
<1>3. M("error") \cap M("canceled") = {}
  <2>1. ASSUME NEW w \in WorkersOf(c), Measured(w, "error"), Measured(w, "canceled") PROVE FALSE
    <3>1. PICK err \in result[w] : requestOutcome(err) = "error"
      BY <2>1 DEF Measured
    <3>2. PICK err2 \in result[w] : requestOutcome(err2) = "canceled"
      BY <2>1 DEF Measured
    <3>3. result[w] = {err}
      BY HeldFacts DEF WorkersOf
    <3> QED
      BY <3>1, <3>2, <3>3
  <2> QED
    BY <2>1
<1>4. Ahead(c, {"error", "canceled"}) = Unseen(c, "error") + Unseen(c, "canceled")
  <2>1. M("error") \cup M("canceled")
          = {w \in WorkersOf(c) :
                Idle(w) /\ \E err \in result[w] : requestOutcome(err) \in {"error", "canceled"}}
    BY DEF Measured
  <2>2. Cardinality(M("error") \cup M("canceled"))
          = Cardinality(M("error")) + Cardinality(M("canceled"))
    <3> DEFINE E == M("error")
               C == M("canceled")
    <3>1. /\ IsFiniteSet(E) /\ IsFiniteSet(C) /\ E \cap C = {}
          /\ Cardinality(E) \in Nat /\ Cardinality(C) \in Nat
      BY <1>1, <1>3
    <3> HIDE DEF E, C
    <3>2. Cardinality(E \cup C) = Cardinality(E) + Cardinality(C) - Cardinality(E \cap C)
      BY <3>1, FS_Union
    <3>3. Cardinality(E \cap C) = 0
      BY <3>1, FS_EmptySet
    <3>4. Cardinality(E \cup C) = Cardinality(E) + Cardinality(C)
      BY <3>1, <3>2, <3>3
    <3> QED
      BY <3>4 DEF E, C
  <2> QED
    BY <1>1, <2>1, <2>2 DEF Ahead
<1>5. ~forced => Unseen(c, "canceled") = 0
  <2>1. ASSUME ~forced PROVE M("canceled") = {}
    BY <2>1, NotYetCanceled DEF Measured, requestOutcome, WorkersOf
  <2> QED
    BY <1>1, <2>1, FS_EmptySet
<1>6. ASSUME NEW o \in RequestOutcome
      PROVE  /\ Seen[c][o] \in Nat /\ Unseen(c, o) \in Nat
             /\ latency[c][o] = Seen[c][o] + Unseen(c, o)
  <2>1. latency[c][o] \in Int /\ Seen[c][o] \in Nat
    BY DEF LatencyTypeOK
  <2>2. Seen[c][o] = latency[c][o] - Unseen(c, o)
    BY DEF Seen
  <2>3. Unseen(c, o) \in Nat
    BY UnseenType
  <2> QED
    BY <2>1, <2>2, <2>3
<1> HIDE DEF M
<1>7. {"success", "error", "canceled"} \subseteq RequestOutcome
  BY DEF RequestOutcome
<1>8. /\ Seen[c]["success"] = stats[c].successfulRequests
      /\ stats[c].retryAttempts + stats[c].terminalFailures <= Seen[c]["error"] + Seen[c]["canceled"]
      /\ Seen[c]["error"] + Seen[c]["canceled"]
            <= stats[c].retryAttempts + stats[c].terminalFailures
                  + Cardinality(settled[c]["canceled"])
      /\ ~forced => /\ Seen[c]["error"] = stats[c].retryAttempts + stats[c].terminalFailures
                    /\ Seen[c]["canceled"] = 0
  BY DEF SeenExplained
<1>9. /\ stats[c].retryAttempts \in Nat /\ stats[c].terminalFailures \in Nat
      /\ stats[c].successfulRequests \in Nat /\ Cardinality(settled[c]["canceled"]) \in Nat
  BY DocSetFacts DEF TypeOK, CoreSnapshot, Outcome
<1>10. /\ Ahead(c, {"success"}) = Unseen(c, "success")
       /\ Ahead(c, {"error"}) = Unseen(c, "error")
  BY <1>2
<1>11. /\ latency[c]["success"] = Seen[c]["success"] + Unseen(c, "success")
       /\ latency[c]["error"] = Seen[c]["error"] + Unseen(c, "error")
       /\ latency[c]["canceled"] = Seen[c]["canceled"] + Unseen(c, "canceled")
       /\ Seen[c]["error"] \in Nat /\ Seen[c]["canceled"] \in Nat
       /\ Unseen(c, "success") \in Nat /\ Unseen(c, "error") \in Nat
       /\ Unseen(c, "canceled") \in Nat
  BY <1>6, <1>7
<1> QED
  BY <1>4, <1>5, <1>8, <1>9, <1>10, <1>11

(* The latency histogram is explained by the counters and by the results not  *)
(* yet looked at, for any number of cores, workers and attempts: a success is *)
(* a batch sent, an error a retry or a terminal failure, and only the forced  *)
(* shutdown leaves a request without either (worker.go:147-210, 248-256).     *)
THEOREM LatencyIsExplained == TelSpec => []LatencyExplained
<1>1. TelInit => LatencyTypeOK /\ SeenExplained
  <2> SUFFICES ASSUME TelInit PROVE LatencyTypeOK /\ SeenExplained
    OBVIOUS
  <2>1. \A c \in Cores : /\ stats[c].successfulRequests = 0 /\ stats[c].retryAttempts = 0
                         /\ stats[c].terminalFailures = 0
                         /\ settled[c]["canceled"] = {}
    BY DEF TelInit, Init, Outcome
  <2>2. Cardinality({}) = 0
    BY FS_EmptySet
  <2>3. ASSUME NEW c \in Cores, NEW o \in RequestOutcome
        PROVE  latency[c][o] = 0 /\ Unseen(c, o) = 0 /\ Seen[c][o] = 0
    <3>1. {w \in WorkersOf(c) : Measured(w, o)} = {}
      BY DEF TelInit, Measured, WorkersOf
    <3>2. latency[c][o] = 0 /\ Unseen(c, o) = 0
      BY <2>2, <3>1 DEF TelInit, RequestOutcome, Unseen
    <3> QED
      BY <3>2 DEF Seen
  <2>4. Seen \in [Cores -> [RequestOutcome -> Nat]]
    <3>1. Seen = [c \in Cores |-> [o \in RequestOutcome |-> Seen[c][o]]]
      BY DEF Seen
    <3> QED
      BY <2>3, <3>1
  <2>5. LatencyTypeOK
    BY <2>4 DEF TelInit, LatencyTypeOK, RequestOutcome
  <2>6. ASSUME NEW c \in Cores
        PROVE  /\ Seen[c]["success"] = 0 /\ Seen[c]["error"] = 0
               /\ Seen[c]["canceled"] = 0
               /\ Cardinality(settled[c]["canceled"]) = 0
               /\ stats[c].retryAttempts + stats[c].terminalFailures = 0
    <3>1. stats[c].retryAttempts + stats[c].terminalFailures = 0
      BY <2>1
    <3>2. settled[c]["canceled"] = {}
      BY <2>1
    <3>3. Cardinality(settled[c]["canceled"]) = 0
      BY <2>2, <3>2
    <3>4. Seen[c]["success"] = 0 /\ Seen[c]["error"] = 0 /\ Seen[c]["canceled"] = 0
      BY <2>3 DEF RequestOutcome
    <3> QED
      BY <3>1, <3>3, <3>4
  <2>7. SeenExplained
    BY <2>1, <2>6 DEF SeenExplained
  <2> QED
    BY <2>5, <2>7
<1>2. TelSpec => []AccountInv /\ []Filled
  <2>1. Spec => []AccountInv
    BY AccountInit, AccountNext, PTL DEF Spec
  <2> QED
    BY <2>1, TelemetryImplementsPipeline, FilledAlways, PTL DEF ImplementsPipeline, Spec
<1>3. GaugeInv /\ ResultInv /\ AccountInv /\ Filled /\ LatencyTypeOK /\ SeenExplained
        /\ [TelNext]_allVars => LatencyTypeOK' /\ SeenExplained'
  BY LatencyStep
<1>4. TelSpec => [](LatencyTypeOK /\ SeenExplained)
  BY <1>1, <1>2, <1>3, GaugesAlways, ResultsAlways, PTL DEF TelSpec
<1>5. ResultInv /\ LatencyTypeOK /\ SeenExplained /\ TypeOK => LatencyExplained
  BY SeenTells
<1> QED
  BY <1>4, <1>5, ResultsAlways, PTL

-----------------------------------------------------------------------------
(* The counters.  What a goroutine has still to count is in its calls, which  *)
(* are never more than two; a counter and the calls that are due to it make   *)
(* up the one of the statistics.                                              *)
CallName == Counter \cup Gauge \cup RequestOutcome \cup {"len"}

StatOf(m) ==
    CASE m = "generatedDocs" -> "generatedDocs"
      [] m = "sentDocs"      -> "successfulDocs"
      [] m = "batchesSent"   -> "successfulRequests"
      [] m = "sendFailures"  -> "terminalFailures"
      [] OTHER               -> "retryAttempts"

IsCall(call) == call \in CallName \X Int /\ (call[1] \in Counter => call[2] \in Nat)
Brief(s) == s \in Seq(CallName \X Int) /\ Len(s) <= 2 /\ \A i \in 1..Len(s) : IsCall(s[i])

Adds(call, m)   == IF call[1] = m THEN call[2] ELSE 0
Amount(s, i, m) == IF i <= Len(s) THEN Adds(s[i], m) ELSE 0
Due(s, m)       == Amount(s, 1, m) + Amount(s, 2, m)

GoroutinesOf(c)  == {c} \cup WorkersOf(c)
DuesOf(f, c, m)  == FoldFunctionOnSet(+, 0, [a \in Goroutine |-> Due(f[a], m)], GoroutinesOf(c))
Dues(c, m)       == DuesOf(calls, c, m)

Mirrored(c) == \A m \in Counter : metrics[c][m] + Dues(c, m) = stats[c][StatOf(m)]

MirrorInv ==
    /\ calls = [a \in Goroutine |-> calls[a]]
    /\ \A a \in Goroutine : Brief(calls[a])
    /\ metrics \in [Cores -> [Counter -> Nat]]
    /\ \A c \in Cores : Mirrored(c)

LEMMA AddsNat ==
    ASSUME NEW call, IsCall(call), NEW m \in Counter
    PROVE  Adds(call, m) \in Nat
BY DEF IsCall, Adds

LEMMA BriefIs ==
    ASSUME NEW s, Brief(s)
    PROVE  /\ Len(s) \in {0, 1, 2}
           /\ Len(s) >= 1 => IsCall(s[1])
           /\ Len(s) = 2 => IsCall(s[2])
<1>1. PICK n : n = Len(s)
  OBVIOUS
<1>2. s \in Seq(CallName \X Int) /\ n <= 2
  BY <1>1 DEF Brief
<1>3. n \in Nat
  BY <1>1, <1>2
<1>4. \A i \in 1..n : IsCall(s[i])
  BY <1>1 DEF Brief
<1>5. n >= 1 => IsCall(s[1])
  BY <1>3, <1>4
<1>6. n = 2 => IsCall(s[2])
  BY <1>4
<1> QED
  BY <1>1, <1>2, <1>3, <1>5, <1>6

LEMMA DueIs ==
    ASSUME NEW s, Brief(s), NEW m \in Counter
    PROVE  /\ Due(s, m) \in Nat
           /\ Len(s) = 0 => Due(s, m) = 0
           /\ Len(s) = 1 => Due(s, m) = Adds(s[1], m)
           /\ Len(s) = 2 => Due(s, m) = Adds(s[1], m) + Adds(s[2], m)
<1>1. CASE Len(s) = 0
  BY <1>1 DEF Due, Amount
<1>2. CASE Len(s) = 1
  <2>1. Adds(s[1], m) \in Nat
    BY <1>2, BriefIs, AddsNat
  <2> QED
    BY <1>2, <2>1 DEF Due, Amount
<1>3. CASE Len(s) = 2
  <2>1. Adds(s[1], m) \in Nat /\ Adds(s[2], m) \in Nat
    BY <1>3, BriefIs, AddsNat
  <2> QED
    BY <1>3, <2>1 DEF Due, Amount
<1> QED
  BY <1>1, <1>2, <1>3, BriefIs

LEMMA DueOne ==
    ASSUME NEW call, IsCall(call)
    PROVE  Brief(<<call>>) /\ \A m \in Counter : Due(<<call>>, m) = Adds(call, m)
<1>1. <<call>> \in Seq(CallName \X Int) /\ Len(<<call>>) = 1 /\ <<call>>[1] = call
  BY DEF IsCall
<1>2. \A i \in 1..1 : i = 1
  OBVIOUS
<1>3. Brief(<<call>>)
  BY <1>1, <1>2 DEF Brief
<1> QED
  BY <1>1, <1>3, DueIs

LEMMA DueTwo ==
    ASSUME NEW call, NEW next, IsCall(call), IsCall(next)
    PROVE  /\ Brief(<<call, next>>)
           /\ \A m \in Counter : Due(<<call, next>>, m) = Adds(call, m) + Adds(next, m)
<1>1. /\ <<call, next>> \in Seq(CallName \X Int) /\ Len(<<call, next>>) = 2
      /\ <<call, next>>[1] = call /\ <<call, next>>[2] = next
  BY DEF IsCall
<1>2. \A i \in 1..2 : i = 1 \/ i = 2
  OBVIOUS
<1>3. Brief(<<call, next>>)
  BY <1>1, <1>2 DEF Brief
<1> QED
  BY <1>1, <1>3, DueIs

LEMMA DueNone == Brief(<<>>) /\ \A m \in Counter : Due(<<>>, m) = 0
<1>1. Brief(<<>>)
  BY DEF Brief
<1> QED
  BY <1>1, DueIs

(* A list of calls is empty, or it is its first call and the rest. *)
LEMMA DueSplit ==
    ASSUME NEW s, Brief(s), s # <<>>
    PROVE  /\ IsCall(Head(s)) /\ Brief(Tail(s))
           /\ Tail(s) = <<>> \/ \E call : IsCall(call) /\ Tail(s) = <<call>>
           /\ \A m \in Counter : Due(s, m) = Adds(Head(s), m) + Due(Tail(s), m)
<1>1. s \in Seq(CallName \X Int) /\ Len(s) \in {0, 1, 2}
  BY BriefIs DEF Brief
<1>2. Len(s) \in {1, 2} /\ Head(s) = s[1]
  BY <1>1
<1>3. IsCall(Head(s))
  BY <1>2, BriefIs
<1>4. \A m \in Counter : Adds(Head(s), m) \in Nat
  BY <1>3, AddsNat
<1>5. /\ Tail(s) \in Seq(CallName \X Int) /\ Len(Tail(s)) = Len(s) - 1
      /\ \A i \in 1..Len(Tail(s)) : Tail(s)[i] = s[i + 1]
  BY <1>1, HeadTailProperties
<1>6. Len(Tail(s)) = Len(s) - 1
  BY <1>5
<1>7. CASE Len(s) = 1
  <2>1. Len(Tail(s)) = 0
    BY <1>6, <1>7
  <2>2. Tail(s) = <<>>
    BY <1>5, <2>1, EmptySeq
  <2>3. \A m \in Counter : Due(s, m) = Adds(Head(s), m)
    BY <1>2, <1>7, DueIs
  <2>4. \A m \in Counter : Due(Tail(s), m) = 0
    BY <2>2, DueNone
  <2>5. Brief(Tail(s))
    BY <2>2, DueNone
  <2> QED
    BY <1>3, <1>4, <2>2, <2>3, <2>4, <2>5
<1>8. CASE Len(s) = 2
  <2>1. PICK x : x = s[2]
    OBVIOUS
  <2>2. IsCall(x)
    BY <1>8, <2>1, BriefIs
  <2>3. Tail(s) = <<x>>
    <3>1. Len(Tail(s)) = 1
      BY <1>6, <1>8
    <3>2. Tail(s)[1] = x
      <4>1. 1 \in 1..Len(Tail(s)) /\ 1 + 1 = 2
        BY <3>1
      <4>2. \A i \in 1..Len(Tail(s)) : Tail(s)[i] = s[i + 1]
        BY <1>5
      <4>3. Tail(s)[1] = s[1 + 1]
        BY <4>1, <4>2, Zenon
      <4> QED
        BY <2>1, <4>1, <4>3, Zenon
    <3>3. <<x>> \in Seq(CallName \X Int) /\ Len(<<x>>) = 1 /\ <<x>>[1] = x
      BY <2>2 DEF IsCall
    <3>4. \A i \in 1..1 : i = 1
      OBVIOUS
    <3> QED
      BY <1>5, <3>1, <3>2, <3>3, <3>4, SeqEqual
  <2> QED
    BY <1>2, <1>3, <1>8, <2>1, <2>3, <2>2, DueOne, DueIs
<1> QED
  BY <1>2, <1>7, <1>8

LEMMA GoroutinesAre ==
    ASSUME NEW c \in Cores
    PROVE  /\ IsFiniteSet(GoroutinesOf(c)) /\ GoroutinesOf(c) \subseteq Goroutine
           /\ \A a \in Goroutine : a \in GoroutinesOf(c) <=> Core(a) = c
<1>1. WorkersOf(c) \subseteq Workers /\ IsFiniteSet(Workers)
  BY PoolAssumption DEF WorkersOf
<1>2. IsFiniteSet(WorkersOf(c))
  BY <1>1, FS_Subset
<1>3. IsFiniteSet({c})
  BY FS_Singleton
<1>4. IsFiniteSet(GoroutinesOf(c))
  BY <1>2, <1>3, FS_Union DEF GoroutinesOf
<1>5. \A a \in Goroutine : a \in GoroutinesOf(c) <=> Core(a) = c
  BY NameAssumption DEF Goroutine, GoroutinesOf, WorkersOf, Core
<1> QED
  BY <1>1, <1>4, <1>5 DEF GoroutinesOf, Goroutine

LEMMA DuesMove ==
    \A b \in Goroutine, c \in Cores, m \in Counter : \A f, s :
        f = [a \in Goroutine |-> f[a]] /\ (\A a \in Goroutine : Brief(f[a])) /\ Brief(s)
          => /\ DuesOf(f, c, m) \in Nat
             /\ DuesOf([f EXCEPT ![b] = s], c, m)
                  = IF Core(b) = c THEN DuesOf(f, c, m) - Due(f[b], m) + Due(s, m)
                    ELSE DuesOf(f, c, m)
<1> SUFFICES ASSUME NEW f, f = [a \in Goroutine |-> f[a]], \A a \in Goroutine : Brief(f[a]),
                    NEW b \in Goroutine, NEW s, Brief(s), NEW c \in Cores, NEW m \in Counter
             PROVE  /\ DuesOf(f, c, m) \in Nat
                    /\ DuesOf([f EXCEPT ![b] = s], c, m)
                         = IF Core(b) = c THEN DuesOf(f, c, m) - Due(f[b], m) + Due(s, m)
                           ELSE DuesOf(f, c, m)
  OBVIOUS
<1>1. PICK S, g, h : /\ S = GoroutinesOf(c)
                     /\ g = [a \in Goroutine |-> Due(f[a], m)]
                     /\ h = [a \in Goroutine |-> Due([f EXCEPT ![b] = s][a], m)]
  OBVIOUS
<1>2. IsFiniteSet(S) /\ S \subseteq Goroutine /\ (b \in S <=> Core(b) = c)
  BY <1>1, GoroutinesAre
<1>3. \A a \in Goroutine : g[a] \in Nat
  BY <1>1, DueIs
<1>4. \A a \in Goroutine : [f EXCEPT ![b] = s][a] = IF a = b THEN s ELSE f[a]
  OBVIOUS
<1>5. \A a \in Goroutine : h[a] = IF a = b THEN Due(s, m) ELSE g[a]
  BY <1>1, <1>4
<1>6. Due(s, m) \in Nat
  BY DueIs
<1>7. \A a \in S : g[a] \in Nat /\ h[a] \in Nat
  BY <1>2, <1>3, <1>5, <1>6
<1>8. \A a \in S : a # b => h[a] = g[a]
  BY <1>2, <1>5
<1>9. IsFiniteSet(S)
  BY <1>2
<1>10. FoldFunctionOnSet(+, 0, g, S) \in Nat
  BY <1>2, <1>7, SumIsNat
<1>11. FoldFunctionOnSet(+, 0, h, S)
        = IF b \in S THEN FoldFunctionOnSet(+, 0, g, S) - g[b] + h[b]
          ELSE FoldFunctionOnSet(+, 0, g, S)
  BY <1>9, <1>7, <1>8, SumMoves
<1>12. g[b] = Due(f[b], m) /\ h[b] = Due(s, m)
  BY <1>1, <1>5
<1>13. DuesOf(f, c, m) = FoldFunctionOnSet(+, 0, g, S)
       /\ DuesOf([f EXCEPT ![b] = s], c, m) = FoldFunctionOnSet(+, 0, h, S)
  BY <1>1, Zenon DEF DuesOf
<1> QED
  BY <1>2, <1>10, <1>11, <1>12, <1>13

LEMMA DuesNone ==
    ASSUME NEW c \in Cores, NEW m \in Counter, \A a \in GoroutinesOf(c) : Idle(a)
    PROVE  Dues(c, m) = 0
<1>1. PICK S, g : S = GoroutinesOf(c) /\ g = [a \in Goroutine |-> Due(calls[a], m)]
  OBVIOUS
<1>2. IsFiniteSet(S) /\ S \subseteq Goroutine
  BY <1>1, GoroutinesAre
<1>3. \A a \in S : g[a] = 0
  BY <1>1, <1>2, DueNone DEF Idle
<1>4. FoldFunctionOnSet(+, 0, g, S) = 0
  BY <1>2, <1>3, SumOfNone
<1> QED
  BY <1>1, <1>4, Zenon DEF Dues, DuesOf

LEMMA StatsNat ==
    /\ TypeOK => \A c \in Cores, m \in Counter : stats[c][StatOf(m)] \in Nat
    /\ TypeOK' => \A c \in Cores, m \in Counter : stats'[c][StatOf(m)] \in Nat
<1>1. ASSUME NEW s \in CoreSnapshot, NEW m \in Counter PROVE s[StatOf(m)] \in Nat
  BY DEF CoreSnapshot, StatOf, Counter
<1> QED
  BY <1>1 DEF TypeOK

LEMMA DuesAre ==
    \A c, m : Dues(c, m) = DuesOf(calls, c, m) /\ Dues(c, m)' = DuesOf(calls', c, m)
BY DEF Dues

(* One goroutine gets other calls to make, and the counters of its core and   *)
(* the calls that are due follow the statistics.                              *)
LEMMA CallMirrors ==
    ASSUME TypeOK, TypeOK', MirrorInv, NEW a \in Goroutine, NEW c \in Cores, c = Core(a),
           NEW s, Brief(s), Then(a, s),
           metrics' \in [Cores -> [Counter -> Nat]],
           \A d \in Cores \ {c} : metrics'[d] = metrics[d] /\ stats'[d] = stats[d],
           \A m \in Counter : (metrics'[c][m] + Due(s, m)) - (metrics[c][m] + Due(calls[a], m))
                                = stats'[c][StatOf(m)] - stats[c][StatOf(m)]
    PROVE  MirrorInv'
<1>1. calls' = [calls EXCEPT ![a] = s] /\ calls = [b \in Goroutine |-> calls[b]]
  BY DEF Then, MirrorInv
<1>2. calls' = [b \in Goroutine |-> calls'[b]] /\ \A b \in Goroutine : Brief(calls'[b])
  BY <1>1 DEF MirrorInv
<1>3. ASSUME NEW d \in Cores, NEW m \in Counter
      PROVE  metrics'[d][m] + DuesOf(calls', d, m) = stats'[d][StatOf(m)]
  <2>1. PICK x, y : x = DuesOf(calls, d, m) /\ y = DuesOf(calls', d, m)
    OBVIOUS
  <2>2. PICK p, q : p = Due(calls[a], m) /\ q = Due(s, m)
    OBVIOUS
  <2>3. p \in Nat /\ q \in Nat
    BY <2>2, DueIs DEF MirrorInv
  <2>4. \A b \in Goroutine : Brief(calls[b])
    BY DEF MirrorInv
  <2>5. x \in Nat /\ y = IF Core(a) = d THEN x - p + q ELSE x
    <3>1. calls = [b \in Goroutine |-> calls[b]]
      BY <1>1
    <3>2. /\ DuesOf(calls, d, m) \in Nat
          /\ DuesOf([calls EXCEPT ![a] = s], d, m)
               = IF Core(a) = d THEN DuesOf(calls, d, m) - Due(calls[a], m) + Due(s, m)
                 ELSE DuesOf(calls, d, m)
      BY <2>4, <3>1, DuesMove
    <3> QED
      BY <1>1, <2>1, <2>2, <3>2
  <2>6. PICK u, v, k, l : /\ u = metrics[d][m] /\ v = metrics'[d][m]
                          /\ k = stats[d][StatOf(m)] /\ l = stats'[d][StatOf(m)]
    OBVIOUS
  <2>7. u \in Nat /\ v \in Nat /\ k \in Nat /\ l \in Nat
    BY <2>6, StatsNat DEF MirrorInv
  <2>8. u + x = k
    BY <2>1, <2>6, DuesAre DEF MirrorInv, Mirrored
  <2>9. CASE d = c
    <3>1. (v + q) - (u + p) = l - k
      BY <2>2, <2>6, <2>9
    <3> QED
      BY <2>1, <2>3, <2>5, <2>6, <2>7, <2>8, <2>9, <3>1
  <2>10. CASE d # c
    <3>1. v = u /\ l = k /\ y = x
      BY <2>5, <2>6, <2>10
    <3> QED
      BY <2>1, <2>6, <2>8, <3>1
  <2> QED
    BY <2>9, <2>10
<1>4. \A d \in Cores : Mirrored(d)'
  BY <1>3, DuesAre DEF Mirrored
<1> QED
  BY <1>2, <1>4 DEF MirrorInv

LEMMA NoCallMirrors ==
    ASSUME MirrorInv, UNCHANGED <<metrics, calls>>,
           \A d \in Cores, m \in Counter : stats'[d][StatOf(m)] = stats[d][StatOf(m)]
    PROVE  MirrorInv'
<1>1. \A d, m : Dues(d, m)' = Dues(d, m)
  BY DuesAre
<1>2. \A d \in Cores : Mirrored(d)'
  BY <1>1 DEF Mirrored, MirrorInv
<1> QED
  BY <1>2 DEF MirrorInv

(* A step of the pipeline, with the calls that follow it.                     *)
LEMMA IdleMirrors ==
    ASSUME TypeOK, TypeOK', MirrorInv, NEW a \in Goroutine, NEW c \in Cores, c = Core(a),
           Idle(a), NEW s, Brief(s), Then(a, s), UNCHANGED metrics,
           \A d \in Cores \ {c} : stats'[d] = stats[d],
           \A m \in Counter : stats'[c][StatOf(m)] = stats[c][StatOf(m)] + Due(s, m)
    PROVE  MirrorInv'
<1>1. metrics \in [Cores -> [Counter -> Nat]]
  BY DEF MirrorInv
<1>2. ASSUME NEW m \in Counter
      PROVE  (metrics'[c][m] + Due(s, m)) - (metrics[c][m] + Due(calls[a], m))
                = stats'[c][StatOf(m)] - stats[c][StatOf(m)]
  <2>1. PICK u, q, p, k : /\ u = metrics[c][m] /\ q = Due(s, m) /\ p = Due(calls[a], m)
                          /\ k = stats[c][StatOf(m)]
    OBVIOUS
  <2>2. u \in Nat /\ q \in Nat /\ k \in Nat
    BY <1>1, <2>1, DueIs, StatsNat
  <2>3. p = 0
    BY <2>1, DueNone DEF Idle
  <2>4. stats'[c][StatOf(m)] = k + q
    BY <2>1
  <2>5. (u + q) - (u + p) = (k + q) - k
    BY <2>2, <2>3
  <2> QED
    BY <2>1, <2>4, <2>5
<1>3. \A d \in Cores \ {c} : metrics'[d] = metrics[d] /\ stats'[d] = stats[d]
  OBVIOUS
<1> QED
  BY <1>1, <1>2, <1>3, CallMirrors

LEMMA ObserveMirrors ==
    ASSUME TypeOK, TypeOK', MirrorInv, NEW a \in Goroutine, Observe(a)
    PROVE  MirrorInv'
<1>1. PICK c, s, h, t : c = Core(a) /\ s = calls[a] /\ h = Head(s) /\ t = Tail(s)
  OBVIOUS
<1>2. stats' = stats
  BY CallsStutter DEF vars
<1>3. c \in Cores
  BY <1>1, PoolAssumption DEF Goroutine, Core
<1>4. s # <<>> /\ Brief(s)
  BY <1>1 DEF Observe, EvaluateLen, Store, Track, Count, Measure, Idle, MirrorInv
<1>5. /\ IsCall(h) /\ Brief(t)
      /\ t = <<>> \/ \E call : IsCall(call) /\ t = <<call>>
      /\ \A m \in Counter : Due(s, m) = Adds(h, m) + Due(t, m)
  BY <1>1, <1>4, DueSplit
<1>6. metrics \in [Cores -> [Counter -> Nat]]
  BY DEF MirrorInv
<1>7. \A m \in Counter : Due(s, m) \in Nat /\ Due(t, m) \in Nat /\ metrics[c][m] \in Nat
                         /\ stats[c][StatOf(m)] \in Nat
  BY <1>3, <1>4, <1>5, <1>6, DueIs, StatsNat
<1>8. CASE EvaluateLen(a)
  <2>1. PICK x : x = <<"queueDepth", Len(queue[c])>>
    OBVIOUS
  <2>2. IsCall(x) /\ x[1] = "queueDepth"
    <3>1. Len(queue[c]) \in Int
      BY <1>3 DEF TypeOK
    <3> QED
      BY <2>1, <3>1 DEF IsCall, CallName, Gauge, Counter
  <2>3. h[1] = "len" /\ Then(a, <<x>> \o t) /\ metrics' = metrics
    BY <1>1, <1>8, <2>1 DEF EvaluateLen
  <2>4. \A m \in Counter : Adds(h, m) = 0 /\ Adds(x, m) = 0
    BY <2>2, <2>3 DEF Adds, Counter
  <2>5. Brief(<<x>> \o t) /\ \A m \in Counter : Due(<<x>> \o t, m) = Due(t, m)
    <3>1. CASE t = <<>>
      <4>1. <<x>> \o t = <<x>>
        BY <3>1
      <4>2. Brief(<<x>>) /\ \A m \in Counter : Due(<<x>>, m) = Adds(x, m)
        BY <2>2, DueOne
      <4>3. \A m \in Counter : Due(t, m) = 0
        BY <3>1, DueNone
      <4> QED
        BY <2>4, <4>1, <4>2, <4>3
    <3>2. ASSUME NEW call, IsCall(call), t = <<call>>
          PROVE  Brief(<<x>> \o t) /\ \A m \in Counter : Due(<<x>> \o t, m) = Due(t, m)
      <4>1. <<x>> \o t = <<x, call>>
        <5>1. /\ <<x>> \in Seq(CallName \X Int) /\ Len(<<x>>) = 1 /\ <<x>>[1] = x
              /\ t \in Seq(CallName \X Int) /\ Len(t) = 1 /\ t[1] = call
          BY <2>2, <3>2 DEF IsCall
        <5>2. /\ <<x, call>> \in Seq(CallName \X Int) /\ Len(<<x, call>>) = 2
              /\ <<x, call>>[1] = x /\ <<x, call>>[2] = call
          BY <2>2, <3>2 DEF IsCall
        <5>3. /\ <<x>> \o t \in Seq(CallName \X Int) /\ Len(<<x>> \o t) = 2
              /\ (<<x>> \o t)[1] = x /\ (<<x>> \o t)[2] = call
          <6>1. PICK r : r = <<x>>
            OBVIOUS
          <6>2. /\ r \in Seq(CallName \X Int) /\ Len(r) = 1 /\ r[1] = x
            BY <5>1, <6>1
          <6>3. /\ r \o t \in Seq(CallName \X Int) /\ Len(r \o t) = Len(r) + Len(t)
                /\ \A i \in 1..Len(r) + Len(t) :
                      (r \o t)[i] = IF i <= Len(r) THEN r[i] ELSE t[i - Len(r)]
            BY <5>1, <6>2, ConcatProperties
          <6>4. PICK z, k, l : z = r \o t /\ k = Len(r) /\ l = Len(t)
            OBVIOUS
          <6>5. k = 1 /\ l = 1
            BY <5>1, <6>2, <6>4
          <6>6. \A i \in 1..2 : z[i] = IF i <= 1 THEN r[i] ELSE t[i - 1]
            BY <6>3, <6>4, <6>5
          <6>7. ASSUME NEW i \in 1..2, i = 1 PROVE z[i] = r[i]
            BY <6>6, <6>7
          <6>8. ASSUME NEW i \in 1..2, i = 2 PROVE z[i] = t[i - 1]
            BY <6>6, <6>8
          <6>9. z[1] = r[1] /\ z[2] = t[1]
            BY <6>7, <6>8
          <6> QED
            BY <5>1, <6>1, <6>2, <6>3, <6>4, <6>5, <6>9
        <5>4. \A i \in 1..2 : i = 1 \/ i = 2
          OBVIOUS
        <5> QED
          BY <5>2, <5>3, <5>4, SeqEqual
      <4>2. /\ Brief(<<x, call>>)
            /\ \A m \in Counter : Due(<<x, call>>, m) = Adds(x, m) + Adds(call, m)
        BY <2>2, <3>2, DueTwo
      <4>3. \A m \in Counter : Due(t, m) = Adds(call, m) /\ Adds(call, m) \in Nat
        BY <3>2, DueOne, AddsNat
      <4>4. ASSUME NEW m \in Counter PROVE Due(<<x, call>>, m) = Due(t, m)
        <5>1. Due(<<x, call>>, m) = 0 + Adds(call, m)
          BY <2>4, <4>2
        <5> QED
          BY <4>3, <5>1
      <4> QED
        BY <4>1, <4>2, <4>4
    <3> QED
      BY <1>5, <3>1, <3>2
  <2>6. \A m \in Counter : (metrics'[c][m] + Due(<<x>> \o t, m)) - (metrics[c][m] + Due(calls[a], m))
                             = stats'[c][StatOf(m)] - stats[c][StatOf(m)]
    BY <1>1, <1>2, <1>5, <1>7, <2>3, <2>4, <2>5
  <2> QED
    BY <1>1, <1>2, <1>3, <1>6, <2>3, <2>5, <2>6, CallMirrors
<1>9. CASE Store(a) \/ Track(a) \/ Measure(a)
  <2>1. h[1] \notin Counter /\ Then(a, t) /\ metrics' = metrics
    BY <1>1, <1>9 DEF Store, Track, Measure, Counter, RequestOutcome
  <2>2. \A m \in Counter : Adds(h, m) = 0
    BY <2>1 DEF Adds
  <2>3. \A m \in Counter : (metrics'[c][m] + Due(t, m)) - (metrics[c][m] + Due(calls[a], m))
                             = stats'[c][StatOf(m)] - stats[c][StatOf(m)]
    BY <1>1, <1>2, <1>5, <1>7, <2>1, <2>2
  <2> QED
    BY <1>1, <1>2, <1>3, <1>5, <1>6, <2>1, <2>3, CallMirrors
<1>10. CASE Count(a)
  <2>1. PICK k, n : k = h[1] /\ n = h[2]
    OBVIOUS
  <2>2. /\ k \in Counter /\ Then(a, t)
        /\ metrics' = [metrics EXCEPT ![c][k] = @ + n]
    BY <1>1, <1>10, <2>1 DEF Count
  <2>3. n \in Nat
    BY <1>5, <2>1, <2>2 DEF IsCall
  <2>4. \A m \in Counter : Adds(h, m) = IF m = k THEN n ELSE 0
    BY <2>1 DEF Adds
  <2>5. /\ metrics' \in [Cores -> [Counter -> Nat]]
        /\ \A d \in Cores \ {c} : metrics'[d] = metrics[d]
        /\ \A m \in Counter : metrics'[c][m] = metrics[c][m] + (IF m = k THEN n ELSE 0)
    BY <1>3, <1>6, <2>2, <2>3
  <2>6. ASSUME NEW m \in Counter
        PROVE  (metrics'[c][m] + Due(t, m)) - (metrics[c][m] + Due(calls[a], m))
                  = stats'[c][StatOf(m)] - stats[c][StatOf(m)]
    <3>1. PICK u, v, p, q, i : /\ u = metrics[c][m] /\ v = metrics'[c][m]
                               /\ p = Due(s, m) /\ q = Due(t, m) /\ i = IF m = k THEN n ELSE 0
      OBVIOUS
    <3>2. u \in Nat /\ q \in Nat /\ i \in Nat /\ v = u + i /\ p = i + q
      BY <1>5, <1>7, <2>3, <2>4, <2>5, <3>1
    <3>3. (v + q) - (u + p) = 0
      BY <3>2
    <3>4. stats'[c][StatOf(m)] - stats[c][StatOf(m)] = 0
      BY <1>2, <1>7
    <3> QED
      BY <1>1, <3>1, <3>3, <3>4
  <2> QED
    BY <1>1, <1>2, <1>3, <1>5, <2>2, <2>5, <2>6, CallMirrors
<1> QED
  BY <1>8, <1>9, <1>10 DEF Observe

(* What follows the steps. *)
LEMMA CallForms ==
    /\ IsCall(AddGeneratedDocs) /\ IsCall(AddRetry) /\ IsCall(RecordBatchFailure)
    /\ IsCall(SetQueueDepth) /\ IsCall(StartRequestCall) /\ IsCall(doneWorker)
    /\ IsCall(StartWorker)
    /\ \A n \in Nat : IsCall(<<"sentDocs", n>>) /\ IsCall(<<"batchesSent", 1>>)
    /\ \A m \in Counter :
          /\ Adds(AddGeneratedDocs, m) = IF m = "generatedDocs" THEN 1 ELSE 0
          /\ Adds(AddRetry, m) = IF m = "retries" THEN 1 ELSE 0
          /\ Adds(RecordBatchFailure, m) = IF m = "sendFailures" THEN 1 ELSE 0
          /\ Adds(SetQueueDepth, m) = 0 /\ Adds(StartRequestCall, m) = 0
          /\ Adds(doneWorker, m) = 0 /\ Adds(StartWorker, m) = 0
<1>1. /\ IsCall(AddGeneratedDocs) /\ IsCall(AddRetry) /\ IsCall(RecordBatchFailure)
  BY DEF IsCall, CallName, Counter, AddGeneratedDocs, AddRetry, RecordBatchFailure
<1>2. IsCall(SetQueueDepth) /\ IsCall(StartRequestCall) /\ IsCall(doneWorker) /\ IsCall(StartWorker)
  BY DEF IsCall, CallName, Counter, Gauge, SetQueueDepth, StartRequestCall, doneWorker,
         StartWorker
<1>3. \A n \in Nat : IsCall(<<"sentDocs", n>>) /\ IsCall(<<"batchesSent", 1>>)
  BY DEF IsCall, CallName, Counter
<1>4. \A m \in Counter :
          /\ Adds(AddGeneratedDocs, m) = IF m = "generatedDocs" THEN 1 ELSE 0
          /\ Adds(AddRetry, m) = IF m = "retries" THEN 1 ELSE 0
          /\ Adds(RecordBatchFailure, m) = IF m = "sendFailures" THEN 1 ELSE 0
          /\ Adds(SetQueueDepth, m) = 0 /\ Adds(StartRequestCall, m) = 0
          /\ Adds(doneWorker, m) = 0 /\ Adds(StartWorker, m) = 0
  BY DEF Adds, Counter, AddGeneratedDocs, AddRetry, RecordBatchFailure, SetQueueDepth,
         StartRequestCall, doneWorker, StartWorker
<1> QED
  BY <1>1, <1>2, <1>3, <1>4

LEMMA NothingDue ==
    ASSUME NEW s, s \in { <<>>, <<SetQueueDepth>>, <<SetQueueDepth, StartRequestCall>>,
                          <<StartRequestCall>>, <<doneWorker>>, <<StartWorker>> }
    PROVE  Brief(s) /\ \A m \in Counter : Due(s, m) = 0
<1>1. CASE s = <<>>
  BY <1>1, DueNone
<1>2. ASSUME NEW call, call \in {SetQueueDepth, StartRequestCall, doneWorker, StartWorker},
             s = <<call>>
      PROVE  Brief(s) /\ \A m \in Counter : Due(s, m) = 0
  <2>1. IsCall(call) /\ \A m \in Counter : Adds(call, m) = 0
    BY <1>2, CallForms
  <2> QED
    BY <1>2, <2>1, DueOne
<1>3. CASE s = <<SetQueueDepth, StartRequestCall>>
  <2>1. IsCall(SetQueueDepth) /\ IsCall(StartRequestCall)
    BY CallForms
  <2>2. Brief(s) /\ \A m \in Counter : Due(s, m) = Adds(SetQueueDepth, m) + Adds(StartRequestCall, m)
    BY <1>3, <2>1, DueTwo
  <2>3. \A m \in Counter : Adds(SetQueueDepth, m) = 0 /\ Adds(StartRequestCall, m) = 0
    BY CallForms
  <2> QED
    BY <2>2, <2>3
<1> QED
  BY <1>1, <1>2, <1>3

LEMMA StatIs ==
    /\ StatOf("generatedDocs") = "generatedDocs" /\ StatOf("sentDocs") = "successfulDocs"
    /\ StatOf("batchesSent") = "successfulRequests"
    /\ StatOf("sendFailures") = "terminalFailures" /\ StatOf("retries") = "retryAttempts"
BY DEF StatOf

LEMMA ProduceMirrors ==
    ASSUME TypeOK, TypeOK', MirrorInv, NEW c \in Cores, TelProduce(c)
    PROVE  MirrorInv'
<1>1. /\ c \in Goroutine /\ Core(c) = c /\ Idle(c) /\ UNCHANGED metrics
      /\ stats \in [Cores -> CoreSnapshot]
  BY DEF Goroutine, Core, TelProduce, TypeOK
<1>2. CASE Generate(c) /\ Then(c, <<AddGeneratedDocs>>)
  <2>1. stats' = [stats EXCEPT ![c].generatedDocs = stats[c].generatedDocs + 1]
    BY <1>2 DEF Generate
  <2>2. \A d \in Cores \ {c} : stats'[d] = stats[d]
    BY <1>1, <2>1
  <2>3. stats'[c] = [stats[c] EXCEPT !.generatedDocs = stats[c].generatedDocs + 1]
    BY <1>1, <2>1 DEF CoreSnapshot
  <2>4. /\ Brief(<<AddGeneratedDocs>>)
        /\ \A m \in Counter :
              Due(<<AddGeneratedDocs>>, m) = IF m = "generatedDocs" THEN 1 ELSE 0
    BY CallForms, DueOne
  <2>5. ASSUME NEW m \in Counter
        PROVE  stats'[c][StatOf(m)] = stats[c][StatOf(m)] + Due(<<AddGeneratedDocs>>, m)
    <3>1. stats'[c][StatOf(m)] = stats[c][StatOf(m)] + IF m = "generatedDocs" THEN 1 ELSE 0
      BY <1>1, <2>3, StatIs DEF CoreSnapshot, Counter
    <3> QED
      BY <2>4, <3>1
  <2> QED
    BY <1>1, <1>2, <2>2, <2>4, <2>5, IdleMirrors
<1>3. CASE (SendBatch(c) \/ FlushPartial(c)) /\ Then(c, <<SetQueueDepth>>)
  <2>1. stats' = stats
    BY <1>3 DEF SendBatch, FlushPartial
  <2>2. Brief(<<SetQueueDepth>>) /\ \A m \in Counter : Due(<<SetQueueDepth>>, m) = 0
    BY NothingDue
  <2>3. \A m \in Counter : stats'[c][StatOf(m)] = stats[c][StatOf(m)] + Due(<<SetQueueDepth>>, m)
    BY <2>1, <2>2, StatsNat
  <2> QED
    BY <1>1, <1>3, <2>1, <2>2, <2>3, IdleMirrors
<1>4. CASE /\ KeepGoing(c) \/ SendInterrupted(c) \/ StopEmpty(c) \/ DropPartial(c)
           /\ UNCHANGED calls
  <2>1. \/ stats' = stats
        \/ stats' = [stats EXCEPT ![c].droppedBatches = @ + 1]
    BY <1>4 DEF KeepGoing, SendInterrupted, StopEmpty, DropPartial
  <2>2. \A d \in Cores, m \in Counter : stats'[d][StatOf(m)] = stats[d][StatOf(m)]
    BY <1>1, <2>1, StatIs DEF CoreSnapshot, Counter
  <2> QED
    BY <1>1, <1>4, <2>2, NoCallMirrors
<1> QED
  BY <1>2, <1>3, <1>4 DEF TelProduce

(* A request returns, which no counter counts. *)
LEMMA ReturnMirrors ==
    ASSUME TypeOK, TypeOK', MirrorInv, NEW w \in Workers, Idle(w), PostReturns(w)
    PROVE  MirrorInv'
<1>1. PICK err : Return(w, err)
  BY DEF PostReturns
<1> DEFINE o    == requestOutcome(err)
           call == <<o, 1>>
           cs   == <<doneRequest, call>>
<1>2. o \in RequestOutcome
  BY OutcomeType
<1>3. Then(w, cs)
  BY <1>1 DEF Return, AfterPostBatch, RecordRequestDuration
<1> HIDE DEF o
<1>4. call[1] = o /\ doneRequest[1] = "inFlight"
  BY DEF doneRequest
<1>5. IsCall(call) /\ IsCall(doneRequest)
  BY <1>2 DEF IsCall, CallName, Counter, Gauge, RequestOutcome, doneRequest
<1>6. \A m \in Counter : Adds(call, m) = 0 /\ Adds(doneRequest, m) = 0
  BY <1>2, <1>4 DEF Adds, Counter, RequestOutcome
<1> HIDE DEF call
<1>7. Brief(cs) /\ \A m \in Counter : Due(cs, m) = Adds(doneRequest, m) + Adds(call, m)
  BY <1>5, DueTwo
<1>8. \A m \in Counter : Due(cs, m) = 0
  BY <1>6, <1>7
<1> HIDE DEF cs
<1>9. PICK c \in Cores : c = Core(w) /\ w \in Goroutine
  BY PoolAssumption, NameAssumption DEF Core, Goroutine
<1>10. stats' = stats /\ metrics' = metrics
  BY DEF PostReturns, vars
<1>11. \A m \in Counter : stats'[c][StatOf(m)] = stats[c][StatOf(m)] + Due(cs, m)
  BY <1>8, <1>10, StatsNat
<1>12. \A d \in Cores \ {c} : stats'[d] = stats[d]
  BY <1>10
<1> QED
  BY <1>3, <1>7, <1>9, <1>10, <1>11, <1>12, IdleMirrors

(* Its result is counted, and the counters will be called. *)
LEMMA ResultMirrors ==
    ASSUME TypeOK, TypeOK', MirrorInv, NEW w \in Workers, Idle(w), TelAfterPost(w)
    PROVE  MirrorInv'
<1> DEFINE c == CoreOf[w]
<1>1. /\ w \in Goroutine /\ c \in Cores /\ Core(w) = c /\ UNCHANGED metrics
      /\ stats \in [Cores -> CoreSnapshot] /\ stats[c] \in CoreSnapshot
  BY PoolAssumption, NameAssumption DEF Goroutine, Core, TelAfterPost, TypeOK
<1> HIDE DEF c
<1>2. PICK err \in result[w] :
          \/ Succeed(w, err) /\ Then(w, RecordBatchSuccess(Cardinality(job[w])))
          \/ GiveUpCanceled(w, err) /\ UNCHANGED calls
          \/ GiveUp(w, err) /\ Then(w, <<RecordBatchFailure>>)
          \/ ScheduleRetry(w, err) /\ Then(w, <<AddRetry>>)
  BY DEF TelAfterPost
<1>3. CASE Succeed(w, err) /\ Then(w, RecordBatchSuccess(Cardinality(job[w])))
  <2>1. PICK n : n = Cardinality(job[w])
    OBVIOUS
  <2>2. n \in Nat
    BY <2>1, DocSetFacts DEF TypeOK
  <2>3. /\ stats'[c] = [stats[c] EXCEPT !.successfulRequests = @ + 1, !.successfulDocs = @ + n]
        /\ \A d \in Cores \ {c} : stats'[d] = stats[d]
    BY <1>1, <1>3, <2>1 DEF Succeed, CoreSnapshot, c
  <2>4. /\ Brief(RecordBatchSuccess(n))
        /\ \A m \in Counter : Due(RecordBatchSuccess(n), m)
                                = Adds(<<"sentDocs", n>>, m) + Adds(<<"batchesSent", 1>>, m)
    BY <2>2, CallForms, DueTwo DEF RecordBatchSuccess
  <2>5. ASSUME NEW m \in Counter
        PROVE  Due(RecordBatchSuccess(n), m) = IF m = "sentDocs" THEN n
                                               ELSE IF m = "batchesSent" THEN 1 ELSE 0
    <3>1. /\ Adds(<<"sentDocs", n>>, m) = IF m = "sentDocs" THEN n ELSE 0
          /\ Adds(<<"batchesSent", 1>>, m) = IF m = "batchesSent" THEN 1 ELSE 0
      BY DEF Adds
    <3> QED
      BY <2>2, <2>4, <3>1
  <2>6. ASSUME NEW m \in Counter
        PROVE  stats'[c][StatOf(m)] = stats[c][StatOf(m)] + Due(RecordBatchSuccess(n), m)
    <3>1. stats'[c][StatOf(m)] = stats[c][StatOf(m)] + (IF m = "sentDocs" THEN n
                                               ELSE IF m = "batchesSent" THEN 1 ELSE 0)
      <4>1. CASE m = "sentDocs"
        BY <1>1, <2>3, <4>1, StatIs DEF CoreSnapshot
      <4>2. CASE m = "batchesSent"
        BY <1>1, <2>3, <4>2, StatIs DEF CoreSnapshot
      <4>3. CASE m \in {"generatedDocs", "sendFailures", "retries"}
        <5>1. StatOf(m) \in {"generatedDocs", "terminalFailures", "retryAttempts"}
          BY <4>3, StatIs
        <5>2. stats'[c][StatOf(m)] = stats[c][StatOf(m)]
          BY <1>1, <2>3, <5>1 DEF CoreSnapshot
        <5>3. stats[c][StatOf(m)] \in Nat
          BY <1>1, StatsNat
        <5> QED
          BY <4>3, <5>2, <5>3
      <4> QED
        BY <4>1, <4>2, <4>3 DEF Counter
    <3> QED
      BY <2>5, <3>1
  <2> QED
    BY <1>1, <1>3, <2>1, <2>3, <2>4, <2>6, IdleMirrors
<1>4. CASE GiveUpCanceled(w, err) /\ UNCHANGED calls
  <2>1. stats' = stats
    BY <1>4 DEF GiveUpCanceled
  <2> QED
    BY <1>1, <1>4, <2>1, NoCallMirrors
<1>5. CASE GiveUp(w, err) /\ Then(w, <<RecordBatchFailure>>)
  <2>1. /\ stats'[c] = [stats[c] EXCEPT !.terminalFailures = @ + 1]
        /\ \A d \in Cores \ {c} : stats'[d] = stats[d]
    BY <1>1, <1>5 DEF GiveUp, CoreSnapshot, c
  <2>2. /\ Brief(<<RecordBatchFailure>>)
        /\ \A m \in Counter :
              Due(<<RecordBatchFailure>>, m) = IF m = "sendFailures" THEN 1 ELSE 0
    BY CallForms, DueOne
  <2>3. ASSUME NEW m \in Counter
        PROVE  stats'[c][StatOf(m)] = stats[c][StatOf(m)] + Due(<<RecordBatchFailure>>, m)
    <3>1. stats'[c][StatOf(m)] = stats[c][StatOf(m)] + IF m = "sendFailures" THEN 1 ELSE 0
      BY <1>1, <2>1, StatIs DEF CoreSnapshot, Counter
    <3> QED
      BY <2>2, <3>1
  <2> QED
    BY <1>1, <1>5, <2>1, <2>2, <2>3, IdleMirrors
<1>6. CASE ScheduleRetry(w, err) /\ Then(w, <<AddRetry>>)
  <2>1. /\ stats'[c] = [stats[c] EXCEPT !.retryAttempts = @ + 1]
        /\ \A d \in Cores \ {c} : stats'[d] = stats[d]
    BY <1>1, <1>6 DEF ScheduleRetry, CoreSnapshot, c
  <2>2. /\ Brief(<<AddRetry>>)
        /\ \A m \in Counter : Due(<<AddRetry>>, m) = IF m = "retries" THEN 1 ELSE 0
    BY CallForms, DueOne
  <2>3. ASSUME NEW m \in Counter
        PROVE  stats'[c][StatOf(m)] = stats[c][StatOf(m)] + Due(<<AddRetry>>, m)
    <3>1. stats'[c][StatOf(m)] = stats[c][StatOf(m)] + IF m = "retries" THEN 1 ELSE 0
      BY <1>1, <2>1, StatIs DEF CoreSnapshot, Counter
    <3> QED
      BY <2>2, <3>1
  <2> QED
    BY <1>1, <1>6, <2>1, <2>2, <2>3, IdleMirrors
<1> QED
  BY <1>3, <1>4, <1>5, <1>6, <1>2

LEMMA WorkMirrors ==
    ASSUME TypeOK, TypeOK', MirrorInv, NEW w \in Workers, TelWork(w)
    PROVE  MirrorInv'
<1>1. Idle(w)
  BY DEF TelWork
<1>2. CASE TelAfterPost(w)
  BY <1>1, <1>2, ResultMirrors
<1>3. CASE PostReturns(w)
  BY <1>1, <1>3, ReturnMirrors
<1>4. CASE ~PostReturns(w) /\ ~TelAfterPost(w)
  <2>1. stats' = stats /\ metrics' = metrics
    BY <1>4 DEF TelWork, TelReturn, ReceiveJob, BackoffElapsed, BackoffCanceled, SleepElapsed,
                SleepCanceled, ReturnIdle
  <2>2. CASE UNCHANGED calls
    BY <2>1, <2>2, NoCallMirrors
  <2>3. ASSUME NEW s, s \in { <<SetQueueDepth, StartRequestCall>>, <<StartRequestCall>>,
                              <<doneWorker>> }, Then(w, s)
        PROVE  MirrorInv'
    <3>1. Brief(s) /\ \A m \in Counter : Due(s, m) = 0
      BY <2>3, NothingDue
    <3>2. PICK c \in Cores : c = Core(w) /\ w \in Goroutine
      BY PoolAssumption, NameAssumption DEF Core, Goroutine
    <3>3. \A m \in Counter : stats'[c][StatOf(m)] = stats[c][StatOf(m)] + Due(s, m)
      BY <2>1, <3>1, StatsNat
    <3>4. \A d \in Cores \ {c} : stats'[d] = stats[d]
      BY <2>1
    <3> QED
      BY <1>1, <2>1, <2>3, <3>1, <3>2, <3>3, <3>4, IdleMirrors
  <2> QED
    BY <1>4, <2>2, <2>3 DEF TelWork, TelReturn
<1> QED
  BY <1>2, <1>4, <1>3

LEMMA MirrorStep ==
    ASSUME TypeOK, TypeOK', MirrorInv, [TelNext]_allVars
    PROVE  MirrorInv'
<1>1. CASE UNCHANGED <<metrics, calls, stats>>
  BY <1>1, NoCallMirrors
<1>2. CASE \E a \in Goroutine : Observe(a)
  BY <1>2, ObserveMirrors
<1>3. CASE \E c \in Cores : TelProduce(c)
  BY <1>3, ProduceMirrors
<1>4. CASE \E w \in Workers : TelWork(w)
  BY <1>4, WorkMirrors
<1>5. CASE TelCoordinate
  BY <1>1, <1>5 DEF TelCoordinate, Shutdown, ShutdownTimeout, ProducersJoined, Finish, telVars
<1> QED
  BY <1>1, <1>2, <1>3, <1>4, <1>5 DEF TelNext, allVars

LEMMA MirrorStart == TelInit => MirrorInv
<1> SUFFICES ASSUME TelInit PROVE MirrorInv
  OBVIOUS
<1>1. calls = [a \in Goroutine |-> calls[a]]
      /\ \A a \in Goroutine : calls[a] \in {<<>>, <<StartWorker>>}
  BY DEF TelInit
<1>2. \A a \in Goroutine : Brief(calls[a]) /\ \A m \in Counter : Due(calls[a], m) = 0
  BY <1>1, NothingDue
<1>3. metrics \in [Cores -> [Counter -> Nat]] /\ \A c \in Cores, m \in Counter : metrics[c][m] = 0
  BY DEF TelInit
<1>4. ASSUME NEW c \in Cores, NEW m \in Counter PROVE Dues(c, m) = 0
  <2>1. PICK S, g : S = GoroutinesOf(c) /\ g = [a \in Goroutine |-> Due(calls[a], m)]
    OBVIOUS
  <2>2. IsFiniteSet(S) /\ S \subseteq Goroutine
    BY <2>1, GoroutinesAre
  <2>3. \A a \in S : g[a] = 0
    BY <1>2, <2>1, <2>2
  <2>4. FoldFunctionOnSet(+, 0, g, S) = 0
    BY <2>2, <2>3, SumOfNone
  <2> QED
    BY <2>1, <2>4, Zenon DEF Dues, DuesOf
<1>5. \A c \in Cores, m \in Counter : stats[c][StatOf(m)] = 0
  BY StatIs DEF TelInit, Init, Counter
<1>6. \A c \in Cores : Mirrored(c)
  BY <1>3, <1>4, <1>5 DEF Mirrored
<1> QED
  BY <1>1, <1>2, <1>3, <1>6 DEF MirrorInv

(* The wait groups: Run goes on when nobody has a call to make. *)
Quiet ==
    /\ phase \in {"draining", "forcing", "finished"} => \A c \in Cores : Idle(c)
    /\ phase = "finished" => \A w \in Workers : Idle(w)

LEMMA QuietStep ==
    ASSUME ShutdownInv, ResultInv, MirrorInv, Quiet, [TelNext]_allVars
    PROVE  Quiet'
<1>1. calls = [a \in Goroutine |-> calls[a]] /\ AllReturned
  BY DEF MirrorInv, ShutdownInv
<1>2. CASE \E a \in Goroutine : Observe(a)
  <2>1. PICK a \in Goroutine : Observe(a)
    BY <1>2
  <2>2. phase' = phase /\ ~Idle(a)
    BY <2>1, CallsStutter DEF vars, Observe, EvaluateLen, Store, Track, Count, Measure
  <2>3. \A b \in Goroutine : b # a => calls'[b] = calls[b]
    BY <1>1, <2>1 DEF Observe, EvaluateLen, Store, Track, Count, Measure, Then
  <2> QED
    BY <2>2, <2>3 DEF Quiet, Idle, Goroutine
<1>3. CASE \E c \in Cores : TelProduce(c)
  <2>1. PICK c \in Cores : Produce(c)
    BY <1>3, ProducerSteps
  <2> QED
    BY <1>1, <2>1, ReturnedProducer DEF Quiet, AllReturned
<1>4. CASE \E w \in Workers : TelWork(w)
  <2>1. PICK w \in Workers : TelWork(w)
    BY <1>4
  <2>2. phase' = phase /\ phase # "finished"
    <3>1. CASE Work(w)
      BY <1>1, <2>1, <3>1, ReturnedWorker DEF AllReturned
    <3>2. CASE PostReturns(w) /\ UNCHANGED vars
      BY <1>1, <3>2 DEF PostReturns, AllReturned, vars, Request
    <3> QED
      BY <2>1, <3>1, <3>2, WorkerSteps
  <2>3. \A c \in Cores : calls'[c] = calls[c]
    BY <1>1, <2>1, NameAssumption
       DEF TelWork, PostReturns, Return, TelAfterPost, TelReturn, Then, Goroutine
  <2> QED
    BY <2>2, <2>3 DEF Quiet, Idle
<1>5. CASE TelCoordinate
  BY <1>5 DEF TelCoordinate, Shutdown, ShutdownTimeout, ProducersJoined, Finish, telVars,
              Quiet, Idle
<1>6. CASE UNCHANGED allVars
  BY <1>6 DEF allVars, Quiet, Idle
<1> QED
  BY <1>2, <1>3, <1>4, <1>5, <1>6 DEF TelNext

LEMMA MirrorsMean ==
    ASSUME TypeOK, MirrorInv, Quiet
    PROVE  CountersMirrorStats
<1>1. ASSUME NEW c \in Cores, NEW m \in Counter
      PROVE  /\ metrics[c][m] <= stats[c][StatOf(m)]
             /\ phase = "finished" => metrics[c][m] = stats[c][StatOf(m)]
  <2>1. PICK u, x, k : u = metrics[c][m] /\ x = Dues(c, m) /\ k = stats[c][StatOf(m)]
    OBVIOUS
  <2>2. x \in Nat
    <3>1. c \in Goroutine /\ Brief(<<>>) /\ \A a \in Goroutine : Brief(calls[a])
      BY DueNone DEF Goroutine, MirrorInv
    <3>2. calls = [a \in Goroutine |-> calls[a]]
      BY DEF MirrorInv
    <3>3. DuesOf(calls, c, m) \in Nat
      BY <3>1, <3>2, DuesMove
    <3> QED
      BY <2>1, <3>3, DuesAre
  <2>3. u \in Nat /\ k \in Nat
    BY <2>1, StatsNat DEF MirrorInv
  <2>4. u + x = k
    BY <2>1 DEF MirrorInv, Mirrored
  <2>5. phase = "finished" => x = 0
    BY <2>1, DuesNone DEF Quiet, GoroutinesOf, WorkersOf
  <2> QED
    BY <2>1, <2>2, <2>3, <2>4, <2>5
<1> QED
  BY <1>1, StatIs DEF CountersMirrorStats, Counter

(* The exported counters never run ahead of the statistics, and both agree    *)
(* when Run logs the final totals, for any number of cores, workers and       *)
(* documents (worker.go:44-47, 153-213, runner.go:168).                       *)
THEOREM CountersAreMirrored == TelSpec => []CountersMirrorStats
<1>1. TelSpec => []ShutdownInv
  <2>1. Spec => []ShutdownInv
    BY ShutdownInit, ShutdownNext, PTL DEF Spec
  <2> QED
    BY <2>1, TelemetryImplementsPipeline, PTL DEF ImplementsPipeline, Spec
<1>2. ShutdownInv => TypeOK
  BY DEF ShutdownInv, TypeInv
<1>3. TelInit => MirrorInv /\ Quiet
  BY MirrorStart DEF TelInit, Init, Quiet
<1>4. ShutdownInv /\ ResultInv /\ TypeOK /\ TypeOK' /\ MirrorInv /\ Quiet /\ [TelNext]_allVars
        => MirrorInv' /\ Quiet'
  BY MirrorStep, QuietStep
<1>5. TelSpec => [](TypeOK /\ MirrorInv /\ Quiet)
  BY <1>1, <1>2, <1>3, <1>4, ResultsAlways, PTL DEF TelSpec
<1> QED
  BY <1>5, MirrorsMean, PTL
=============================================================================
