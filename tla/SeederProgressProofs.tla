------------------------ MODULE SeederProgressProofs ------------------------
(* What is logged of the pipeline: logging decides nothing, no line shows     *)
(* more than happened or goes back, and the last lines are the truth.  What   *)
(* a Load finds is what was counted less what the workers still owe, so most  *)
(* lemmas here are about sums over the workers.                               *)
EXTENDS SeederProgress, SeederPipelineProofs

-----------------------------------------------------------------------------
(* The logger only looks: it is over with the workers before the totals are   *)
(* logged, and then Run returns as it does in the pipeline alone.             *)
WorkersGone == ~logging => /\ phase \in {"draining", "forcing", "finished"}
                           /\ \A w \in Workers : pc[w] = "returned"

LEMMA ProgSteps ==
    ASSUME WorkersGone, ProgNext
    PROVE  Next \/ UNCHANGED vars
<1>1. CASE \E c \in Cores : ProgProduce(c)
  BY <1>1 DEF ProgProduce, Next
<1>2. CASE \E w \in Workers : ProgWork(w)
  BY <1>2 DEF ProgWork, Next
<1>3. CASE (\E w \in Workers : AddDocs(w)) \/ LogProgress \/ StopLogs
  BY <1>3 DEF AddDocs, LogProgress, Tick, LoadNext, LogLine, LoggerReturns, StopLogs
<1>4. CASE ProgCoordinate
  BY <1>4 DEF ProgCoordinate, Next, Coordinate
<1>5. CASE LogFinalTotals
  <2>1. Finish
    BY <1>5 DEF LogFinalTotals, WorkersGone, Finish
  <2> QED
    BY <2>1 DEF Next, Coordinate
<1> QED
  BY <1>1, <1>2, <1>3, <1>4, <1>5 DEF ProgNext

LEMMA WorkersGoneNext == WorkersGone /\ [ProgNext]_allVars => WorkersGone'
<1> SUFFICES ASSUME WorkersGone, [ProgNext]_allVars PROVE WorkersGone'
  OBVIOUS
<1>1. CASE \E c \in Cores : ProgProduce(c)
  BY <1>1, ReturnedProducer DEF ProgProduce, WorkersGone, progVars
<1>2. CASE \E w \in Workers : ProgWork(w)
  BY <1>2, ReturnedWorker DEF ProgWork, WorkersGone
<1>3. CASE (\E w \in Workers : AddDocs(w)) \/ LogProgress
  BY <1>3 DEF AddDocs, LogProgress, Tick, LoadNext, LogLine, LoggerReturns, WorkersGone, vars
<1>4. CASE ProgCoordinate
  BY <1>4 DEF ProgCoordinate, WorkersGone, progVars
<1>5. CASE StopLogs
  BY <1>5 DEF StopLogs, WorkersGone, vars
<1>6. CASE LogFinalTotals
  BY <1>6 DEF LogFinalTotals, WorkersGone
<1>7. CASE UNCHANGED allVars
  BY <1>7 DEF allVars, WorkersGone
<1> QED
  BY <1>1, <1>2, <1>3, <1>4, <1>5, <1>6, <1>7 DEF ProgNext

(* Logging decides nothing: the pipeline with its log takes the steps of the  *)
(* pipeline and no others (runner.go:110-172).                                *)
THEOREM LoggingObserves == ProgSpec => Spec
<1>1. ProgInit => Init /\ WorkersGone
  BY DEF ProgInit, WorkersGone
<1>2. WorkersGone /\ [ProgNext]_allVars => [Next]_vars
  BY ProgSteps DEF allVars, vars
<1> QED
  BY <1>1, <1>2, WorkersGoneNext, PTL DEF ProgSpec, Spec

(* So a shutdown that was not forced is clean with the log too: every         *)
(* document is sent, failed or dropped (runner.go:110-172).                   *)
THEOREM CleanWithLog == ProgSpec => []CleanExit
BY LoggingObserves, CleanShutdown, PTL

-----------------------------------------------------------------------------
(* What a step of the pipeline does to the counters of one core.              *)
SumOwed(f, c) == FoldFunctionOnSet(+, 0, f, WorkersOf(c))
Owed(c) == SumOwed(owed, c)

LEMMA Pools ==
    /\ \A c \in Cores : /\ IsFiniteSet(WorkersOf(c)) /\ WorkersOf(c) \subseteq Workers
                        /\ Cardinality(WorkersOf(c)) \in Nat
    /\ \A w \in Workers : CoreOf[w] \in Cores
<1>1. ASSUME NEW c \in Cores
      PROVE  /\ IsFiniteSet(WorkersOf(c)) /\ WorkersOf(c) \subseteq Workers
             /\ Cardinality(WorkersOf(c)) \in Nat
  <2>1. WorkersOf(c) \subseteq Workers
    BY DEF WorkersOf
  <2> QED
    BY <2>1, PoolAssumption, FS_Subset, FS_CardinalityType
<1> QED
  BY <1>1, PoolAssumption

LEMMA VisibleIs ==
    ASSUME NEW c
    PROVE  /\ Visible(c, "queueDepth") = Len(queue[c])
           /\ Visible(c, "successfulDocs") = stats[c].successfulDocs - Owed(c)
           /\ \A f \in Counter \ {"successfulDocs"} : Visible(c, f) = stats[c][f]
<1>1. Visible(c, "queueDepth") = Len(queue[c])
  BY DEF Visible
<1>2. Visible(c, "successfulDocs") = stats[c].successfulDocs - Owed(c)
  BY DEF Visible, Owed, SumOwed
<1>3. \A f \in Counter \ {"successfulDocs"} : Visible(c, f) = stats[c][f]
  BY DEF Visible, Counter
<1> QED
  BY <1>1, <1>2, <1>3

(* Only a successful request counts documents as sent, and a worker that made *)
(* one does not return.                                                       *)
LEMMA WorkCounts ==
    ASSUME TallyInv, NEW w \in Workers, NEW c, c = CoreOf[w], Work(w)
    PROVE  /\ \A f \in Counter : stats[c][f] <= stats'[c][f]
           /\ stats'[c].successfulDocs - stats[c].successfulDocs \in 0..BatchSize
           /\ pc'[w] = "returned" => stats'[c].successfulDocs = stats[c].successfulDocs
<1> DEFINE Grows(s, t) == /\ \A f \in Counter : s[f] <= t[f]
                          /\ t.successfulDocs - s.successfulDocs \in 0..BatchSize
                          /\ pc'[w] = "returned" => t.successfulDocs = s.successfulDocs
           Goes == Grows(stats[c], stats'[c])
<1>1. c \in Cores /\ TypeOK /\ stats[c] \in CoreSnapshot /\ Tallied(c)
  BY PoolAssumption DEF TallyInv, OrderInv, AccountInv, TypeInv, TypeOK
<1>2. \A s \in CoreSnapshot : Grows(s, s)
  BY LimitAssumption DEF CoreSnapshot, Counter
<1>3. ASSUME UNCHANGED stats PROVE Goes
  BY <1>1, <1>2, <1>3
<1>4. ASSUME NEW err, AfterPost(w, err), pc[w] \in {"post", "doomed"}
      PROVE  Goes
  <2>1. CASE Succeed(w, err)
    <3>1. PICK n : n = Cardinality(job[w])
      OBVIOUS
    <3>2. n \in 1..BatchSize
      BY <1>1, <1>4, <3>1 DEF Tallied, SizesFit, Posting, BatchSized, WorkersOf
    <3>3. stats'[c] = [stats[c] EXCEPT !.successfulRequests = @ + 1, !.successfulDocs = @ + n]
      BY <1>1, <2>1, <3>1 DEF Succeed, TypeOK, CoreSnapshot
    <3>4. pc'[w] # "returned"
      BY <1>1, <2>1 DEF Succeed, Release, TypeOK
    <3> QED
      BY <1>1, <3>2, <3>3, <3>4, LimitAssumption DEF CoreSnapshot, Counter
  <2>2. CASE GiveUpCanceled(w, err)
    BY <1>3, <2>2 DEF GiveUpCanceled
  <2>3. CASE GiveUp(w, err)
    <3>1. stats'[c] = [stats[c] EXCEPT !.terminalFailures = @ + 1]
      BY <1>1, <2>3 DEF GiveUp, TypeOK
    <3> QED
      BY <1>1, <3>1, LimitAssumption DEF CoreSnapshot, Counter
  <2>4. CASE ScheduleRetry(w, err)
    <3>1. stats'[c] = [stats[c] EXCEPT !.retryAttempts = @ + 1]
      BY <1>1, <2>4 DEF ScheduleRetry, TypeOK
    <3> QED
      BY <1>1, <3>1, LimitAssumption DEF CoreSnapshot, Counter
  <2> QED
    BY <1>4, <2>1, <2>2, <2>3, <2>4 DEF AfterPost
<1> SUFFICES Goes
  OBVIOUS
<1> HIDE DEF Goes
<1>5. CASE ReceiveJob(w) \/ ReturnIdle(w) \/ BackoffElapsed(w) \/ BackoffCanceled(w)
           \/ SleepElapsed(w) \/ SleepCanceled(w)
  BY <1>3, <1>5 DEF ReceiveJob, ReturnIdle, BackoffElapsed, BackoffCanceled,
                    SleepElapsed, SleepCanceled
<1>6. CASE PostEnds(w) \/ RequestTimeout(w) \/ RequestCanceled(w)
  BY <1>4, <1>6 DEF PostEnds, RequestTimeout, RequestCanceled
<1> QED
  BY <1>5, <1>6 DEF Work, WorkAlone

LEMMA ProduceCounts ==
    ASSUME TallyInv, NEW d \in Cores, Produce(d), NEW c \in Cores
    PROVE  /\ \A f \in Counter : stats[c][f] <= stats'[c][f]
           /\ stats'[c].successfulDocs = stats[c].successfulDocs
<1> DEFINE Grows(s, t) == /\ \A f \in Counter : s[f] <= t[f]
                          /\ t.successfulDocs = s.successfulDocs
<1>1. TypeOK /\ stats[c] \in CoreSnapshot
  BY DEF TallyInv, OrderInv, AccountInv, TypeInv, TypeOK
<1>2. \A s \in CoreSnapshot : Grows(s, s)
  BY DEF CoreSnapshot, Counter
<1>3. CASE UNCHANGED stats
  BY <1>1, <1>2, <1>3
<1>4. CASE Generate(d)
  <2>1. stats'[c] = stats[c] \/ stats'[c] = [stats[c] EXCEPT !.generatedDocs = @ + 1]
    BY <1>1, <1>4 DEF Generate, TypeOK, CoreSnapshot
  <2> QED
    BY <1>1, <1>2, <2>1 DEF CoreSnapshot, Counter
<1>5. CASE DropPartial(d)
  <2>1. stats'[c] = stats[c] \/ stats'[c] = [stats[c] EXCEPT !.droppedBatches = @ + 1]
    BY <1>1, <1>5 DEF DropPartial, TypeOK, CoreSnapshot
  <2> QED
    BY <1>1, <1>2, <2>1 DEF CoreSnapshot, Counter
<1> QED
  BY <1>3, <1>4, <1>5 DEF Produce, KeepGoing, SendBatch, SendInterrupted, StopEmpty, FlushPartial

-----------------------------------------------------------------------------
(* Between the two Adds of a successful request its worker owes documents:    *)
(* never more than a batch, and never when it has returned.                   *)
OwedFits ==
    /\ owed \in [Workers -> 0..BatchSize]
    /\ \A w \in Workers : owed[w] # 0 => pc[w] # "returned"
    /\ \A c \in Cores : Owed(c) <= stats[c].successfulDocs

LEMMA OwedIs == \A c : Owed(c) = SumOwed(owed, c) /\ Owed(c)' = SumOwed(owed', c)
BY DEF Owed

LEMMA OwedBounds ==
    ASSUME NEW f \in [Workers -> 0..BatchSize], NEW c \in Cores
    PROVE  SumOwed(f, c) \in Nat /\ SumOwed(f, c) <= BatchSize * Cardinality(WorkersOf(c))
<1>1. IsFiniteSet(WorkersOf(c)) /\ BatchSize \in Nat /\ \A w \in WorkersOf(c) : f[w] \in 0..BatchSize
  BY Pools, LimitAssumption
<1>2. PICK S : S = WorkersOf(c)
  OBVIOUS
<1>3. IsFiniteSet(S) /\ \A w \in S : f[w] \in 0..BatchSize
  BY <1>1, <1>2
<1>4. /\ FoldFunctionOnSet(+, 0, f, S) \in Nat
      /\ FoldFunctionOnSet(+, 0, f, S) <= BatchSize * Cardinality(S)
  BY <1>1, <1>3, SumBounds
<1> QED
  BY <1>2, <1>4 DEF SumOwed

LEMMA OwedMoves ==
    ASSUME NEW f \in [Workers -> 0..BatchSize], NEW w \in Workers, NEW n \in 0..BatchSize,
           NEW c \in Cores
    PROVE  SumOwed([f EXCEPT ![w] = n], c)
             = IF w \in WorkersOf(c) THEN SumOwed(f, c) - f[w] + n ELSE SumOwed(f, c)
<1>1. PICK S, h : S = WorkersOf(c) /\ h = [f EXCEPT ![w] = n]
  OBVIOUS
<1>2. IsFiniteSet(S) /\ S \subseteq Workers
  BY <1>1, Pools
<1>3. /\ \A x \in S : f[x] \in Nat /\ h[x] \in Nat
      /\ \A x \in S : x # w => h[x] = f[x]
  BY <1>1, <1>2, LimitAssumption
<1>4. FoldFunctionOnSet(+, 0, h, S)
        = IF w \in S THEN FoldFunctionOnSet(+, 0, f, S) - f[w] + h[w]
          ELSE FoldFunctionOnSet(+, 0, f, S)
  BY <1>2, <1>3, SumMoves
<1>5. h[w] = n
  BY <1>1
<1> QED
  BY <1>1, <1>4, <1>5, Zenon DEF SumOwed

LEMMA OwedNone ==
    ASSUME NEW f \in [Workers -> 0..BatchSize], NEW c \in Cores, \A w \in Workers : f[w] = 0
    PROVE  SumOwed(f, c) = 0
<1>1. PICK S : S = WorkersOf(c)
  OBVIOUS
<1>2. IsFiniteSet(S) /\ \A x \in S : f[x] = 0
  BY <1>1, Pools
<1>3. FoldFunctionOnSet(+, 0, f, S) = 0
  BY <1>2, SumOfNone
<1> QED
  BY <1>1, <1>3 DEF SumOwed

(* Whatever the pipeline does, the counters grow, and so does what a Load     *)
(* finds of them.                                                             *)
Grown(c) ==
    /\ \A f \in Counter : stats[c][f] <= stats'[c][f]
    /\ stats[c].successfulDocs - Owed(c) <= stats'[c].successfulDocs - Owed(c)'
    /\ Owed(c)' <= stats'[c].successfulDocs

LEMMA GrownWork ==
    ASSUME TallyInv, OwedFits, NEW w \in Workers, ProgWork(w)
    PROVE  /\ \A c \in Cores : Grown(c)
           /\ owed' \in [Workers -> 0..BatchSize]
           /\ \A v \in Workers : owed'[v] # 0 => pc'[v] # "returned"
<1>1. PICK d, n : d = CoreOf[w] /\ n = stats'[d].successfulDocs - stats[d].successfulDocs
  OBVIOUS
<1>2. TypeInv /\ TypeOK /\ Work(w) /\ owed[w] = 0 /\ d \in Cores
  BY <1>1, Pools DEF TallyInv, OrderInv, AccountInv, TypeInv, ProgWork
<1>3. /\ \A f \in Counter : stats[d][f] <= stats'[d][f]
      /\ n \in 0..BatchSize
      /\ pc'[w] = "returned" => stats'[d].successfulDocs = stats[d].successfulDocs
  BY <1>1, <1>2, WorkCounts
<1>4. \A c \in Cores : stats[c] \in CoreSnapshot
  BY <1>2 DEF TypeOK
<1>5. owed' = [owed EXCEPT ![w] = n] /\ owed \in [Workers -> 0..BatchSize]
  BY <1>1 DEF ProgWork, OwedFits
<1>6. owed' \in [Workers -> 0..BatchSize]
  BY <1>3, <1>5
<1>7. ASSUME NEW v \in Workers, owed'[v] # 0 PROVE pc'[v] # "returned"
  <2>1. CASE v = w
    <3>1. n # 0
      BY <1>5, <1>7, <2>1
    <3>2. stats'[d].successfulDocs # stats[d].successfulDocs
      BY <1>1, <1>2, <1>4, <3>1 DEF CoreSnapshot
    <3> QED
      BY <1>3, <2>1, <3>2
  <2>2. CASE v # w
    <3>1. owed[v] # 0 /\ pc'[v] = pc[v]
      BY <1>2, <1>5, <1>7, <2>2, WorkIsLocal
    <3> QED
      BY <3>1 DEF OwedFits
  <2> QED
    BY <2>1, <2>2
<1>8. ASSUME NEW c \in Cores PROVE Grown(c)
  <2>1. SumOwed(owed', c) = IF w \in WorkersOf(c) THEN SumOwed(owed, c) - owed[w] + n
                            ELSE SumOwed(owed, c)
    BY <1>3, <1>5, OwedMoves
  <2>2. PICK o, p, s, t : /\ o = SumOwed(owed, c) /\ p = SumOwed(owed', c)
                          /\ s = stats[c].successfulDocs /\ t = stats'[c].successfulDocs
    OBVIOUS
  <2>3. Owed(c) = o /\ Owed(c)' = p
    BY <2>2, OwedIs
  <2>4. o \in Nat /\ s \in Nat /\ o <= s
    BY <1>4, <1>5, <2>2, <2>3, OwedBounds DEF OwedFits, CoreSnapshot
  <2>5. CASE c = d
    <3>1. w \in WorkersOf(c)
      BY <1>1, <2>5 DEF WorkersOf
    <3>2. p = o + n
      BY <1>2, <1>3, <2>1, <2>2, <2>4, <3>1
    <3>3. t = s + n
      <4>1. t \in Nat
        <5>1. TypeOK'
          BY TypeNext, <1>2 DEF Next, TypeInv
        <5> QED
          BY <2>2, <5>1 DEF TypeOK, CoreSnapshot
      <4> QED
        BY <1>1, <2>2, <2>4, <2>5, <4>1
    <3> QED
      BY <1>3, <2>2, <2>3, <2>4, <2>5, <3>2, <3>3 DEF Grown
  <2>6. CASE c # d
    <3>1. w \notin WorkersOf(c)
      BY <1>1, <2>6 DEF WorkersOf
    <3>2. stats'[c] = stats[c]
      BY <1>1, <1>2, <2>6, WorkIsLocal
    <3>3. \A f \in Counter : stats[c][f] <= stats'[c][f]
      BY <1>4, <3>2 DEF CoreSnapshot, Counter
    <3> QED
      BY <2>1, <2>2, <2>3, <2>4, <3>1, <3>2, <3>3 DEF Grown
  <2> QED
    BY <2>5, <2>6
<1> QED
  BY <1>6, <1>7, <1>8

LEMMA GrownSame ==
    ASSUME TallyInv, OwedFits, UNCHANGED owed, NEW c \in Cores,
           \A f \in Counter : stats[c][f] <= stats'[c][f],
           stats'[c].successfulDocs = stats[c].successfulDocs
    PROVE  Grown(c)
<1>1. PICK o, s : o = SumOwed(owed, c) /\ s = stats[c].successfulDocs
  OBVIOUS
<1>2. Owed(c) = o /\ Owed(c)' = o
  BY <1>1, OwedIs
<1>3. o \in Nat /\ s \in Nat /\ o <= s
  BY <1>1, <1>2, OwedBounds DEF OwedFits, CoreSnapshot, TallyInv, OrderInv, AccountInv,
                               TypeInv, TypeOK
<1> QED
  BY <1>1, <1>2, <1>3 DEF Grown

LEMMA GrownNext ==
    ASSUME TallyInv, OwedFits, [ProgNext]_allVars
    PROVE  OwedFits' /\ \A c \in Cores : Grown(c)
<1>1. TypeOK /\ \A c \in Cores : stats[c] \in CoreSnapshot
  BY DEF TallyInv, OrderInv, AccountInv, TypeInv, TypeOK
<1>2. (\A c \in Cores : Grown(c)) => \A c \in Cores : Owed(c)' <= stats'[c].successfulDocs
  BY DEF Grown
<1>3. CASE \E d \in Cores : ProgProduce(d)
  <2>1. PICK d \in Cores : Produce(d) /\ UNCHANGED progVars
    BY <1>3 DEF ProgProduce
  <2>2. UNCHANGED <<owed, pc>>
    BY <2>1, ReturnedProducer DEF progVars
  <2>3. \A c \in Cores : Grown(c)
    BY <2>1, <2>2, ProduceCounts, GrownSame
  <2> QED
    BY <1>2, <2>2, <2>3 DEF OwedFits
<1>4. CASE \E w \in Workers : ProgWork(w)
  BY <1>2, <1>4, GrownWork DEF OwedFits
<1>5. CASE \E w \in Workers : AddDocs(w)
  <2>1. PICK w \in Workers : AddDocs(w)
    BY <1>5
  <2>2. /\ owed' = [owed EXCEPT ![w] = 0] /\ UNCHANGED <<stats, pc>>
        /\ owed \in [Workers -> 0..BatchSize] /\ 0 \in 0..BatchSize
    BY <2>1, LimitAssumption DEF AddDocs, vars, OwedFits
  <2>3. owed' \in [Workers -> 0..BatchSize] /\ owed[w] \in 0..BatchSize
    BY <2>2
  <2>4. ASSUME NEW c \in Cores PROVE Grown(c)
    <3>1. SumOwed(owed', c) = IF w \in WorkersOf(c) THEN SumOwed(owed, c) - owed[w] + 0
                              ELSE SumOwed(owed, c)
      BY <2>2, OwedMoves
    <3>2. PICK o, p, s : /\ o = SumOwed(owed, c) /\ p = SumOwed(owed', c)
                         /\ s = stats[c].successfulDocs
      OBVIOUS
    <3>3. Owed(c) = o /\ Owed(c)' = p
      BY <3>2, OwedIs
    <3>4. o \in Nat /\ p \in Nat /\ s \in Nat /\ o <= s
      BY <1>1, <2>2, <2>3, <3>2, <3>3, OwedBounds DEF OwedFits, CoreSnapshot
    <3>5. p <= o
      BY <2>3, <3>1, <3>2, <3>4
    <3>6. \A f \in Counter : stats[c][f] <= stats'[c][f]
      BY <1>1, <2>2 DEF CoreSnapshot, Counter
    <3> QED
      BY <2>2, <3>2, <3>3, <3>4, <3>5, <3>6 DEF Grown
  <2>5. \A v \in Workers : owed'[v] # 0 => pc'[v] # "returned"
    BY <2>2 DEF OwedFits
  <2> QED
    BY <1>2, <2>3, <2>4, <2>5 DEF OwedFits
<1>6. CASE LogProgress \/ ProgCoordinate \/ StopLogs \/ LogFinalTotals \/ UNCHANGED allVars
  <2>1. UNCHANGED <<owed, stats, pc>>
    BY <1>6 DEF LogProgress, Tick, LoadNext, LogLine, LoggerReturns, ProgCoordinate, Shutdown,
                ProducersJoined, ShutdownTimeout, StopLogs, LogFinalTotals, vars, progVars,
                allVars
  <2>2. ASSUME NEW c \in Cores PROVE Grown(c)
    <3>1. \A f \in Counter : stats[c][f] <= stats'[c][f]
      BY <1>1, <2>1 DEF CoreSnapshot, Counter
    <3> QED
      BY <2>1, <3>1, GrownSame
  <2> QED
    BY <1>2, <2>1, <2>2 DEF OwedFits
<1> QED
  BY <1>3, <1>4, <1>5, <1>6 DEF ProgNext

-----------------------------------------------------------------------------
(* What the logger has loaded and shown.  Every value was that of its counter *)
(* when it was loaded and the counters have only grown since; a line in the   *)
(* making is as new as the last one in what it has loaded.                    *)
LineFits(c) ==
    /\ line \in Seq(Nat) /\ Len(line) <= 3
    /\ Len(line) >= 1 => /\ shown[c].generatedDocs <= line[1]
                         /\ shown[c].successfulDocs <= line[1]
                         /\ line[1] <= stats[c].generatedDocs
    /\ Len(line) >= 2 => /\ shown[c].successfulRequests <= line[2]
                         /\ line[2] <= stats[c].successfulRequests
    /\ Len(line) >= 3 => /\ shown[c].successfulDocs <= line[3]
                         /\ line[3] <= Visible(c, "successfulDocs")
                         /\ line[2] <= Batches(line[3]) + Cardinality(WorkersOf(c))

ShownFits(c) ==
    /\ \A f \in Counter : shown[c][f] <= Visible(c, f)
    /\ shown[c].successfulRequests
          <= Batches(shown[c].successfulDocs) + Cardinality(WorkersOf(c))

LogsFit ==
    /\ logger \in 0..Returned
    /\ shown \in [Cores -> [Field -> Nat]]
    /\ line = <<>> \/ (Reading /\ LineFits(Order[logger]))
    /\ \A c \in Cores : ShownFits(c)

FinalShown ==
    phase = "finished" =>
        /\ ~logging /\ logger = Returned
        /\ \A c \in Cores : \A f \in Field : shown[c][f] = Visible(c, f)

ProgInv == TallyInv /\ WorkersGone /\ OwedFits /\ LogsFit /\ FinalShown

LEMMA OrderIs ==
    /\ Len(Order) \in Nat /\ DOMAIN Order = 1..Len(Order)
    /\ \A i \in DOMAIN Order : Order[i] \in Cores
    /\ Returned \in Nat /\ Returned \notin DOMAIN Order /\ Select \notin DOMAIN Order
    /\ Returned # Select
<1>1. Order \in Seq(Cores)
  BY OrderAssumption
<1>2. /\ Len(Order) \in Nat /\ DOMAIN Order = 1..Len(Order)
      /\ \A i \in DOMAIN Order : Order[i] \in Cores
  BY <1>1
<1> QED
  BY <1>2 DEF Returned, Select

LEMMA LoadsAre ==
    /\ Len(Loads) = 3 /\ DOMAIN Loads = 1..3
    /\ Loads[1] = "generatedDocs" /\ Loads[2] = "successfulRequests"
    /\ Loads[3] = "successfulDocs"
    /\ ToSet(Loads) = {"generatedDocs", "successfulRequests", "successfulDocs"}
<1>1. /\ Len(Loads) = 3 /\ DOMAIN Loads = 1..3
      /\ Loads[1] = "generatedDocs" /\ Loads[2] = "successfulRequests"
      /\ Loads[3] = "successfulDocs"
  BY DEF Loads
<1>2. ToSet(Loads) = {Loads[i] : i \in 1..3}
  BY <1>1 DEF ToSet
<1> QED
  BY <1>1, <1>2

LEMMA BatchesGrow ==
    ASSUME NEW n \in Nat, NEW m \in Nat, NEW k \in Nat, n <= m + BatchSize * k
    PROVE  Batches(n) <= Batches(m) + k
<1> DEFINE B == BatchSize
           q == Batches(n)
           r == Batches(m)
<1>1. B \in Nat /\ B > 0
  BY LimitAssumption
<1>2. q \in Nat /\ B * q <= n + B - 1
  BY <1>1 DEF Batches
<1>3. r \in Nat /\ m + B - 1 < B * r + B
  BY <1>1 DEF Batches
<1> HIDE DEF B, q, r
<1>4. B * k \in Nat /\ B * q \in Nat /\ B * r \in Nat
  BY <1>1, <1>2, <1>3
<1>5. n <= m + B * k
  BY DEF B
<1>6. B * q < B * r + B + B * k
  BY <1>1, <1>2, <1>3, <1>4, <1>5
<1>7. B * r + B + B * k = B * (r + k + 1)
  BY <1>1, <1>3
<1>8. q < r + k + 1
  <2> SUFFICES ASSUME r + k + 1 <= q PROVE FALSE
    BY <1>2, <1>3
  <2>1. B * (r + k + 1) <= B * q
    BY <1>1, <1>2, <1>3
  <2>2. PICK x, y : x = B * q /\ y = B * (r + k + 1)
    OBVIOUS
  <2>3. x \in Int /\ y \in Int /\ x < y /\ y <= x
    BY <1>1, <1>3, <1>4, <1>6, <1>7, <2>1, <2>2
  <2> QED
    BY <2>3
<1>9. q <= r + k
  BY <1>2, <1>3, <1>8
<1> QED
  BY <1>9 DEF q, r

(* What is visible at one moment. *)
LEMMA VisibleFits ==
    ASSUME TallyInv, OwedFits, NEW c \in Cores
    PROVE  /\ \A f \in Counter : stats[c][f] \in Nat
           /\ Visible(c, "successfulDocs") \in Nat
           /\ Visible(c, "successfulDocs") <= stats[c].generatedDocs
           /\ stats[c].successfulRequests
                 <= Batches(Visible(c, "successfulDocs")) + Cardinality(WorkersOf(c))
           /\ Len(queue[c]) \in Nat
<1>1. PICK s, o, k, v : /\ s = stats[c].successfulDocs /\ o = Owed(c)
                        /\ k = Cardinality(WorkersOf(c)) /\ v = Visible(c, "successfulDocs")
  OBVIOUS
<1>2. AccountInv /\ stats[c] \in CoreSnapshot /\ queue[c] \in Seq(DocSet) /\ BatchesCounted(c)
  BY DEF TallyInv, OrderInv, AccountInv, TypeInv, TypeOK, Tallied
<1>3. \A f \in Counter : stats[c][f] \in Nat
  BY <1>2 DEF CoreSnapshot, Counter
<1>4. s \in Nat /\ k \in Nat /\ o \in Nat /\ o <= s /\ o <= BatchSize * k
  BY <1>1, <1>2, Pools, OwedIs, OwedBounds DEF OwedFits, CoreSnapshot
<1>5. v = s - o
  BY <1>1, VisibleIs
<1>6. v \in Nat /\ v <= s /\ s = v + o
  BY <1>4, <1>5
<1>7. s = Cardinality(settled[c]["sent"])
  BY <1>1 DEF TallyInv, CleanInv, Tidy, SentCounted
<1>8. s <= stats[c].generatedDocs
  <2>1. settled[c]["sent"] \subseteq 1..stats[c].generatedDocs
    <3>1. settled[c]["sent"] \subseteq Settled(c)
      BY <1>2 DEF Settled, DocsIn, Outcome, AccountInv, TypeInv, TypeOK
    <3> QED
      BY <1>2, <3>1 DEF AccountInv, DocsAccounted, Accounted
  <2>2. PICK n : n = stats[c].generatedDocs
    OBVIOUS
  <2>3. n \in Nat
    BY <1>2, <2>2 DEF CoreSnapshot
  <2>4. IsFiniteSet(1..n) /\ Cardinality(1..n) = n
    BY <2>3, FS_Interval
  <2>5. Cardinality(settled[c]["sent"]) <= Cardinality(1..n)
    BY <2>1, <2>2, <2>4, FS_Subset
  <2> QED
    BY <1>7, <2>2, <2>4, <2>5
<1>9. stats[c].successfulRequests = Batches(s)
  BY <1>2, <1>7 DEF BatchesCounted
<1>10. Batches(s) <= Batches(v) + k
  <2>1. s <= v + BatchSize * k
    BY <1>4, <1>6, LimitAssumption
  <2> QED
    BY <1>4, <1>6, <2>1, BatchesGrow
<1>11. v <= stats[c].generatedDocs
  BY <1>2, <1>4, <1>6, <1>8 DEF CoreSnapshot
<1>12. Len(queue[c]) \in Nat
  BY <1>2
<1> QED
  BY <1>1, <1>3, <1>6, <1>9, <1>10, <1>11, <1>12

LEMMA VisibleNat ==
    ASSUME TallyInv, OwedFits, NEW c \in Cores, NEW f \in Field
    PROVE  Visible(c, f) \in Nat
BY VisibleFits, VisibleIs DEF Field, Counter

LEMMA VisibleSame ==
    ASSUME UNCHANGED <<queue, stats, owed>>, NEW c, NEW f
    PROVE  Visible(c, f)' = Visible(c, f)
<1>1. SumOwed(owed, c)' = SumOwed(owed, c)
  OBVIOUS
<1> QED
  BY <1>1 DEF Visible, SumOwed

LEMMA VisibleGrows ==
    ASSUME TallyInv, TallyInv', OwedFits, OwedFits', NEW c \in Cores, Grown(c), NEW f \in Counter
    PROVE  Visible(c, f) <= Visible(c, f)'
<1>1. CASE f = "successfulDocs"
  <2>1. Visible(c, f) = stats[c].successfulDocs - Owed(c)
    BY <1>1, VisibleIs
  <2>2. Visible(c, f)' = stats'[c].successfulDocs - Owed(c)'
    BY <1>1 DEF Visible, Owed, SumOwed
  <2> QED
    BY <2>1, <2>2 DEF Grown
<1>2. CASE f # "successfulDocs"
  <2>1. Visible(c, f) = stats[c][f]
    BY <1>2, VisibleIs
  <2>2. Visible(c, f)' = stats'[c][f]
    BY <1>2 DEF Visible, Counter
  <2> QED
    BY <2>1, <2>2 DEF Grown
<1> QED
  BY <1>1, <1>2

LEMMA VisibleNext ==
    ASSUME TallyInv', OwedFits', NEW c \in Cores, NEW f \in Counter
    PROVE  Visible(c, f)' \in Int /\ stats'[c][f] \in Nat
<1>1. \A g \in Counter : stats'[c][g] \in Nat
  BY DEF TallyInv, OrderInv, AccountInv, TypeInv, TypeOK, CoreSnapshot, Counter
<1>2. CASE f = "successfulDocs"
  <2>1. Visible(c, f)' = stats'[c].successfulDocs - Owed(c)'
    BY <1>2 DEF Visible, Owed, SumOwed
  <2>2. Owed(c)' \in Nat
    BY OwedIs, OwedBounds DEF OwedFits
  <2> QED
    BY <1>1, <2>1, <2>2 DEF Counter
<1>3. CASE f # "successfulDocs"
  <2>1. Visible(c, f)' = stats'[c][f]
    BY <1>3 DEF Visible, Counter
  <2> QED
    BY <1>1, <2>1
<1> QED
  BY <1>2, <1>3

LEMMA ReadingLine ==
    ASSUME LogsFit, Reading
    PROVE  Order[logger] \in Cores /\ LineFits(Order[logger])
<1>1. Order[logger] \in Cores
  BY OrderIs DEF Reading
<1>2. <<>> \in Seq(Nat) /\ Len(<<>>) = 0
  OBVIOUS
<1>3. line = <<>> => LineFits(Order[logger])
  BY <1>2 DEF LineFits
<1> QED
  BY <1>1, <1>3 DEF LogsFit

LEMMA LineGrows ==
    ASSUME TallyInv, OwedFits, TallyInv', OwedFits', LogsFit, NEW c \in Cores, Grown(c),
           LineFits(c), UNCHANGED <<shown, line>>
    PROVE  LineFits(c)'
<1>1. \A f \in Counter : stats[c][f] \in Nat /\ stats'[c][f] \in Nat /\ stats[c][f] <= stats'[c][f]
  BY VisibleFits DEF Grown, TallyInv, OrderInv, AccountInv, TypeInv, TypeOK, CoreSnapshot, Counter
<1>2. PICK v, u : v = Visible(c, "successfulDocs") /\ u = Visible(c, "successfulDocs")'
  OBVIOUS
<1>3. v \in Nat /\ v <= u
  BY <1>2, VisibleFits, VisibleGrows DEF Counter
<1>4. u \in Nat
  <2>1. u \in Int
    BY <1>2, VisibleNext DEF Counter
  <2> QED
    BY <1>3, <2>1
<1>5. PICK n, x, y, z : n = Len(line) /\ x = line[1] /\ y = line[2] /\ z = line[3]
  OBVIOUS
<1>6. line \in Seq(Nat) /\ n <= 3
  BY <1>5 DEF LineFits
<1>7. n \in Nat /\ (n >= 1 => x \in Nat) /\ (n >= 2 => y \in Nat) /\ (n >= 3 => z \in Nat)
  BY <1>5, <1>6
<1>8. n >= 1 => x <= stats'[c].generatedDocs
  <2>1. n >= 1 => x <= stats[c].generatedDocs
    BY <1>5 DEF LineFits
  <2> QED
    BY <1>1, <1>7, <2>1 DEF Counter
<1>9. n >= 2 => y <= stats'[c].successfulRequests
  <2>1. n >= 2 => y <= stats[c].successfulRequests
    BY <1>5 DEF LineFits
  <2> QED
    BY <1>1, <1>7, <2>1 DEF Counter
<1>10. n >= 3 => z <= u
  <2>1. n >= 3 => z <= v
    BY <1>2, <1>5 DEF LineFits
  <2> QED
    BY <1>3, <1>4, <1>7, <2>1
<1> QED
  BY <1>2, <1>5, <1>6, <1>8, <1>9, <1>10 DEF LineFits

LEMMA ShownGrows ==
    ASSUME TallyInv, OwedFits, TallyInv', OwedFits', LogsFit, NEW c \in Cores, Grown(c),
           shown'[c] = shown[c]
    PROVE  ShownFits(c)'
<1>1. ASSUME NEW f \in Counter PROVE shown'[c][f] <= Visible(c, f)'
  <2>1. PICK v, u, s : v = Visible(c, f) /\ u = Visible(c, f)' /\ s = shown[c][f]
    OBVIOUS
  <2>2. v \in Nat /\ s \in Nat /\ s <= v /\ v <= u
    BY <2>1, VisibleNat, VisibleGrows DEF LogsFit, ShownFits, Field
  <2>3. u \in Int
    BY <2>1, VisibleNext
  <2> QED
    BY <2>1, <2>2, <2>3
<1>2. shown'[c].successfulRequests
        <= Batches(shown'[c].successfulDocs) + Cardinality(WorkersOf(c))
  BY DEF LogsFit, ShownFits
<1> QED
  BY <1>1, <1>2 DEF ShownFits

(* A step that leaves the logger and its lines alone. *)
LEMMA LogsKept ==
    ASSUME TallyInv, OwedFits, TallyInv', OwedFits', LogsFit, \A c \in Cores : Grown(c),
           UNCHANGED <<logger, line, shown>>
    PROVE  LogsFit'
<1>1. \A c \in Cores : ShownFits(c)'
  BY ShownGrows
<1>2. ASSUME Reading, LineFits(Order[logger]) PROVE Reading' /\ LineFits(Order[logger])'
  <2>1. PICK c \in Cores : c = Order[logger]
    BY <1>2, ReadingLine
  <2>2. LineFits(c)'
    BY <1>2, <2>1, LineGrows
  <2>3. Order[logger'] = c
    BY <2>1
  <2>4. LineFits(Order[logger])'
    BY <2>2, <2>3
  <2> QED
    BY <1>2, <2>4 DEF Reading
<1>3. line' = <<>> \/ (Reading' /\ LineFits(Order[logger])')
  BY <1>2 DEF LogsFit
<1> QED
  BY <1>1, <1>3 DEF LogsFit

(* The line that is logged. *)
LEMMA LogLineIs ==
    ASSUME TallyInv, OwedFits, LogsFit, LogLine, NEW c, c = Order[logger]
    PROVE  /\ c \in Cores /\ LineFits(c) /\ Len(line) = 3
           /\ \A d \in Cores : d # c => shown'[d] = shown[d]
           /\ shown'[c].generatedDocs = line[1]
           /\ shown'[c].successfulRequests = line[2]
           /\ shown'[c].successfulDocs = line[3]
           /\ \A f \in Field \ {"generatedDocs", "successfulRequests", "successfulDocs"} :
                 shown'[c][f] = Visible(c, f)
           /\ shown' \in [Cores -> [Field -> Nat]]
<1>1. c \in Cores /\ LineFits(c) /\ Len(line) = 3
  BY ReadingLine, LoadsAre DEF LogLine
<1>2. line[1] \in Nat /\ line[2] \in Nat /\ line[3] \in Nat
  <2>1. line \in Seq(Nat)
    BY <1>1 DEF LineFits
  <2>2. \A i \in 1..Len(line) : line[i] \in Nat
    BY <2>1
  <2> QED
    BY <1>1, <2>2
<1> DEFINE At(f) == CHOOSE i \in DOMAIN Loads : Loads[i] = f
           new == [f \in Field |-> IF f \in ToSet(Loads) THEN line[At(f)] ELSE Visible(c, f)]
<1>3. At("generatedDocs") = 1 /\ At("successfulRequests") = 2 /\ At("successfulDocs") = 3
  BY LoadsAre
<1>4. shown' = [shown EXCEPT ![c] = new]
  BY DEF LogLine
<1>5. shown \in [Cores -> [Field -> Nat]]
  BY DEF LogsFit
<1> HIDE DEF At
<1>6. /\ new["generatedDocs"] = line[1] /\ new["successfulRequests"] = line[2]
      /\ new["successfulDocs"] = line[3]
      /\ \A f \in Field \ {"generatedDocs", "successfulRequests", "successfulDocs"} :
            new[f] = Visible(c, f)
  BY <1>3, LoadsAre DEF Field, Counter
<1>7. new \in [Field -> Nat]
  <2>1. ASSUME NEW f \in Field PROVE new[f] \in Nat
    <3>1. CASE f \in {"generatedDocs", "successfulRequests", "successfulDocs"}
      <4> HIDE DEF new
      <4> QED
        BY <1>2, <1>6, <3>1
    <3>2. CASE f \notin {"generatedDocs", "successfulRequests", "successfulDocs"}
      <4>1. new[f] = Visible(c, f)
        BY <1>6, <3>2
      <4> HIDE DEF new
      <4> QED
        BY <1>1, <4>1, VisibleNat
    <3> QED
      BY <3>1, <3>2
  <2>2. new = [f \in Field |-> new[f]]
    OBVIOUS
  <2> HIDE DEF new
  <2> QED
    BY <2>1, <2>2
<1> HIDE DEF new
<1>8. shown'[c] = new /\ shown' \in [Cores -> [Field -> Nat]]
      /\ \A d \in Cores : d # c => shown'[d] = shown[d]
  BY <1>1, <1>4, <1>5, <1>7
<1> QED
  BY <1>1, <1>6, <1>8

LEMMA LogsLoad ==
    ASSUME TallyInv, OwedFits, LogsFit, LoadNext
    PROVE  LogsFit'
<1>1. PICK c \in Cores : c = Order[logger] /\ LineFits(c)
  BY ReadingLine DEF LoadNext
<1>2. UNCHANGED <<queue, stats, owed, logger, shown>> /\ Reading
  BY DEF LoadNext, vars
<1>3. /\ line \in Seq(Nat) /\ Len(line) \in {0, 1, 2}
      /\ line' = Append(line, Visible(c, Loads[Len(line) + 1]))
  <2>1. line \in Seq(Nat)
    BY <1>1 DEF LineFits
  <2>2. PICK n : n = Len(line)
    OBVIOUS
  <2>3. n \in Nat /\ n < 3
    BY <2>1, <2>2, LoadsAre DEF LoadNext
  <2>4. line' = Append(line, Visible(c, Loads[Len(line) + 1]))
    BY <1>1 DEF LoadNext
  <2> QED
    BY <2>1, <2>2, <2>3, <2>4
<1>4. PICK v : v = Visible(c, Loads[Len(line) + 1])
  OBVIOUS
<1>5. v \in Nat
  <2>1. \A f \in Counter : Visible(c, f) \in Nat
    BY VisibleNat DEF Field
  <2>2. Loads[Len(line) + 1] \in Counter
    BY <1>3, LoadsAre DEF Counter
  <2> QED
    BY <1>4, <2>1, <2>2
<1>6. /\ line' \in Seq(Nat) /\ Len(line') = Len(line) + 1 /\ line'[Len(line) + 1] = v
      /\ \A i \in 1..Len(line) : line'[i] = line[i]
  BY <1>3, <1>4, <1>5
<1>7. PICK u : u = Visible(c, "successfulDocs")
  OBVIOUS
<1>8. /\ u \in Nat /\ u <= stats[c].generatedDocs
      /\ stats[c].successfulRequests <= Batches(u) + Cardinality(WorkersOf(c))
      /\ \A f \in Counter : stats[c][f] \in Nat
  BY <1>7, VisibleFits
<1>9. /\ shown[c].generatedDocs <= stats[c].generatedDocs /\ shown[c].successfulDocs <= u
      /\ shown[c].successfulRequests <= stats[c].successfulRequests
      /\ \A f \in Counter : shown[c][f] \in Nat
  BY <1>7, VisibleIs DEF LogsFit, ShownFits, Counter, Field
<1>10. Visible(c, "successfulDocs")' = u
  BY <1>2, <1>7, VisibleSame
<1>11. CASE Len(line) = 0
  <2>1. v = stats[c].generatedDocs
    BY <1>4, <1>11, LoadsAre, VisibleIs DEF Counter
  <2>2. Len(line') = 1 /\ line'[1] = v
    BY <1>6, <1>11
  <2>3. shown[c].successfulDocs <= stats[c].generatedDocs
    BY <1>8, <1>9 DEF Counter
  <2>4. LineFits(c)'
    <3>1. line' \in Seq(Nat)
      BY <1>6
    <3>2. ~(Len(line') >= 2) /\ ~(Len(line') >= 3) /\ Len(line') <= 3
      BY <2>2
    <3>3. /\ shown[c].generatedDocs <= line'[1] /\ shown[c].successfulDocs <= line'[1]
          /\ line'[1] <= stats[c].generatedDocs
      BY <1>8, <1>9, <2>1, <2>2, <2>3 DEF Counter
    <3> QED
      BY <1>2, <3>1, <3>2, <3>3 DEF LineFits
  <2> QED
    BY <1>1, <1>2, <2>4, <1>10, VisibleSame DEF LogsFit, ShownFits, Reading
<1>12. CASE Len(line) = 1
  <2>1. v = stats[c].successfulRequests
    BY <1>4, <1>12, LoadsAre, VisibleIs DEF Counter
  <2>2. Len(line') = 2 /\ line'[2] = v /\ line'[1] = line[1]
    BY <1>6, <1>12
  <2>3. /\ shown[c].generatedDocs <= line[1] /\ shown[c].successfulDocs <= line[1]
        /\ line[1] <= stats[c].generatedDocs
    BY <1>1, <1>12 DEF LineFits
  <2>4. LineFits(c)'
    <3>1. line' \in Seq(Nat)
      BY <1>6
    <3>2. ~(Len(line') >= 3) /\ Len(line') <= 3
      BY <2>2
    <3>3. /\ shown[c].generatedDocs <= line'[1] /\ shown[c].successfulDocs <= line'[1]
          /\ line'[1] <= stats[c].generatedDocs
      BY <2>2, <2>3
    <3>4. shown[c].successfulRequests <= line'[2] /\ line'[2] <= stats[c].successfulRequests
      BY <1>8, <1>9, <2>1, <2>2 DEF Counter
    <3> QED
      BY <1>2, <3>1, <3>2, <3>3, <3>4 DEF LineFits
  <2> QED
    BY <1>1, <1>2, <2>4, <1>10, VisibleSame DEF LogsFit, ShownFits, Reading
<1>13. CASE Len(line) = 2
  <2>1. v = u
    BY <1>4, <1>7, <1>13, LoadsAre
  <2>2. Len(line') = 3 /\ line'[3] = v /\ line'[2] = line[2] /\ line'[1] = line[1]
    BY <1>6, <1>13
  <2>3. line[2] <= Batches(u) + Cardinality(WorkersOf(c))
    <3>1. line[2] \in Nat /\ line[2] <= stats[c].successfulRequests
      BY <1>1, <1>3, <1>13 DEF LineFits
    <3>2. Batches(u) \in Nat /\ Cardinality(WorkersOf(c)) \in Nat
          /\ stats[c].successfulRequests \in Nat
      BY <1>8, BatchesType, Pools DEF Counter
    <3> QED
      BY <1>8, <3>1, <3>2
  <2>4. LineFits(c)'
    BY <1>1, <1>2, <1>6, <1>8, <1>9, <1>10, <1>13, <2>1, <2>2, <2>3 DEF LineFits, Counter
  <2> QED
    BY <1>1, <1>2, <2>4, <1>10, VisibleSame DEF LogsFit, ShownFits, Reading
<1> QED
  BY <1>3, <1>11, <1>12, <1>13

LEMMA LogsLine ==
    ASSUME TallyInv, OwedFits, LogsFit, LogLine
    PROVE  LogsFit'
<1>1. PICK c : c = Order[logger]
  OBVIOUS
<1>2. UNCHANGED <<queue, stats, owed>> /\ line' = <<>> /\ Reading
      /\ logger' = IF logger < Len(Order) THEN logger + 1 ELSE Select
  BY DEF LogLine, vars
<1>3. /\ c \in Cores /\ LineFits(c) /\ Len(line) = 3
      /\ \A d \in Cores : d # c => shown'[d] = shown[d]
      /\ shown'[c].generatedDocs = line[1]
      /\ shown'[c].successfulRequests = line[2]
      /\ shown'[c].successfulDocs = line[3]
      /\ \A f \in Field \ {"generatedDocs", "successfulRequests", "successfulDocs"} :
            shown'[c][f] = Visible(c, f)
      /\ shown' \in [Cores -> [Field -> Nat]]
  BY <1>1, LogLineIs
<1>4. logger' \in 0..Returned
  BY <1>2, OrderIs DEF Reading, Select, Returned
<1>5. ASSUME NEW d \in Cores PROVE ShownFits(d)'
  <2>1. \A f : Visible(d, f)' = Visible(d, f)
    BY <1>2, VisibleSame
  <2>2. CASE d # c
    <3>1. shown'[d] = shown[d]
      BY <1>3, <2>2
    <3>2. ShownFits(d)
      BY DEF LogsFit
    <3> QED
      BY <2>1, <3>1, <3>2 DEF ShownFits
  <2>3. CASE d = c
    <3>1. /\ line[1] <= stats[c].generatedDocs /\ line[2] <= stats[c].successfulRequests
          /\ line[3] <= Visible(c, "successfulDocs")
          /\ line[2] <= Batches(line[3]) + Cardinality(WorkersOf(c))
      BY <1>3 DEF LineFits
    <3>2. \A f \in Field : Visible(c, f) \in Nat
      BY <1>3, VisibleNat
    <3>3. ASSUME NEW f \in Counter PROVE shown'[c][f] <= Visible(c, f)
      <4>1. CASE f \in {"generatedDocs", "successfulRequests", "successfulDocs"}
        BY <1>3, <3>1, <4>1, VisibleIs DEF Counter
      <4>2. CASE f \notin {"generatedDocs", "successfulRequests", "successfulDocs"}
        BY <1>3, <3>2, <4>2 DEF Field
      <4> QED
        BY <4>1, <4>2
    <3> QED
      BY <1>3, <2>1, <2>3, <3>1, <3>3 DEF ShownFits
  <2> QED
    BY <2>2, <2>3
<1> QED
  BY <1>2, <1>3, <1>4, <1>5 DEF LogsFit

LEMMA LogsFinal ==
    ASSUME TallyInv, OwedFits, LogsFit, LogFinalTotals
    PROVE  /\ LogsFit'
           /\ \A c \in Cores : \A f \in Field : shown'[c][f] = Visible(c, f)
<1>1. /\ UNCHANGED <<queue, stats, owed, line, logger>> /\ logger = Returned
      /\ shown' = [c \in Cores |-> [f \in Field |-> Visible(c, f)]]
  BY DEF LogFinalTotals, LogAll
<1>2. line' = <<>>
  BY <1>1, OrderIs DEF LogsFit, Reading
<1>3. shown' \in [Cores -> [Field -> Nat]]
  BY <1>1, VisibleNat
<1>4. ASSUME NEW c \in Cores PROVE ShownFits(c)'
  <2>1. \A f : Visible(c, f)' = Visible(c, f)
    BY <1>1, VisibleSame
  <2>2. \A f \in Field : shown'[c][f] = Visible(c, f) /\ Visible(c, f) \in Nat
    BY <1>1, VisibleNat
  <2>3. /\ shown'[c].successfulRequests = stats[c].successfulRequests
        /\ shown'[c].successfulDocs = Visible(c, "successfulDocs")
    BY <2>2, VisibleIs DEF Field, Counter
  <2>4. shown'[c].successfulRequests
          <= Batches(shown'[c].successfulDocs) + Cardinality(WorkersOf(c))
    BY <2>3, VisibleFits
  <2>5. \A f \in Counter : shown'[c][f] <= Visible(c, f)
    BY <2>2 DEF Field
  <2> QED
    BY <2>1, <2>4, <2>5 DEF ShownFits
<1> QED
  BY <1>1, <1>2, <1>3, <1>4 DEF LogsFit

(* A step of the logger that shows nothing. *)
LEMMA LogsTurn ==
    ASSUME TallyInv, OwedFits, TallyInv', OwedFits', LogsFit, \A c \in Cores : Grown(c),
           Tick \/ LoggerReturns
    PROVE  LogsFit'
<1>1. UNCHANGED <<line, shown>> /\ logger = Select /\ logger' \in {1, Returned}
  BY DEF Tick, LoggerReturns
<1>2. line = <<>>
  BY <1>1, OrderIs DEF LogsFit, Reading
<1>3. logger' \in 0..Returned
  BY <1>1, OrderIs DEF Returned
<1>4. \A c \in Cores : ShownFits(c)'
  BY <1>1, ShownGrows
<1> QED
  BY <1>1, <1>2, <1>3, <1>4 DEF LogsFit

LEMMA LogsNext ==
    ASSUME TallyInv, OwedFits, TallyInv', OwedFits', LogsFit, [ProgNext]_allVars
    PROVE  LogsFit'
<1>1. \A c \in Cores : Grown(c)
  BY GrownNext
<1>2. CASE \/ \E c \in Cores : ProgProduce(c)
           \/ \E w \in Workers : ProgWork(w) \/ AddDocs(w)
           \/ ProgCoordinate \/ StopLogs \/ UNCHANGED allVars
  <2>1. UNCHANGED <<logger, line, shown>>
    BY <1>2 DEF ProgProduce, ProgWork, AddDocs, ProgCoordinate, StopLogs, progVars, allVars
  <2> QED
    BY <1>1, <2>1, LogsKept
<1>3. CASE LogProgress
  BY <1>1, <1>3, LogsTurn, LogsLoad, LogsLine DEF LogProgress
<1>4. CASE LogFinalTotals
  BY <1>4, LogsFinal
<1> QED
  BY <1>2, <1>3, <1>4 DEF ProgNext

(* After the totals nothing happens any more. *)
LEMMA FinalNext ==
    ASSUME TallyInv, OwedFits, WorkersGone, LogsFit, FinalShown, [ProgNext]_allVars
    PROVE  FinalShown'
<1> SUFFICES ASSUME phase' = "finished"
             PROVE  /\ ~logging' /\ logger' = Returned
                    /\ \A c \in Cores : \A f \in Field : shown'[c][f] = Visible(c, f)'
  BY DEF FinalShown
<1>1. CASE LogFinalTotals
  <2>1. \A c \in Cores : \A f \in Field : shown'[c][f] = Visible(c, f)
    BY <1>1, LogsFinal
  <2>2. UNCHANGED <<queue, stats, owed, logging, logger>> /\ ~logging /\ logger = Returned
    BY <1>1 DEF LogFinalTotals
  <2>3. \A c, f : Visible(c, f)' = Visible(c, f)
    BY <2>2, VisibleSame
  <2> QED
    BY <2>1, <2>2, <2>3
<1>2. CASE ~LogFinalTotals
  <2>1. AllReturned
    BY DEF TallyInv, CleanInv, ShutdownInv
  <2>2. phase = "finished"
    BY <1>2, ReturnedProducer, ReturnedWorker
       DEF ProgNext, ProgProduce, ProgWork, AddDocs, LogProgress, Tick, LoadNext, LogLine,
           LoggerReturns, ProgCoordinate, Shutdown, ProducersJoined, ShutdownTimeout,
           StopLogs, vars, allVars
  <2>3. ~logging /\ logger = Returned
    BY <2>2 DEF FinalShown
  <2>4. (\A c \in Cores : prod[c] = "returned") /\ \A w \in Workers : pc[w] = "returned"
    BY <2>1, <2>2 DEF AllReturned
  <2>5. UNCHANGED allVars
    <3>1. ~\E c \in Cores : ProgProduce(c)
      BY <2>4, ReturnedProducer DEF ProgProduce
    <3>2. ~\E w \in Workers : ProgWork(w) \/ AddDocs(w)
      BY <2>4, ReturnedWorker DEF ProgWork, AddDocs, OwedFits
    <3>3. ~LogProgress
      BY <2>3, OrderIs DEF LogProgress, Tick, LoadNext, LogLine, LoggerReturns, Reading
    <3>4. ~ProgCoordinate /\ ~StopLogs
      BY <2>3 DEF ProgCoordinate, StopLogs
    <3> QED
      BY <1>2, <3>1, <3>2, <3>3, <3>4 DEF ProgNext
  <2>6. UNCHANGED <<queue, stats, owed, shown, logging, logger>>
    BY <2>5 DEF allVars
  <2>7. \A c, f : Visible(c, f)' = Visible(c, f)
    BY <2>6, VisibleSame
  <2> QED
    BY <2>2, <2>3, <2>6, <2>7 DEF FinalShown
<1> QED
  BY <1>1, <1>2

LEMMA ProgInvInit == ProgInit => ProgInv
<1> SUFFICES ASSUME ProgInit PROVE ProgInv
  OBVIOUS
<1>1. TallyInv
  BY TallyInit DEF ProgInit
<1>2. WorkersGone /\ FinalShown
  BY DEF ProgInit, Init, WorkersGone, FinalShown
<1>3. owed \in [Workers -> 0..BatchSize] /\ \A w \in Workers : owed[w] = 0
  BY LimitAssumption DEF ProgInit
<1>4. \A c \in Cores : Owed(c) = 0
  BY <1>3, OwedNone, OwedIs
<1>5. \A c \in Cores : stats[c].successfulDocs \in Nat
  BY <1>1 DEF TallyInv, OrderInv, AccountInv, TypeInv, TypeOK, CoreSnapshot
<1>6. OwedFits
  BY <1>3, <1>4, <1>5 DEF OwedFits
<1>7. LogsFit
  <2>1. /\ logger = Select /\ line = <<>>
        /\ shown = [c \in Cores |-> [f \in Field |-> 0]]
    BY DEF ProgInit
  <2>2. logger \in 0..Returned
    BY <2>1, OrderIs DEF Select
  <2>3. shown \in [Cores -> [Field -> Nat]]
    BY <2>1
  <2>4. ASSUME NEW c \in Cores PROVE ShownFits(c)
    <3>1. \A f \in Field : shown[c][f] = 0 /\ Visible(c, f) \in Nat
      BY <1>1, <1>6, <2>1, VisibleNat
    <3>2. \A f \in Counter : shown[c][f] <= Visible(c, f)
      BY <3>1 DEF Field
    <3>3. shown[c].successfulRequests = 0 /\ shown[c].successfulDocs = 0
      BY <3>1 DEF Field, Counter
    <3>4. Batches(0) = 0 /\ Cardinality(WorkersOf(c)) \in Nat
      BY BatchesNone, Pools
    <3> QED
      BY <3>2, <3>3, <3>4 DEF ShownFits
  <2> QED
    BY <2>1, <2>2, <2>3, <2>4 DEF LogsFit
<1> QED
  BY <1>1, <1>2, <1>6, <1>7 DEF ProgInv

LEMMA ProgInvNext == ProgInv /\ [ProgNext]_allVars => ProgInv'
<1> SUFFICES ASSUME ProgInv, [ProgNext]_allVars PROVE ProgInv'
  OBVIOUS
<1> USE DEF ProgInv
<1>1. [Next]_vars
  BY ProgSteps DEF allVars, vars
<1>2. TallyInv'
  BY <1>1, TallyNext
<1>3. WorkersGone'
  BY WorkersGoneNext
<1>4. OwedFits'
  BY GrownNext
<1>5. LogsFit'
  BY <1>2, <1>4, LogsNext
<1>6. FinalShown'
  BY FinalNext
<1> QED
  BY <1>2, <1>3, <1>4, <1>5, <1>6

-----------------------------------------------------------------------------
(* A line shows no more requests than its documents came in, apart from one   *)
(* for each worker of the core (stats.go:31-34, 48-57).                       *)
THEOREM LinesTornByWorkersOnly == ProgSpec => []TornByWorkersOnly
<1>1. ProgInv => TornByWorkersOnly
  BY DEF ProgInv, LogsFit, ShownFits, TornByWorkersOnly
<1> QED
  BY <1>1, ProgInvInit, ProgInvNext, PTL DEF ProgSpec

(* When Run has returned its last lines are the truth (runner.go:152-168).    *)
THEOREM LastLineIsTrue == ProgSpec => []FinalLineTrue
<1>1. ProgInv => FinalLineTrue
  <2> SUFFICES ASSUME ProgInv, phase = "finished", NEW c \in Cores
               PROVE  /\ \A f \in Counter : shown[c][f] = stats[c][f]
                      /\ shown[c].successfulRequests = Batches(shown[c].successfulDocs)
                      /\ ~forced => shown[c].queueDepth = 0
    BY DEF FinalLineTrue
  <2>1. TallyInv /\ OwedFits /\ \A f \in Field : shown[c][f] = Visible(c, f)
    BY DEF ProgInv, FinalShown
  <2>2. \A w \in Workers : pc[w] = "returned"
    BY <2>1 DEF TallyInv, CleanInv, ShutdownInv, AllReturned
  <2>3. Owed(c) = 0
    BY <2>1, <2>2, OwedNone, OwedIs DEF OwedFits
  <2>4. stats[c].successfulDocs \in Nat
    BY <2>1, VisibleFits DEF Counter
  <2>5. \A f \in Counter : Visible(c, f) = stats[c][f]
    <3>1. Visible(c, "successfulDocs") = stats[c].successfulDocs
      BY <2>3, <2>4, VisibleIs
    <3> QED
      BY <3>1, VisibleIs
  <2>6. \A f \in Counter : shown[c][f] = stats[c][f]
    BY <2>1, <2>5 DEF Field
  <2>7. stats[c].successfulRequests = Batches(stats[c].successfulDocs)
    BY <2>1 DEF TallyInv, CleanInv, Tidy, SentCounted, Tallied, BatchesCounted
  <2>8. ASSUME ~forced PROVE shown[c].queueDepth = 0
    <3>1. PICK w \in Workers : CoreOf[w] = c
      BY PoolAssumption DEF WorkersOf
    <3>2. queue[c] = <<>>
      BY <2>1, <2>2, <2>8, <3>1 DEF TallyInv, CleanInv, Tidy, Drained
    <3>3. Visible(c, "queueDepth") = 0
      BY <3>2, VisibleIs
    <3> QED
      BY <2>1, <3>3 DEF Field
  <2> QED
    BY <2>6, <2>7, <2>8 DEF Counter
<1> QED
  BY <1>1, ProgInvInit, ProgInvNext, PTL DEF ProgSpec

(* The lines of a core never go back, and what one line counts as sent the    *)
(* next one counts as generated (runner.go:164-168, stats.go:48-57).          *)
THEOREM LinesGoForward == ProgSpec => LinesNeverGoBack
<1> DEFINE Forward(c) == LET old == shown[c]  new == shown'[c]
                         IN  /\ \A f \in Counter : old[f] <= new[f]
                             /\ old # new => old.successfulDocs <= new.generatedDocs
<1>1. ASSUME ProgInv, [ProgNext]_allVars PROVE \A c \in Cores : Forward(c)
  <2> USE <1>1 DEF ProgInv
  <2>1. ASSUME NEW c \in Cores, shown'[c] = shown[c] PROVE Forward(c)
    <3>1. shown[c] \in [Field -> Nat]
      BY DEF LogsFit
    <3>2. \A f \in Counter : shown[c][f] \in Nat
      BY <3>1 DEF Field
    <3> QED
      BY <2>1, <3>2
  <2>2. ASSUME NEW c \in Cores
        PROVE  /\ \A f \in Counter : shown[c][f] <= Visible(c, f) /\ shown[c][f] \in Nat
               /\ \A f \in Field : Visible(c, f) \in Nat
               /\ shown[c].successfulDocs <= Visible(c, "generatedDocs")
    <3>1. \A f \in Counter : shown[c][f] <= Visible(c, f) /\ shown[c][f] \in Nat
      BY DEF LogsFit, ShownFits, Field
    <3>2. \A f \in Field : Visible(c, f) \in Nat
      BY VisibleNat
    <3>3. PICK v, g, s : /\ v = Visible(c, "successfulDocs") /\ g = Visible(c, "generatedDocs")
                         /\ s = shown[c].successfulDocs
      OBVIOUS
    <3>4. v <= g
      BY <3>3, VisibleFits, VisibleIs DEF Counter
    <3>5. s <= v /\ s \in Nat /\ v \in Nat /\ g \in Nat
      BY <3>1, <3>2, <3>3 DEF Counter, Field
    <3>6. s <= g
      BY <3>4, <3>5
    <3> QED
      BY <3>1, <3>2, <3>3, <3>6
  <2>3. CASE LogLine
    <3>1. PICK d : d = Order[logger]
      OBVIOUS
    <3>2. /\ d \in Cores /\ LineFits(d) /\ Len(line) = 3
          /\ \A c \in Cores : c # d => shown'[c] = shown[c]
          /\ shown'[d].generatedDocs = line[1]
          /\ shown'[d].successfulRequests = line[2]
          /\ shown'[d].successfulDocs = line[3]
          /\ \A f \in Field \ {"generatedDocs", "successfulRequests", "successfulDocs"} :
                shown'[d][f] = Visible(d, f)
      BY <2>3, <3>1, LogLineIs
    <3>3. /\ shown[d].generatedDocs <= line[1] /\ shown[d].successfulDocs <= line[1]
          /\ shown[d].successfulRequests <= line[2] /\ shown[d].successfulDocs <= line[3]
      BY <3>2 DEF LineFits
    <3>4. ASSUME NEW f \in Counter PROVE shown[d][f] <= shown'[d][f]
      <4>1. CASE f \in {"generatedDocs", "successfulRequests", "successfulDocs"}
        BY <3>2, <3>3, <4>1
      <4>2. CASE f \notin {"generatedDocs", "successfulRequests", "successfulDocs"}
        BY <2>2, <3>2, <4>2 DEF Field
      <4> QED
        BY <4>1, <4>2
    <3>5. Forward(d)
      BY <3>2, <3>3, <3>4
    <3> QED
      BY <2>1, <3>2, <3>5
  <2>4. CASE LogFinalTotals
    <3>1. ASSUME NEW c \in Cores PROVE Forward(c)
      <4>1. \A f \in Field : shown'[c][f] = Visible(c, f)
        BY <2>4, LogsFinal
      <4>2. \A f \in Counter : shown'[c][f] = Visible(c, f)
        BY <4>1 DEF Field
      <4> QED
        BY <2>2, <4>2 DEF Counter
    <3> QED
      BY <3>1
  <2>5. CASE ~LogLine /\ ~LogFinalTotals
    <3>1. UNCHANGED shown
      BY <2>5 DEF ProgNext, ProgProduce, ProgWork, AddDocs, LogProgress, Tick, LoadNext,
                  LoggerReturns, ProgCoordinate, StopLogs, progVars, allVars
    <3> QED
      BY <2>1, <3>1
  <2> QED
    BY <2>3, <2>4, <2>5
<1> QED
  BY <1>1, ProgInvInit, ProgInvNext, PTL DEF ProgSpec, LinesNeverGoBack
=============================================================================
