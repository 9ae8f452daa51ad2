------------------------ MODULE SeederPipelineProofs ------------------------
(* Theorems about the pipeline, for every number of cores, workers, documents *)
(* and attempts, every batch size and every set of answers.                   *)
EXTENDS SeederPipelineLedger, Functions, FiniteSetTheorems, SequenceTheorems,
        WellFoundedInduction, TLAPS

-----------------------------------------------------------------------------
(* Facts about sequences of sets of documents. *)

LEMMA DocSetFacts ==
    /\ {} \in DocSet
    /\ \A D \in DocSet : D \subseteq Nat /\ Cardinality(D) \in Nat
    /\ \A D, E \in DocSet : D \cup E \in DocSet
    /\ \A D \in DocSet, d \in Nat : D \cup {d} \in DocSet
<1>1. {} \in DocSet
  BY FS_EmptySet DEF DocSet
<1>2. ASSUME NEW D \in DocSet PROVE D \subseteq Nat /\ Cardinality(D) \in Nat
  BY FS_CardinalityType DEF DocSet
<1>3. ASSUME NEW D \in DocSet, NEW E \in DocSet PROVE D \cup E \in DocSet
  BY FS_Union DEF DocSet
<1>4. ASSUME NEW D \in DocSet, NEW d \in Nat PROVE D \cup {d} \in DocSet
  BY FS_AddElement DEF DocSet
<1> QED
  BY <1>1, <1>2, <1>3, <1>4

(* Counting keeps a record of counters a record of counters. *)
LEMMA SnapshotStep ==
    ASSUME NEW s \in CoreSnapshot, NEW n \in Nat
    PROVE  /\ [s EXCEPT !.generatedDocs = @ + 1] \in CoreSnapshot
           /\ [s EXCEPT !.retryAttempts = @ + 1] \in CoreSnapshot
           /\ [s EXCEPT !.terminalFailures = @ + 1] \in CoreSnapshot
           /\ [s EXCEPT !.droppedBatches = @ + 1] \in CoreSnapshot
           /\ [s EXCEPT !.successfulRequests = @ + 1, !.successfulDocs = @ + n] \in CoreSnapshot
<1>1. [s EXCEPT !.generatedDocs = @ + 1] \in CoreSnapshot
  BY DEF CoreSnapshot
<1>2. [s EXCEPT !.retryAttempts = @ + 1] \in CoreSnapshot
  BY DEF CoreSnapshot
<1>3. [s EXCEPT !.terminalFailures = @ + 1] \in CoreSnapshot
  BY DEF CoreSnapshot
<1>4. [s EXCEPT !.droppedBatches = @ + 1] \in CoreSnapshot
  BY DEF CoreSnapshot
<1>5. [s EXCEPT !.successfulRequests = @ + 1, !.successfulDocs = @ + n] \in CoreSnapshot
  <2>1. [s EXCEPT !.successfulRequests = @ + 1] \in CoreSnapshot
    BY DEF CoreSnapshot
  <2>2. \A t \in CoreSnapshot : [t EXCEPT !.successfulDocs = @ + n] \in CoreSnapshot
    BY DEF CoreSnapshot
  <2> QED
    BY <2>1, <2>2
<1> QED
  BY <1>1, <1>2, <1>3, <1>4, <1>5

-----------------------------------------------------------------------------
(* Type correctness.  A worker that waits to retry has an attempt left.       *)
AttemptLeft == \A w \in Workers : pc[w] = "backoff" => attempt[w] < RetryAttempts

TypeInv == TypeOK /\ AttemptLeft

LEMMA TypeInit == Init => TypeInv
<1> SUFFICES ASSUME Init PROVE TypeInv
  OBVIOUS
<1>1. {} \in DocSet
  BY DocSetFacts
<1>2. queue \in [Cores -> Seq(DocSet)]
  BY DEF Init
<1>3. stats \in [Cores -> CoreSnapshot]
  BY DEF Init, CoreSnapshot
<1>4. settled \in [Cores -> [Outcome -> DocSet]]
  BY <1>1 DEF Init
<1>5. phase \in Phase /\ forced \in BOOLEAN /\ prod \in [Cores -> ProdPc]
  BY DEF Init, Phase, ProdPc
<1>6. pc \in [Workers -> WorkerPc] /\ AttemptLeft
  BY DEF Init, WorkerPc, AttemptLeft
<1>7. attempt \in [Workers -> 0..RetryAttempts]
  BY LimitAssumption DEF Init
<1>8. batch \in [Cores -> DocSet] /\ job \in [Workers -> DocSet]
  BY <1>1 DEF Init
<1> QED
  BY <1>2, <1>3, <1>4, <1>5, <1>6, <1>7, <1>8 DEF TypeInv, TypeOK

LEMMA TypeProduce ==
    ASSUME TypeInv, NEW c \in Cores, Produce(c)
    PROVE  TypeInv'
<1> USE DEF TypeInv, TypeOK, AttemptLeft
<1>1. CASE KeepGoing(c)
  BY <1>1 DEF KeepGoing, ProdPc
<1>2. CASE Generate(c)
  <2> DEFINE doc == stats[c].generatedDocs + 1
  <2>1. doc \in Nat
    BY DEF CoreSnapshot
  <2>2. batch' \in [Cores -> DocSet]
    BY <1>2, <2>1, DocSetFacts DEF Generate
  <2>3. stats' \in [Cores -> CoreSnapshot]
    BY <1>2, <2>1 DEF Generate, CoreSnapshot
  <2>4. prod' \in [Cores -> ProdPc]
    BY <1>2 DEF Generate, ProdPc
  <2> QED
    BY <1>2, <2>2, <2>3, <2>4 DEF Generate
<1>3. ASSUME SendBatch(c) \/ FlushPartial(c) PROVE TypeInv'
  <2>1. queue' \in [Cores -> Seq(DocSet)]
    <3>1. Append(queue[c], batch[c]) \in Seq(DocSet)
      BY AppendProperties
    <3> QED
      BY <1>3, <3>1 DEF SendBatch, FlushPartial
  <2>2. batch' \in [Cores -> DocSet]
    BY <1>3, DocSetFacts DEF SendBatch, FlushPartial
  <2>3. prod' \in [Cores -> ProdPc]
    BY <1>3 DEF SendBatch, FlushPartial, ProdPc
  <2> QED
    BY <1>3, <2>1, <2>2, <2>3 DEF SendBatch, FlushPartial
<1>4. CASE SendInterrupted(c) \/ StopEmpty(c)
  BY <1>4 DEF SendInterrupted, StopEmpty, ProdPc
<1>5. CASE DropPartial(c)
  <2>1. settled' \in [Cores -> [Outcome -> DocSet]]
    BY <1>5, DocSetFacts DEF DropPartial, Settle, Outcome
  <2>2. batch' \in [Cores -> DocSet]
    BY <1>5, DocSetFacts DEF DropPartial
  <2>3. stats' \in [Cores -> CoreSnapshot]
    <3>1. [stats[c] EXCEPT !.droppedBatches = @ + 1] \in CoreSnapshot
      BY SnapshotStep
    <3> QED
      BY <1>5, <3>1 DEF DropPartial
  <2>4. prod' \in [Cores -> ProdPc]
    BY <1>5 DEF DropPartial, ProdPc
  <2> QED
    BY <1>5, <2>1, <2>2, <2>3, <2>4 DEF DropPartial
<1> QED
  BY <1>1, <1>2, <1>3, <1>4, <1>5 DEF Produce

LEMMA TypeRelease ==
    ASSUME TypeInv, NEW w \in Workers, NEW outcome \in Outcome, Release(w, outcome)
    PROVE  /\ settled' \in [Cores -> [Outcome -> DocSet]]
           /\ job' \in [Workers -> DocSet]
           /\ attempt' \in [Workers -> 0..RetryAttempts]
           /\ pc' \in [Workers -> WorkerPc]
           /\ AttemptLeft'
<1> USE DEF TypeInv, TypeOK
<1>1. CoreOf[w] \in Cores
  BY PoolAssumption
<1>2. settled' \in [Cores -> [Outcome -> DocSet]]
  BY <1>1, DocSetFacts DEF Release, Settle
<1>3. job' \in [Workers -> DocSet]
  BY DocSetFacts DEF Release
<1>4. attempt' \in [Workers -> 0..RetryAttempts]
  BY LimitAssumption DEF Release
<1>5. pc' \in [Workers -> WorkerPc]
  BY LimitAssumption DEF Release, WorkerPc
<1>6. AttemptLeft'
  BY LimitAssumption DEF Release, AttemptLeft
<1> QED
  BY <1>2, <1>3, <1>4, <1>5, <1>6

LEMMA TypeAfterPost ==
    ASSUME TypeInv, NEW w \in Workers, NEW err, AfterPost(w, err)
    PROVE  TypeInv'
<1>1. CoreOf[w] \in Cores
  BY PoolAssumption
<1>2. stats[CoreOf[w]] \in CoreSnapshot
  BY <1>1 DEF TypeInv, TypeOK
<1>3. ASSUME NEW outcome \in Outcome, Release(w, outcome), stats' \in [Cores -> CoreSnapshot]
      PROVE  TypeInv'
  BY <1>3, TypeRelease DEF AfterPost, TypeInv, TypeOK
<1>4. CASE Succeed(w, err)
  <2>1. Cardinality(job[w]) \in Nat
    BY DocSetFacts DEF TypeInv, TypeOK
  <2>2. [stats[CoreOf[w]] EXCEPT !.successfulRequests = @ + 1,
                                 !.successfulDocs = @ + Cardinality(job[w])] \in CoreSnapshot
    BY <1>2, <2>1, SnapshotStep
  <2>3. stats' \in [Cores -> CoreSnapshot]
    BY <1>4, <2>2 DEF Succeed, TypeInv, TypeOK
  <2> QED
    BY <1>4, <2>3, <1>3 DEF Succeed, Outcome
<1>5. CASE GiveUpCanceled(w, err)
  BY <1>5, <1>3 DEF GiveUpCanceled, TypeInv, TypeOK, Outcome
<1>6. CASE GiveUp(w, err)
  <2>1. [stats[CoreOf[w]] EXCEPT !.terminalFailures = @ + 1] \in CoreSnapshot
    BY <1>2, SnapshotStep
  <2>2. stats' \in [Cores -> CoreSnapshot]
    BY <1>6, <2>1 DEF GiveUp, TypeInv, TypeOK
  <2> QED
    BY <1>6, <2>2, <1>3 DEF GiveUp, Outcome
<1>7. CASE ScheduleRetry(w, err)
  <2>1. [stats[CoreOf[w]] EXCEPT !.retryAttempts = @ + 1] \in CoreSnapshot
    BY <1>2, SnapshotStep
  <2>2. stats' \in [Cores -> CoreSnapshot]
    BY <1>7, <2>1 DEF ScheduleRetry, TypeInv, TypeOK
  <2>3. pc' \in [Workers -> WorkerPc] /\ AttemptLeft'
    BY <1>7, LimitAssumption DEF ScheduleRetry, TypeInv, TypeOK, WorkerPc, AttemptLeft
  <2> QED
    BY <1>7, <2>2, <2>3 DEF AfterPost, ScheduleRetry, TypeInv, TypeOK
<1> QED
  BY <1>4, <1>5, <1>6, <1>7 DEF AfterPost

LEMMA TypeWork ==
    ASSUME TypeInv, NEW w \in Workers, Work(w)
    PROVE  TypeInv'
<1> USE DEF TypeInv, TypeOK, AttemptLeft
<1>1. CASE ReceiveJob(w)
  <2> DEFINE c == CoreOf[w]
  <2>1. c \in Cores /\ queue[c] \in Seq(DocSet)
    BY PoolAssumption
  <2>2. Head(queue[c]) \in DocSet /\ Tail(queue[c]) \in Seq(DocSet)
    BY <1>1, <2>1, HeadTailProperties DEF ReceiveJob
  <2>3. queue' \in [Cores -> Seq(DocSet)] /\ job' \in [Workers -> DocSet]
    BY <1>1, <2>1, <2>2 DEF ReceiveJob
  <2>4. attempt' \in [Workers -> 0..RetryAttempts] /\ pc' \in [Workers -> WorkerPc]
    BY <1>1, LimitAssumption DEF ReceiveJob, StartRequest, WorkerPc
  <2>5. AttemptLeft'
    BY <1>1, LimitAssumption DEF ReceiveJob, StartRequest
  <2> QED
    BY <1>1, <2>3, <2>4, <2>5 DEF ReceiveJob
<1>2. CASE ReturnIdle(w) \/ SleepElapsed(w) \/ SleepCanceled(w)
  BY <1>2 DEF ReturnIdle, SleepElapsed, SleepCanceled, WorkerPc
<1>3. CASE PostEnds(w) \/ RequestTimeout(w) \/ RequestCanceled(w)
  BY <1>3, TypeAfterPost DEF PostEnds, RequestTimeout, RequestCanceled
<1>4. CASE BackoffElapsed(w)
  <2>1. attempt[w] + 1 \in 0..RetryAttempts
    BY <1>4, LimitAssumption DEF BackoffElapsed
  <2>2. attempt' \in [Workers -> 0..RetryAttempts] /\ pc' \in [Workers -> WorkerPc]
    BY <1>4, <2>1 DEF BackoffElapsed, StartRequest, WorkerPc
  <2>3. AttemptLeft'
    BY <1>4, <2>1 DEF BackoffElapsed, StartRequest
  <2> QED
    BY <1>4, <2>2, <2>3 DEF BackoffElapsed
<1>5. CASE BackoffCanceled(w)
  <2>1. "canceled" \in Outcome /\ Release(w, "canceled")
    BY <1>5 DEF BackoffCanceled, Outcome
  <2> QED
    BY <1>5, <2>1, TypeRelease DEF BackoffCanceled
<1> QED
  BY <1>1, <1>2, <1>3, <1>4, <1>5 DEF Work, WorkAlone

LEMMA TypeNext == TypeInv /\ [Next]_vars => TypeInv'
<1> SUFFICES ASSUME TypeInv, [Next]_vars PROVE TypeInv'
  OBVIOUS
<1>1. CASE \E c \in Cores : Produce(c)
  BY <1>1, TypeProduce
<1>2. CASE \E w \in Workers : Work(w)
  BY <1>2, TypeWork
<1>3. CASE Shutdown \/ Coordinate
  BY <1>3 DEF Shutdown, Coordinate, ProducersJoined, ShutdownTimeout, Finish,
              TypeInv, TypeOK, AttemptLeft, Phase
<1>4. CASE UNCHANGED vars
  BY <1>4 DEF vars, TypeInv, TypeOK, AttemptLeft
<1> QED
  BY <1>1, <1>2, <1>3, <1>4 DEF Next

(* Every variable keeps its type; in particular no batch is ever posted more  *)
(* than RetryAttempts times (worker.go:141).                                  *)
THEOREM TypeCorrect == Spec => []TypeOK
<1>1. TypeInv => TypeOK
  BY DEF TypeInv
<1> QED
  BY <1>1, TypeInit, TypeNext, PTL DEF Spec

-----------------------------------------------------------------------------
(* How the documents of a family of sets change with the family. *)

(* One member grows by the set E, which may be all it has. *)
LEMMA DocsInGrow ==
    ASSUME NEW f, NEW g, NEW x \in DOMAIN f, NEW E,
           DOMAIN g = DOMAIN f, g[x] = f[x] \cup E,
           \A y \in DOMAIN f : y # x => g[y] = f[y]
    PROVE  /\ DocsIn(g) = DocsIn(f) \cup E
           /\ PairwiseDisjoint(f) /\ E \cap DocsIn(f) = {} => PairwiseDisjoint(g)
<1>1. DocsIn(g) = DocsIn(f) \cup E
  BY DEF DocsIn
<1>2. ASSUME PairwiseDisjoint(f), E \cap DocsIn(f) = {} PROVE PairwiseDisjoint(g)
  <2>1. \A y \in DOMAIN f : f[y] \cap E = {}
    BY <1>2 DEF DocsIn
  <2> QED
    BY <1>2, <2>1 DEF PairwiseDisjoint
<1> QED
  BY <1>1, <1>2

(* An outcome takes the documents D. *)
LEMMA DocsInSettled ==
    ASSUME NEW f \in [Outcome -> DocSet], NEW o \in Outcome, NEW D,
           NEW g, g = [f EXCEPT ![o] = f[o] \cup D],
           PairwiseDisjoint(f), D \cap DocsIn(f) = {}
    PROVE  DocsIn(g) = DocsIn(f) \cup D /\ PairwiseDisjoint(g)
<1>1. DOMAIN f = Outcome /\ DOMAIN g = Outcome
  OBVIOUS
<1>2. \A p \in Outcome : g[p] = IF p = o THEN f[o] \cup D ELSE f[p]
  OBVIOUS
<1>3. DocsIn(g) = DocsIn(f) \cup D
  BY <1>1, <1>2 DEF DocsIn
<1>4. \A p \in Outcome : f[p] \cap D = {}
  BY <1>1 DEF DocsIn
<1>5. PairwiseDisjoint(g)
  BY <1>1, <1>2, <1>4 DEF PairwiseDisjoint
<1> QED
  BY <1>3, <1>5

(* One member is emptied. *)
LEMMA DocsInEmpty ==
    ASSUME NEW f, NEW g, NEW x \in DOMAIN f, PairwiseDisjoint(f),
           DOMAIN g = DOMAIN f, g[x] = {},
           \A y \in DOMAIN f : y # x => g[y] = f[y]
    PROVE  /\ DocsIn(g) = DocsIn(f) \ f[x]
           /\ f[x] \subseteq DocsIn(f)
           /\ PairwiseDisjoint(g)
<1>1. \A y \in DOMAIN f : y # x => f[y] \cap f[x] = {}
  BY DEF PairwiseDisjoint
<1>2. DocsIn(g) = DocsIn(f) \ f[x]
  BY <1>1 DEF DocsIn
<1>3. f[x] \subseteq DocsIn(f)
  BY DEF DocsIn
<1>4. PairwiseDisjoint(g)
  BY DEF PairwiseDisjoint
<1> QED
  BY <1>2, <1>3, <1>4

(* The channel takes a batch at its end. *)
LEMMA DocsInAppend ==
    ASSUME NEW q \in Seq(DocSet), NEW D \in DocSet
    PROVE  /\ DocsIn(Append(q, D)) = DocsIn(q) \cup D
           /\ PairwiseDisjoint(q) /\ D \cap DocsIn(q) = {} => PairwiseDisjoint(Append(q, D))
<1> DEFINE r == Append(q, D)
<1>1. DOMAIN q = 1..Len(q) /\ Len(q) \in Nat
  OBVIOUS
<1>2. DOMAIN r = 1..(Len(q) + 1)
  BY AppendProperties
<1>3. \A i \in 1..Len(q) : r[i] = q[i]
  BY AppendProperties
<1>4. r[Len(q) + 1] = D
  BY AppendProperties
<1> HIDE DEF r
<1>5. DOMAIN r = DOMAIN q \cup {Len(q) + 1} /\ Len(q) + 1 \notin DOMAIN q
  BY <1>1, <1>2
<1>6. DocsIn(r) = DocsIn(q) \cup D
  BY <1>1, <1>3, <1>4, <1>5 DEF DocsIn
<1>7. ASSUME PairwiseDisjoint(q), D \cap DocsIn(q) = {} PROVE PairwiseDisjoint(r)
  <2>1. \A i \in DOMAIN q : q[i] \cap D = {}
    BY <1>7 DEF DocsIn
  <2> QED
    BY <1>1, <1>3, <1>4, <1>5, <1>7, <2>1 DEF PairwiseDisjoint
<1> QED
  BY <1>6, <1>7 DEF r

(* The channel gives the batch at its head. *)
LEMMA DocsInTail ==
    ASSUME NEW q \in Seq(DocSet), q # <<>>, PairwiseDisjoint(q)
    PROVE  /\ DocsIn(Tail(q)) = DocsIn(q) \ Head(q)
           /\ Head(q) \subseteq DocsIn(q)
           /\ PairwiseDisjoint(Tail(q))
<1> DEFINE t == Tail(q)
<1>1. DOMAIN q = 1..Len(q) /\ Len(q) \in Nat /\ Len(q) > 0
  BY EmptySeq
<1>2. Head(q) = q[1]
  OBVIOUS
<1>3. t \in Seq(DocSet) /\ Len(t) = Len(q) - 1
  BY HeadTailProperties
<1>4. DOMAIN t = 1..(Len(q) - 1)
  BY <1>3
<1>5. \A i \in DOMAIN t : t[i] = q[i + 1] /\ i + 1 \in DOMAIN q /\ i + 1 # 1
  BY <1>1, <1>3, <1>4, HeadTailProperties
<1> HIDE DEF t
<1>6. \A i \in DOMAIN q : i # 1 => i - 1 \in DOMAIN t /\ t[i - 1] = q[i]
  <2> SUFFICES ASSUME NEW i \in DOMAIN q, i # 1 PROVE i - 1 \in DOMAIN t /\ t[i - 1] = q[i]
    OBVIOUS
  <2>1. i - 1 \in DOMAIN t
    BY <1>1, <1>4
  <2>2. t[i - 1] = q[(i - 1) + 1]
    BY <1>5, <2>1
  <2> QED
    BY <1>1, <2>1, <2>2
<1>7. \A i \in DOMAIN q : i # 1 => q[i] \cap q[1] = {}
  BY <1>1 DEF PairwiseDisjoint
<1>8. DocsIn(t) \subseteq DocsIn(q) \ q[1]
  BY <1>5, <1>7 DEF DocsIn
<1>9. DocsIn(q) \ q[1] \subseteq DocsIn(t)
  BY <1>6 DEF DocsIn
<1>10. q[1] \subseteq DocsIn(q)
  BY <1>1 DEF DocsIn
<1>11. PairwiseDisjoint(t)
  <2> SUFFICES ASSUME NEW i \in DOMAIN t, NEW j \in DOMAIN t, i # j PROVE t[i] \cap t[j] = {}
    BY DEF PairwiseDisjoint
  <2>1. i + 1 # j + 1
    BY <1>1, <1>4
  <2> QED
    BY <1>5, <2>1 DEF PairwiseDisjoint
<1> QED
  BY <1>2, <1>8, <1>9, <1>10, <1>11 DEF t

-----------------------------------------------------------------------------
(* The inductive invariant: accounting needs to know that a worker takes a    *)
(* batch with empty hands only.                                               *)
HandsEmpty == \A w \in Workers : pc[w] \notin {"post", "doomed", "backoff"} => job[w] = {}

AccountInv == TypeInv /\ DocsAccounted /\ HandsEmpty

(* A core that a step leaves alone stays accounted for. *)
LEMMA AccountedSame ==
    ASSUME NEW c \in Cores, Accounted(c),
           batch'[c] = batch[c], queue'[c] = queue[c], settled'[c] = settled[c],
           stats'[c].generatedDocs = stats[c].generatedDocs,
           \A w \in WorkersOf(c) : job'[w] = job[w]
    PROVE  Accounted(c)'
<1>1. JobsOf(c)' = JobsOf(c)
  BY DEF JobsOf
<1> QED
  BY <1>1 DEF Accounted, Queued, Sending, Settled

(* The generator's next document is new. *)
LEMMA AccountedGenerate ==
    ASSUME AccountInv, NEW c \in Cores, Generate(c)
    PROVE  Accounted(c)'
<1> DEFINE n == stats[c].generatedDocs
<1>1. Accounted(c) /\ n \in Nat
  BY DEF AccountInv, DocsAccounted, TypeInv, TypeOK, CoreSnapshot
<1>2. batch'[c] = batch[c] \cup {n + 1} /\ stats'[c].generatedDocs = n + 1
  BY DEF Generate, AccountInv, TypeInv, TypeOK, CoreSnapshot
<1>3. queue'[c] = queue[c] /\ settled'[c] = settled[c] /\ JobsOf(c)' = JobsOf(c)
  BY DEF Generate, JobsOf
<1>4. 1..(n + 1) = (1..n) \cup {n + 1} /\ n + 1 \notin 1..n
  BY <1>1
<1> QED
  BY <1>1, <1>2, <1>3, <1>4 DEF Accounted, Queued, Sending, Settled

(* A batch goes from its producer to the channel. *)
LEMMA AccountedEnqueue ==
    ASSUME AccountInv, NEW c \in Cores, SendBatch(c) \/ FlushPartial(c)
    PROVE  Accounted(c)'
<1>1. Accounted(c) /\ queue[c] \in Seq(DocSet) /\ batch[c] \in DocSet
  BY DEF AccountInv, DocsAccounted, TypeInv, TypeOK
<1>2. batch'[c] = {} /\ queue'[c] = Append(queue[c], batch[c])
  BY DEF SendBatch, FlushPartial, AccountInv, TypeInv, TypeOK
<1>3. settled'[c] = settled[c] /\ JobsOf(c)' = JobsOf(c) /\ stats'[c] = stats[c]
  BY DEF SendBatch, FlushPartial, JobsOf
<1>4. /\ DocsIn(queue'[c]) = DocsIn(queue[c]) \cup batch[c]
      /\ PairwiseDisjoint(queue'[c])
  BY <1>1, <1>2, DocsInAppend DEF Accounted, Queued
<1> QED
  BY <1>1, <1>2, <1>3, <1>4 DEF Accounted, Queued, Sending, Settled

(* A batch is dropped. *)
LEMMA AccountedDrop ==
    ASSUME AccountInv, NEW c \in Cores, DropPartial(c)
    PROVE  Accounted(c)'
<1>1. Accounted(c) /\ settled[c] \in [Outcome -> DocSet] /\ "dropped" \in Outcome
  BY DEF AccountInv, DocsAccounted, TypeInv, TypeOK, Outcome
<1>2. batch'[c] = {}
  BY DEF DropPartial, AccountInv, TypeInv, TypeOK
<1>3. settled'[c] = [settled[c] EXCEPT !["dropped"] = settled[c]["dropped"] \cup batch[c]]
  BY DEF DropPartial, Settle, AccountInv, TypeInv, TypeOK
<1>4. stats'[c].generatedDocs = stats[c].generatedDocs
  BY DEF DropPartial, AccountInv, TypeInv, TypeOK, CoreSnapshot
<1>5. queue'[c] = queue[c] /\ JobsOf(c)' = JobsOf(c)
  BY DEF DropPartial, JobsOf
<1>6. /\ DocsIn(settled'[c]) = DocsIn(settled[c]) \cup batch[c]
      /\ PairwiseDisjoint(settled'[c])
  BY <1>1, <1>3, DocsInSettled DEF Accounted, Settled
<1> QED
  BY <1>1, <1>2, <1>4, <1>5, <1>6 DEF Accounted, Queued, Sending, Settled

(* A worker takes a batch. *)
LEMMA ReceiveMoves ==
    ASSUME AccountInv, NEW w \in Workers, NEW c, c = CoreOf[w], ReceiveJob(w)
    PROVE  /\ Queued(c)' = Queued(c) \ Head(queue[c])
           /\ Sending(c)' = Sending(c) \cup Head(queue[c])
           /\ Settled(c)' = Settled(c)
           /\ Head(queue[c]) \subseteq Queued(c)
           /\ PairwiseDisjoint(queue'[c])
           /\ PairwiseDisjoint(JobsOf(c)')
<1>1. c \in Cores /\ w \in WorkersOf(c)
  BY PoolAssumption DEF WorkersOf
<1>2. Accounted(c) /\ queue[c] \in Seq(DocSet) /\ queue[c] # <<>>
  BY <1>1 DEF AccountInv, DocsAccounted, TypeInv, TypeOK, ReceiveJob
<1>3. JobsOf(c) \in [WorkersOf(c) -> DocSet] /\ JobsOf(c)[w] = {}
  BY <1>1 DEF AccountInv, TypeInv, TypeOK, JobsOf, WorkersOf, HandsEmpty, ReceiveJob
<1>4. queue'[c] = Tail(queue[c])
  BY <1>1 DEF ReceiveJob, AccountInv, TypeInv, TypeOK
<1>5. /\ w \in DOMAIN JobsOf(c)
      /\ DOMAIN JobsOf(c)' = DOMAIN JobsOf(c)
      /\ JobsOf(c)'[w] = JobsOf(c)[w] \cup Head(queue[c])
      /\ \A v \in DOMAIN JobsOf(c) : v # w => JobsOf(c)'[v] = JobsOf(c)[v]
  <2>1. \A v \in WorkersOf(c) : job'[v] = IF v = w THEN Head(queue[c]) ELSE job[v]
    BY <1>1 DEF ReceiveJob, AccountInv, TypeInv, TypeOK, WorkersOf
  <2> QED
    BY <1>1, <1>3, <2>1 DEF JobsOf
<1>6. batch'[c] = batch[c] /\ settled'[c] = settled[c] /\ stats'[c] = stats[c]
  BY DEF ReceiveJob
<1>7. /\ DocsIn(queue'[c]) = DocsIn(queue[c]) \ Head(queue[c])
      /\ Head(queue[c]) \subseteq DocsIn(queue[c])
      /\ PairwiseDisjoint(queue'[c])
  BY <1>2, <1>4, DocsInTail DEF Accounted
<1>8. Head(queue[c]) \cap DocsIn(JobsOf(c)) = {}
  BY <1>2, <1>7 DEF Accounted, Queued, Sending
<1>9. /\ DocsIn(JobsOf(c)') = DocsIn(JobsOf(c)) \cup Head(queue[c])
      /\ PairwiseDisjoint(JobsOf(c)')
  <2>1. PairwiseDisjoint(JobsOf(c))
    BY <1>2 DEF Accounted
  <2> QED
    BY <1>5, <1>8, <2>1, DocsInGrow
<1>10. /\ Queued(c)' = Queued(c) \ Head(queue[c])
       /\ Sending(c)' = Sending(c) \cup Head(queue[c])
       /\ Settled(c)' = Settled(c)
  BY <1>6, <1>7, <1>9 DEF Queued, Sending, Settled
<1> QED
  BY <1>7, <1>9, <1>10 DEF Queued

LEMMA AccountedReceive ==
    ASSUME AccountInv, NEW w \in Workers, NEW c, c = CoreOf[w], ReceiveJob(w)
    PROVE  Accounted(c)'
<1>1. Accounted(c)
  BY PoolAssumption DEF AccountInv, DocsAccounted
<1>2. batch'[c] = batch[c] /\ settled'[c] = settled[c] /\ stats'[c] = stats[c]
  BY DEF ReceiveJob
<1> QED
  BY <1>1, <1>2, ReceiveMoves DEF Accounted

(* A worker lets go of a batch. *)
LEMMA ReleaseMoves ==
    ASSUME AccountInv, NEW w \in Workers, NEW c, c = CoreOf[w],
           NEW outcome \in Outcome, Release(w, outcome)
    PROVE  /\ Sending(c)' = Sending(c) \ job[w]
           /\ Settled(c)' = Settled(c) \cup job[w]
           /\ job[w] \subseteq Sending(c)
           /\ PairwiseDisjoint(JobsOf(c)')
           /\ PairwiseDisjoint(settled'[c])
<1>1. c \in Cores /\ w \in WorkersOf(c)
  BY PoolAssumption DEF WorkersOf
<1>2. Accounted(c) /\ settled[c] \in [Outcome -> DocSet]
  BY <1>1 DEF AccountInv, DocsAccounted, TypeInv, TypeOK
<1>3. JobsOf(c) \in [WorkersOf(c) -> DocSet] /\ JobsOf(c)[w] = job[w]
  BY <1>1 DEF AccountInv, TypeInv, TypeOK, JobsOf, WorkersOf
<1>4. /\ w \in DOMAIN JobsOf(c)
      /\ DOMAIN JobsOf(c)' = DOMAIN JobsOf(c)
      /\ JobsOf(c)'[w] = {}
      /\ \A v \in DOMAIN JobsOf(c) : v # w => JobsOf(c)'[v] = JobsOf(c)[v]
  <2>1. \A v \in WorkersOf(c) : job'[v] = IF v = w THEN {} ELSE job[v]
    BY <1>1 DEF Release, AccountInv, TypeInv, TypeOK, WorkersOf
  <2> QED
    BY <1>1, <1>3, <2>1 DEF JobsOf
<1>5. settled'[c] = [settled[c] EXCEPT ![outcome] = settled[c][outcome] \cup job[w]]
  BY <1>1 DEF Release, Settle, AccountInv, TypeInv, TypeOK
<1>6. /\ DocsIn(JobsOf(c)') = DocsIn(JobsOf(c)) \ job[w]
      /\ job[w] \subseteq DocsIn(JobsOf(c))
      /\ PairwiseDisjoint(JobsOf(c)')
  <2>1. PairwiseDisjoint(JobsOf(c))
    BY <1>2 DEF Accounted
  <2>2. /\ DocsIn(JobsOf(c)') = DocsIn(JobsOf(c)) \ JobsOf(c)[w]
        /\ JobsOf(c)[w] \subseteq DocsIn(JobsOf(c))
        /\ PairwiseDisjoint(JobsOf(c)')
    BY <1>4, <2>1, DocsInEmpty
  <2> QED
    BY <1>3, <2>2
<1>7. job[w] \cap DocsIn(settled[c]) = {}
  BY <1>2, <1>6 DEF Accounted, Sending, Settled
<1>8. /\ DocsIn(settled'[c]) = DocsIn(settled[c]) \cup job[w]
      /\ PairwiseDisjoint(settled'[c])
  BY <1>2, <1>5, <1>7, DocsInSettled DEF Accounted
<1> QED
  BY <1>6, <1>8 DEF Sending, Settled

LEMMA AccountedRelease ==
    ASSUME AccountInv, NEW w \in Workers, NEW c, c = CoreOf[w],
           NEW outcome \in Outcome, Release(w, outcome),
           UNCHANGED <<batch, queue>>,
           stats'[c].generatedDocs = stats[c].generatedDocs
    PROVE  Accounted(c)'
<1>1. Accounted(c)
  BY PoolAssumption DEF AccountInv, DocsAccounted
<1>2. /\ Queued(c)' = Queued(c)
      /\ Sending(c)' = Sending(c) \ job[w]
      /\ Settled(c)' = Settled(c) \cup job[w]
      /\ job[w] \subseteq Sending(c)
      /\ PairwiseDisjoint(JobsOf(c)')
      /\ PairwiseDisjoint(settled'[c])
  BY ReleaseMoves DEF Queued
<1>3. /\ batch[c] \cap (Queued(c)' \cup Sending(c)' \cup Settled(c)') = {}
      /\ batch[c] \cup Queued(c)' \cup Sending(c)' \cup Settled(c)'
            = batch[c] \cup Queued(c) \cup Sending(c) \cup Settled(c)
  BY <1>1, <1>2 DEF Accounted
<1>4. /\ Queued(c)' \cap (Sending(c)' \cup Settled(c)') = {}
      /\ Sending(c)' \cap Settled(c)' = {}
  BY <1>1, <1>2 DEF Accounted
<1>5. PairwiseDisjoint(queue'[c])
  BY <1>1 DEF Accounted
<1> QED
  BY <1>1, <1>2, <1>3, <1>4, <1>5 DEF Accounted

LEMMA AccountInit == Init => AccountInv
<1> SUFFICES ASSUME Init PROVE AccountInv
  OBVIOUS
<1>1. TypeInv
  BY TypeInit
<1>2. HandsEmpty
  BY DEF Init, HandsEmpty
<1>3. ASSUME NEW c \in Cores PROVE Accounted(c)
  <2>1. Queued(c) = {} /\ PairwiseDisjoint(queue[c])
    BY DEF Init, Queued, DocsIn, PairwiseDisjoint
  <2>2. Sending(c) = {} /\ PairwiseDisjoint(JobsOf(c))
    BY DEF Init, Sending, JobsOf, WorkersOf, DocsIn, PairwiseDisjoint
  <2>3. Settled(c) = {} /\ PairwiseDisjoint(settled[c])
    BY DEF Init, Settled, DocsIn, PairwiseDisjoint
  <2>4. batch[c] = {} /\ 1..stats[c].generatedDocs = {}
    BY DEF Init
  <2> QED
    BY <2>1, <2>2, <2>3, <2>4 DEF Accounted
<1> QED
  BY <1>1, <1>2, <1>3 DEF AccountInv, DocsAccounted

(* A step of a producer or a worker disturbs one core only. *)
LEMMA AccountProduce ==
    ASSUME AccountInv, NEW c \in Cores, Produce(c)
    PROVE  DocsAccounted' /\ HandsEmpty'
<1> USE DEF AccountInv, DocsAccounted
<1>1. HandsEmpty'
  BY DEF HandsEmpty, Produce, KeepGoing, Generate, SendBatch, SendInterrupted,
         StopEmpty, FlushPartial, DropPartial
<1>2. ASSUME NEW d \in Cores, d # c PROVE Accounted(d)'
  <2>1. /\ batch'[d] = batch[d] /\ queue'[d] = queue[d] /\ settled'[d] = settled[d]
        /\ stats'[d].generatedDocs = stats[d].generatedDocs
        /\ job' = job
    BY <1>2 DEF Produce, KeepGoing, Generate, SendBatch, SendInterrupted, StopEmpty,
                FlushPartial, DropPartial, Settle, TypeInv, TypeOK
  <2> QED
    BY <2>1, AccountedSame
<1>3. Accounted(c)'
  <2>1. CASE KeepGoing(c) \/ SendInterrupted(c) \/ StopEmpty(c)
    BY <2>1, AccountedSame DEF KeepGoing, SendInterrupted, StopEmpty
  <2> QED
    BY <2>1, AccountedGenerate, AccountedEnqueue, AccountedDrop DEF Produce
<1> QED
  BY <1>1, <1>2, <1>3

LEMMA HandsAfterRelease ==
    ASSUME AccountInv, NEW w \in Workers, NEW outcome, Release(w, outcome)
    PROVE  HandsEmpty'
BY DEF AccountInv, TypeInv, TypeOK, HandsEmpty, Release

LEMMA AccountWork ==
    ASSUME AccountInv, NEW w \in Workers, Work(w)
    PROVE  DocsAccounted' /\ HandsEmpty'
<1> DEFINE c == CoreOf[w]
<1> USE DEF AccountInv, DocsAccounted
<1>1. c \in Cores
  BY PoolAssumption
<1>2. ASSUME NEW outcome \in Outcome, Release(w, outcome), UNCHANGED <<batch, queue>>,
             \A d \in Cores : stats'[d].generatedDocs = stats[d].generatedDocs
      PROVE  DocsAccounted' /\ HandsEmpty'
  <2>1. Accounted(c)'
    BY <1>1, <1>2, AccountedRelease
  <2>2. ASSUME NEW d \in Cores, d # c PROVE Accounted(d)'
    <3>1. settled'[d] = settled[d] /\ \A v \in WorkersOf(d) : job'[v] = job[v]
      BY <1>2, <2>2 DEF Release, Settle, WorkersOf, TypeInv, TypeOK
    <3> QED
      BY <1>2, <3>1, AccountedSame
  <2> QED
    BY <1>2, <2>1, <2>2, HandsAfterRelease
<1>3. CASE ReceiveJob(w)
  <2>1. Accounted(c)'
    BY <1>3, AccountedReceive
  <2>2. ASSUME NEW d \in Cores, d # c PROVE Accounted(d)'
    <3>1. queue'[d] = queue[d] /\ \A v \in WorkersOf(d) : job'[v] = job[v]
      BY <1>3, <2>2 DEF ReceiveJob, WorkersOf, TypeInv, TypeOK
    <3> QED
      BY <1>3, <3>1, AccountedSame DEF ReceiveJob
  <2>3. HandsEmpty'
    BY <1>3 DEF ReceiveJob, StartRequest, HandsEmpty, TypeInv, TypeOK
  <2> QED
    BY <2>1, <2>2, <2>3
<1>4. ASSUME NEW err, AfterPost(w, err), pc[w] \in {"post", "doomed"}
      PROVE  DocsAccounted' /\ HandsEmpty'
  <2>1. \A d \in Cores : stats'[d].generatedDocs = stats[d].generatedDocs
    <3>1. CASE Succeed(w, err)
      BY <1>1, <3>1 DEF Succeed, TypeInv, TypeOK, CoreSnapshot
    <3>2. CASE GiveUpCanceled(w, err)
      BY <3>2 DEF GiveUpCanceled
    <3>3. CASE GiveUp(w, err)
      BY <1>1, <3>3 DEF GiveUp, TypeInv, TypeOK, CoreSnapshot
    <3>4. CASE ScheduleRetry(w, err)
      BY <1>1, <3>4 DEF ScheduleRetry, TypeInv, TypeOK, CoreSnapshot
    <3> QED
      BY <1>4, <3>1, <3>2, <3>3, <3>4 DEF AfterPost
  <2>2. UNCHANGED <<batch, queue>>
    BY <1>4 DEF AfterPost
  <2>3. CASE Succeed(w, err) \/ GiveUpCanceled(w, err) \/ GiveUp(w, err)
    BY <1>2, <2>1, <2>2, <2>3 DEF Succeed, GiveUpCanceled, GiveUp, Outcome
  <2>4. CASE ScheduleRetry(w, err)
    <3>1. HandsEmpty'
      BY <1>4, <2>4 DEF ScheduleRetry, HandsEmpty, TypeInv, TypeOK
    <3>2. DocsAccounted'
      BY <2>1, <2>2, <2>4, AccountedSame DEF ScheduleRetry
    <3> QED
      BY <3>1, <3>2
  <2> QED
    BY <1>4, <2>3, <2>4 DEF AfterPost
<1>5. CASE PostEnds(w) \/ RequestTimeout(w) \/ RequestCanceled(w)
  BY <1>4, <1>5 DEF PostEnds, RequestTimeout, RequestCanceled
<1>6. CASE BackoffCanceled(w)
  BY <1>2, <1>6 DEF BackoffCanceled, Outcome
<1>7. CASE ReturnIdle(w) \/ BackoffElapsed(w) \/ SleepElapsed(w) \/ SleepCanceled(w)
  <2>1. HandsEmpty'
    BY <1>7 DEF ReturnIdle, BackoffElapsed, SleepElapsed, SleepCanceled, StartRequest,
                HandsEmpty, TypeInv, TypeOK
  <2>2. UNCHANGED <<batch, queue, settled, stats, job>>
    BY <1>7 DEF ReturnIdle, BackoffElapsed, SleepElapsed, SleepCanceled
  <2>3. DocsAccounted'
    BY <2>2, AccountedSame
  <2> QED
    BY <2>1, <2>3
<1> QED
  BY <1>3, <1>5, <1>6, <1>7 DEF Work, WorkAlone

LEMMA AccountNext == AccountInv /\ [Next]_vars => AccountInv'
<1> SUFFICES ASSUME AccountInv, [Next]_vars PROVE AccountInv'
  OBVIOUS
<1>1. TypeInv'
  BY TypeNext DEF AccountInv
<1>2. CASE \E c \in Cores : Produce(c)
  BY <1>1, <1>2, AccountProduce DEF AccountInv
<1>3. CASE \E w \in Workers : Work(w)
  BY <1>1, <1>3, AccountWork DEF AccountInv
<1>4. CASE Shutdown \/ Coordinate \/ UNCHANGED vars
  <2>1. UNCHANGED <<batch, queue, settled, stats, job, pc>>
    BY <1>4 DEF Shutdown, Coordinate, ProducersJoined, ShutdownTimeout, Finish, vars
  <2>2. DocsAccounted' /\ HandsEmpty'
    BY <2>1, AccountedSame DEF AccountInv, DocsAccounted, HandsEmpty
  <2> QED
    BY <1>1, <2>2 DEF AccountInv
<1> QED
  BY <1>2, <1>3, <1>4 DEF Next

(* No document is lost, none is held twice: at every moment each document a   *)
(* core has generated is in exactly one place.                                *)
THEOREM DocsAlwaysAccounted == Spec => []DocsAccounted
<1>1. AccountInv => DocsAccounted
  BY DEF AccountInv
<1> QED
  BY <1>1, AccountInit, AccountNext, PTL DEF Spec

-----------------------------------------------------------------------------
(* The end of the shutdown: Run returns after every goroutine that counts.    *)
AllReturned ==
    /\ phase \in {"draining", "forcing", "finished"} => \A c \in Cores : prod[c] = "returned"
    /\ phase = "finished" => \A w \in Workers : pc[w] = "returned"

ShutdownInv == TypeInv /\ AllReturned

LEMMA ShutdownInit == Init => ShutdownInv
BY TypeInit DEF ShutdownInv, AllReturned, Init

LEMMA ReturnedProducer ==
    ASSUME NEW c \in Cores, Produce(c)
    PROVE  prod[c] # "returned" /\ UNCHANGED <<phase, pc>>
BY DEF Produce, KeepGoing, Generate, SendBatch, SendInterrupted, StopEmpty,
       FlushPartial, DropPartial

LEMMA ReturnedWorker ==
    ASSUME NEW w \in Workers, Work(w)
    PROVE  pc[w] # "returned" /\ UNCHANGED <<phase, prod>>
BY DEF Work, WorkAlone, ReceiveJob, ReturnIdle, PostEnds, RequestTimeout, RequestCanceled,
       BackoffElapsed, BackoffCanceled, SleepElapsed, SleepCanceled, AfterPost

LEMMA ShutdownNext == ShutdownInv /\ [Next]_vars => ShutdownInv'
<1> SUFFICES ASSUME ShutdownInv, [Next]_vars PROVE ShutdownInv'
  OBVIOUS
<1>1. TypeInv'
  BY TypeNext DEF ShutdownInv
<1>2. CASE \E c \in Cores : Produce(c)
  BY <1>1, <1>2, ReturnedProducer DEF ShutdownInv, AllReturned
<1>3. CASE \E w \in Workers : Work(w)
  BY <1>1, <1>3, ReturnedWorker DEF ShutdownInv, AllReturned
<1>4. CASE Shutdown \/ Coordinate \/ UNCHANGED vars
  BY <1>1, <1>4 DEF Shutdown, Coordinate, ProducersJoined, ShutdownTimeout, Finish, vars,
                    ShutdownInv, AllReturned
<1> QED
  BY <1>2, <1>3, <1>4 DEF Next

(* The totals logged when Run returns are final.                              *)
THEOREM TotalsAreFinal == Spec => FinalTotalsStable
<1>1. ShutdownInv /\ [Next]_vars => [phase = "finished" => UNCHANGED <<stats, settled, queue>>]_vars
  <2> SUFFICES ASSUME ShutdownInv, Next, phase = "finished"
               PROVE  UNCHANGED <<stats, settled, queue>>
    BY DEF vars
  <2>1. (\A c \in Cores : ~Produce(c)) /\ (\A w \in Workers : ~Work(w))
    BY ReturnedProducer, ReturnedWorker DEF ShutdownInv, AllReturned
  <2> QED
    BY <2>1 DEF Next, Shutdown, Coordinate, ProducersJoined, ShutdownTimeout, Finish
<1> QED
  BY <1>1, ShutdownInit, ShutdownNext, PTL DEF Spec, FinalTotalsStable

-----------------------------------------------------------------------------
(* What the final totals mean.  As long as the timer has not struck, a worker *)
(* returns only from a closed and empty channel and nothing is canceled; the  *)
(* documents counted as sent are those that were.                             *)
BatchesOut   == \A c \in Cores : prod[c] = "returned" => batch[c] = {}
Drained      == ~forced => \A w \in Workers :
                   pc[w] = "returned" => Closed(CoreOf[w]) /\ queue[CoreOf[w]] = <<>>
NoneCanceled == ~forced => \A c \in Cores : settled[c]["canceled"] = {}
SentCounted  == \A c \in Cores : stats[c].successfulDocs = Cardinality(settled[c]["sent"])

Tidy     == BatchesOut /\ Drained /\ NoneCanceled /\ SentCounted
CleanInv == AccountInv /\ ShutdownInv /\ Tidy

(* No exchange ends as a cancellation unless its context was canceled. *)
LEMMA NotCanceled ==
    /\ \A x \in Answers : ~IsCanceled(PostBatch(x))
    /\ \A x \in ContextEnds("deadline") : ~IsCanceled(PostBatch(x))
<1>1. \A x \in Answers : ~IsCanceled(PostBatch(x))
  BY AnswerAssumption DEF IsCanceled
<1>2. ASSUME NEW x \in ContextEnds("deadline") PROVE ~IsCanceled(PostBatch(x))
  <2>1. CASE x.do = "deadline"
    <3>1. PostBatch(x) = ClientError(0, TRUE, "deadline")
      BY <2>1 DEF PostBatch, DoError
    <3> QED
      BY <3>1 DEF ClientError, IsCanceled
  <2>2. CASE x.do = "answered" /\ x.read = "deadline"
    <3>1. PostBatch(x) = ClientError(x.status, FALSE, "deadline")
      BY <2>2 DEF PostBatch, ReadError
    <3> QED
      BY <3>1 DEF ClientError, IsCanceled
  <2> QED
    BY <2>1, <2>2 DEF ContextEnds
<1> QED
  BY <1>1, <1>2

LEMMA TidyInit == Init => Tidy
<1> SUFFICES ASSUME Init PROVE Tidy
  OBVIOUS
<1>1. BatchesOut /\ Drained
  BY DEF Init, BatchesOut, Drained
<1>2. \A c \in Cores, o \in Outcome : settled[c][o] = {}
  BY DEF Init
<1>3. NoneCanceled
  BY <1>2 DEF NoneCanceled, Outcome
<1>4. SentCounted
  <2> SUFFICES ASSUME NEW c \in Cores
               PROVE  stats[c].successfulDocs = Cardinality(settled[c]["sent"])
    BY DEF SentCounted
  <2>1. settled[c]["sent"] = {}
    BY <1>2 DEF Outcome
  <2>2. stats[c].successfulDocs = 0
    BY DEF Init
  <2> QED
    BY <2>1, <2>2, FS_EmptySet
<1> QED
  BY <1>1, <1>3, <1>4 DEF Tidy

LEMMA TidyProduce ==
    ASSUME CleanInv, NEW c \in Cores, Produce(c)
    PROVE  Tidy'
<1> USE DEF CleanInv, AccountInv, TypeInv, TypeOK, Tidy
<1>1. UNCHANGED <<forced, pc>> /\ prod[c] # "returned"
  BY ReturnedProducer DEF Produce, KeepGoing, Generate, SendBatch, SendInterrupted,
         StopEmpty, FlushPartial, DropPartial
<1>2. \A d \in Cores \ {c} : /\ prod'[d] = prod[d] /\ batch'[d] = batch[d]
                             /\ queue'[d] = queue[d]
  BY DEF Produce, KeepGoing, Generate, SendBatch, SendInterrupted, StopEmpty,
         FlushPartial, DropPartial
<1>3. BatchesOut'
  <2>1. prod'[c] = "returned" => batch'[c] = {}
    BY DEF Produce, KeepGoing, Generate, SendBatch, SendInterrupted, StopEmpty,
           FlushPartial, DropPartial
  <2> QED
    BY <1>2, <2>1 DEF BatchesOut
<1>4. Drained'
  <2> SUFFICES ASSUME ~forced, NEW w \in Workers, pc[w] = "returned"
               PROVE  Closed(CoreOf[w])' /\ queue'[CoreOf[w]] = <<>>
    BY <1>1 DEF Drained
  <2>1. Closed(CoreOf[w]) /\ queue[CoreOf[w]] = <<>> /\ CoreOf[w] \in Cores
    BY PoolAssumption DEF Drained
  <2>2. CoreOf[w] # c
    BY <1>1, <2>1 DEF Closed
  <2> QED
    BY <1>2, <2>1, <2>2 DEF Closed
<1>5. \A d \in Cores : /\ settled'[d]["canceled"] = settled[d]["canceled"]
                       /\ settled'[d]["sent"] = settled[d]["sent"]
  <2>1. CASE DropPartial(c)
    <3>1. settled'[c] = [settled[c] EXCEPT !["dropped"] = settled[c]["dropped"] \cup batch[c]]
      BY <2>1 DEF DropPartial, Settle
    <3>2. settled[c] \in [Outcome -> DocSet] /\ {"canceled", "sent", "dropped"} \subseteq Outcome
      BY DEF Outcome
    <3>3. \A d \in Cores \ {c} : settled'[d] = settled[d]
      BY <2>1 DEF DropPartial, Settle
    <3>4. /\ settled'[c]["canceled"] = settled[c]["canceled"]
          /\ settled'[c]["sent"] = settled[c]["sent"]
      BY <3>1, <3>2
    <3> QED
      BY <3>3, <3>4
  <2>2. CASE ~DropPartial(c)
    BY <2>2 DEF Produce, KeepGoing, Generate, SendBatch, SendInterrupted, StopEmpty, FlushPartial
  <2> QED
    BY <2>1, <2>2
<1>6. \A d \in Cores : stats'[d].successfulDocs = stats[d].successfulDocs
  <2>1. CASE DropPartial(c)
    BY <2>1 DEF DropPartial, CoreSnapshot
  <2>2. CASE Generate(c)
    <3>1. stats' = [stats EXCEPT ![c].generatedDocs = stats[c].generatedDocs + 1]
      BY <2>2 DEF Generate
    <3>2. \A d \in Cores : stats[d] \in CoreSnapshot
      OBVIOUS
    <3> QED
      BY <3>1, <3>2 DEF CoreSnapshot
  <2>3. CASE ~DropPartial(c) /\ ~Generate(c)
    BY <2>3 DEF Produce, KeepGoing, SendBatch, SendInterrupted, StopEmpty, FlushPartial
  <2> QED
    BY <2>1, <2>2, <2>3
<1>7. NoneCanceled' /\ SentCounted'
  BY <1>1, <1>5, <1>6 DEF NoneCanceled, SentCounted
<1> QED
  BY <1>3, <1>4, <1>7

(* A batch that was sent is counted with as many documents as it adds. *)
LEMMA SentIsCounted ==
    ASSUME CleanInv, NEW w \in Workers, NEW err, Succeed(w, err)
    PROVE  SentCounted'
<1> DEFINE c == CoreOf[w]
<1> USE DEF CleanInv, AccountInv, TypeInv, TypeOK, Tidy
<1>1. c \in Cores /\ w \in WorkersOf(c)
  BY PoolAssumption DEF WorkersOf
<1>2. settled[c]["sent"] \in DocSet /\ job[w] \in DocSet
  BY <1>1 DEF Outcome
<1>3. job[w] \cap settled[c]["sent"] = {}
  <2>1. job[w] \subseteq Sending(c)
    <3>1. w \in DOMAIN JobsOf(c) /\ JobsOf(c)[w] = job[w]
      BY <1>1 DEF JobsOf
    <3> QED
      BY <3>1 DEF Sending, DocsIn
  <2>2. settled[c]["sent"] \subseteq Settled(c)
    <3>1. "sent" \in DOMAIN settled[c]
      BY <1>1 DEF Outcome
    <3> QED
      BY <3>1 DEF Settled, DocsIn
  <2>3. Sending(c) \cap Settled(c) = {}
    BY <1>1 DEF DocsAccounted, Accounted
  <2> QED
    BY <2>1, <2>2, <2>3
<1>4. settled'[c]["sent"] = settled[c]["sent"] \cup job[w]
  BY <1>1 DEF Succeed, Release, Settle, Outcome
<1>5. Cardinality(settled'[c]["sent"]) = Cardinality(settled[c]["sent"]) + Cardinality(job[w])
  <2>1. IsFiniteSet(settled[c]["sent"]) /\ IsFiniteSet(job[w])
    BY <1>2 DEF DocSet
  <2>2. Cardinality(settled[c]["sent"] \cup job[w])
          = Cardinality(settled[c]["sent"]) + Cardinality(job[w])
            - Cardinality(settled[c]["sent"] \cap job[w])
    BY <2>1, FS_Union
  <2>3. Cardinality(settled[c]["sent"] \cap job[w]) = 0
    BY <1>3, FS_EmptySet
  <2>4. Cardinality(settled[c]["sent"]) \in Nat /\ Cardinality(job[w]) \in Nat
    BY <1>2, DocSetFacts
  <2> QED
    BY <1>4, <2>2, <2>3, <2>4
<1>6. stats'[c].successfulDocs = stats[c].successfulDocs + Cardinality(job[w])
  BY <1>1 DEF Succeed, CoreSnapshot
<1>7. \A d \in Cores \ {c} : settled'[d] = settled[d] /\ stats'[d] = stats[d]
  BY <1>1 DEF Succeed, Release, Settle
<1> QED
  BY <1>1, <1>5, <1>6, <1>7 DEF SentCounted

(* Any other outcome leaves the documents sent as they are, ... *)
LEMMA ReleaseKeeps ==
    ASSUME TypeInv, NEW w \in Workers, NEW outcome \in Outcome, Release(w, outcome),
           NEW kept \in Outcome, kept # outcome
    PROVE  \A c \in Cores : settled'[c][kept] = settled[c][kept]
<1> USE DEF TypeInv, TypeOK
<1>1. CoreOf[w] \in Cores
  BY PoolAssumption
<1>2. \A c \in Cores \ {CoreOf[w]} : settled'[c] = settled[c]
  BY DEF Release, Settle
<1>3. settled'[CoreOf[w]] = [settled[CoreOf[w]] EXCEPT
                               ![outcome] = settled[CoreOf[w]][outcome] \cup job[w]]
  BY <1>1 DEF Release, Settle
<1>4. settled[CoreOf[w]] \in [Outcome -> DocSet]
  BY <1>1
<1>5. settled'[CoreOf[w]][kept] = settled[CoreOf[w]][kept]
  BY <1>3, <1>4
<1> QED
  BY <1>2, <1>5

(* ... and so does every result but a success leave their count. *)
LEMMA NotSentKeeps ==
    ASSUME CleanInv, NEW w \in Workers, NEW err,
           GiveUpCanceled(w, err) \/ GiveUp(w, err) \/ ScheduleRetry(w, err)
    PROVE  SentCounted'
<1> USE DEF CleanInv, AccountInv, TypeInv, TypeOK, Tidy
<1>1. CoreOf[w] \in Cores
  BY PoolAssumption
<1>2. \A c \in Cores : stats'[c].successfulDocs = stats[c].successfulDocs
  <2>1. CASE GiveUpCanceled(w, err)
    BY <2>1 DEF GiveUpCanceled
  <2>2. CASE GiveUp(w, err)
    BY <1>1, <2>2 DEF GiveUp, CoreSnapshot
  <2>3. CASE ScheduleRetry(w, err)
    BY <1>1, <2>3 DEF ScheduleRetry, CoreSnapshot
  <2> QED
    BY <2>1, <2>2, <2>3
<1>3. \A c \in Cores : settled'[c]["sent"] = settled[c]["sent"]
  <2>1. CASE GiveUpCanceled(w, err)
    <3>1. Release(w, "canceled") /\ "canceled" \in Outcome /\ "sent" \in Outcome
      BY <2>1 DEF GiveUpCanceled, Outcome
    <3> QED
      BY <3>1, ReleaseKeeps
  <2>2. CASE GiveUp(w, err)
    <3>1. Release(w, "failed") /\ "failed" \in Outcome /\ "sent" \in Outcome
      BY <2>2 DEF GiveUp, Outcome
    <3> QED
      BY <3>1, ReleaseKeeps
  <2>3. CASE ScheduleRetry(w, err)
    BY <2>3 DEF ScheduleRetry
  <2> QED
    BY <2>1, <2>2, <2>3
<1> QED
  BY <1>2, <1>3 DEF SentCounted

(* Nothing is given up as canceled by a result that is no cancellation. *)
LEMMA ResultKeepsUncanceled ==
    ASSUME CleanInv, NEW w \in Workers, NEW err, AfterPost(w, err),
           ~forced => ~IsCanceled(err)
    PROVE  NoneCanceled'
<1> USE DEF CleanInv, AccountInv, Tidy
<1> SUFFICES ASSUME ~forced
             PROVE  \A c \in Cores : settled'[c]["canceled"] = settled[c]["canceled"]
  BY DEF NoneCanceled, AfterPost
<1>1. CASE Succeed(w, err)
  <2>1. Release(w, "sent") /\ "canceled" \in Outcome /\ "sent" \in Outcome
    BY <1>1 DEF Succeed, Outcome
  <2> QED
    BY <2>1, ReleaseKeeps
<1>2. CASE GiveUp(w, err)
  <2>1. Release(w, "failed") /\ "failed" \in Outcome /\ "canceled" \in Outcome
    BY <1>2 DEF GiveUp, Outcome
  <2> QED
    BY <2>1, ReleaseKeeps
<1>3. CASE ScheduleRetry(w, err)
  BY <1>3 DEF ScheduleRetry
<1>4. ~GiveUpCanceled(w, err)
  BY DEF GiveUpCanceled
<1> QED
  BY <1>1, <1>2, <1>3, <1>4 DEF AfterPost

(* A worker that has returned leaves nothing behind in its channel. *)
LEMMA DrainedWork ==
    ASSUME CleanInv, NEW w \in Workers, Work(w)
    PROVE  Drained'
<1> USE DEF CleanInv, AccountInv, TypeInv, TypeOK, Tidy
<1>1. UNCHANGED <<forced, prod>> /\ pc[w] # "returned"
  <2>1. UNCHANGED forced
    BY DEF Work, WorkAlone, ReceiveJob, ReturnIdle, PostEnds, RequestTimeout,
           RequestCanceled, BackoffElapsed, BackoffCanceled, SleepElapsed,
           SleepCanceled, AfterPost
  <2> QED
    BY <2>1, ReturnedWorker
<1> SUFFICES ASSUME ~forced, NEW v \in Workers, pc'[v] = "returned"
             PROVE  Closed(CoreOf[v]) /\ queue'[CoreOf[v]] = <<>>
  BY <1>1 DEF Drained, Closed
<1>2. CASE ReceiveJob(w)
  <2>1. pc[v] = "returned"
    BY <1>2 DEF ReceiveJob, StartRequest
  <2>2. Closed(CoreOf[v]) /\ queue[CoreOf[v]] = <<>>
    BY <2>1 DEF Drained
  <2>3. CoreOf[v] # CoreOf[w]
    BY <1>2, <2>2 DEF ReceiveJob
  <2> QED
    BY <1>2, <2>2, <2>3 DEF ReceiveJob
<1>3. CASE ReturnIdle(w)
  <2>1. queue' = queue
    BY <1>3 DEF ReturnIdle
  <2>2. CASE v = w
    BY <1>3, <2>1, <2>2 DEF ReturnIdle
  <2>3. CASE v # w
    <3>1. pc[v] = "returned"
      BY <1>3, <2>3 DEF ReturnIdle
    <3> QED
      BY <2>1, <3>1 DEF Drained
  <2> QED
    BY <2>2, <2>3
<1>4. CASE ~ReceiveJob(w) /\ ~ReturnIdle(w)
  <2>1. pc[v] = "returned" /\ queue' = queue
    <3>1. CASE BackoffElapsed(w) \/ SleepElapsed(w)
      BY <3>1 DEF BackoffElapsed, StartRequest, SleepElapsed
    <3>2. CASE BackoffCanceled(w)
      BY <3>2 DEF BackoffCanceled
    <3>3. ASSUME NEW err, AfterPost(w, err) PROVE pc[v] = "returned" /\ queue' = queue
      BY <3>3 DEF AfterPost, Succeed, GiveUpCanceled, GiveUp, ScheduleRetry, Release
    <3>4. CASE PostEnds(w) \/ RequestTimeout(w) \/ RequestCanceled(w)
      BY <3>3, <3>4 DEF PostEnds, RequestTimeout, RequestCanceled
    <3> QED
      BY <1>4, <3>1, <3>2, <3>4 DEF Work, WorkAlone, SleepCanceled
  <2> QED
    BY <2>1 DEF Drained
<1> QED
  BY <1>2, <1>3, <1>4

LEMMA TidyWork ==
    ASSUME CleanInv, NEW w \in Workers, Work(w)
    PROVE  Tidy'
<1>1. BatchesOut'
  <2>1. UNCHANGED <<prod, batch>>
    BY DEF Work, WorkAlone, ReceiveJob, ReturnIdle, PostEnds, RequestTimeout,
           RequestCanceled, BackoffElapsed, BackoffCanceled, SleepElapsed,
           SleepCanceled, AfterPost
  <2> QED
    BY <2>1 DEF CleanInv, Tidy, BatchesOut
<1>2. Drained'
  BY DrainedWork
<1>3. ASSUME NEW err, AfterPost(w, err), ~forced => ~IsCanceled(err)
      PROVE  NoneCanceled' /\ SentCounted'
  BY <1>3, ResultKeepsUncanceled, SentIsCounted, NotSentKeeps DEF AfterPost
<1>4. NoneCanceled' /\ SentCounted'
  <2>1. CASE PostEnds(w)
    BY <1>3, <2>1, NotCanceled DEF PostEnds
  <2>2. CASE RequestTimeout(w)
    BY <1>3, <2>2, NotCanceled DEF RequestTimeout
  <2>3. CASE RequestCanceled(w)
    BY <1>3, <2>3 DEF RequestCanceled
  <2>4. CASE BackoffCanceled(w)
    <3>1. /\ forced /\ forced' = forced /\ stats' = stats
          /\ Release(w, "canceled") /\ "canceled" \in Outcome /\ "sent" \in Outcome
      BY <2>4 DEF BackoffCanceled, Outcome
    <3>2. \A c \in Cores : settled'[c]["sent"] = settled[c]["sent"]
      BY <3>1, ReleaseKeeps DEF CleanInv, AccountInv
    <3> QED
      BY <3>1, <3>2 DEF CleanInv, Tidy, NoneCanceled, SentCounted
  <2>5. CASE ReceiveJob(w) \/ ReturnIdle(w) \/ BackoffElapsed(w) \/ SleepElapsed(w)
             \/ SleepCanceled(w)
    <3>1. UNCHANGED <<forced, stats, settled>>
      BY <2>5 DEF ReceiveJob, ReturnIdle, BackoffElapsed, SleepElapsed, SleepCanceled
    <3> QED
      BY <3>1 DEF CleanInv, Tidy, NoneCanceled, SentCounted
  <2> QED
    BY <2>1, <2>2, <2>3, <2>4, <2>5 DEF Work, WorkAlone
<1> QED
  BY <1>1, <1>2, <1>4 DEF Tidy

LEMMA TidyNext == CleanInv /\ [Next]_vars => CleanInv'
<1> SUFFICES ASSUME CleanInv, [Next]_vars PROVE CleanInv'
  OBVIOUS
<1>1. AccountInv' /\ ShutdownInv'
  BY AccountNext, ShutdownNext DEF CleanInv
<1>2. CASE \E c \in Cores : Produce(c)
  BY <1>1, <1>2, TidyProduce DEF CleanInv
<1>3. CASE \E w \in Workers : Work(w)
  BY <1>1, <1>3, TidyWork DEF CleanInv
<1>4. CASE Shutdown \/ Coordinate \/ UNCHANGED vars
  <2>1. UNCHANGED <<prod, batch, queue, pc, stats, settled>> /\ (~forced' => ~forced)
    BY <1>4 DEF Shutdown, Coordinate, ProducersJoined, ShutdownTimeout, Finish, vars
  <2>2. Tidy'
    BY <2>1 DEF CleanInv, Tidy, BatchesOut, Drained, NoneCanceled, SentCounted, Closed
  <2> QED
    BY <1>1, <2>2 DEF CleanInv
<1> QED
  BY <1>2, <1>3, <1>4 DEF Next

(* Four sets that share nothing have as many members as their union. *)
LEMMA SettledCount ==
    ASSUME NEW f \in [Outcome -> DocSet], PairwiseDisjoint(f), f["canceled"] = {}
    PROVE  Cardinality(DocsIn(f)) = Cardinality(f["sent"]) + Cardinality(f["failed"])
                                    + Cardinality(f["dropped"])
<1> DEFINE s == f["sent"]
           a == f["failed"]
           d == f["dropped"]
<1>1. s \in DocSet /\ a \in DocSet /\ d \in DocSet
  BY DEF Outcome
<1>2. DocsIn(f) = (s \cup a) \cup d
  BY DEF DocsIn, Outcome
<1>3. s \cap a = {} /\ (s \cup a) \cap d = {}
  <2>1. DOMAIN f = Outcome
    OBVIOUS
  <2> QED
    BY <2>1 DEF PairwiseDisjoint, Outcome
<1>4. IsFiniteSet(s) /\ IsFiniteSet(a) /\ IsFiniteSet(d)
  BY <1>1 DEF DocSet
<1> HIDE DEF s, a, d
<1>5. Cardinality(s \cup a) = Cardinality(s) + Cardinality(a) /\ IsFiniteSet(s \cup a)
  <2>1. /\ IsFiniteSet(s \cup a)
        /\ Cardinality(s \cup a) = Cardinality(s) + Cardinality(a) - Cardinality(s \cap a)
    BY <1>4, FS_Union
  <2>2. Cardinality(s \cap a) = 0
    BY <1>3, FS_EmptySet
  <2>3. Cardinality(s) \in Nat /\ Cardinality(a) \in Nat
    BY <1>4, FS_CardinalityType
  <2> QED
    BY <2>1, <2>2, <2>3
<1>6. Cardinality((s \cup a) \cup d) = Cardinality(s \cup a) + Cardinality(d)
  <2>1. Cardinality((s \cup a) \cup d)
          = Cardinality(s \cup a) + Cardinality(d) - Cardinality((s \cup a) \cap d)
    BY <1>4, <1>5, FS_Union
  <2>2. Cardinality((s \cup a) \cap d) = 0
    BY <1>3, FS_EmptySet
  <2>3. Cardinality(s \cup a) \in Nat /\ Cardinality(d) \in Nat
    BY <1>4, <1>5, FS_CardinalityType
  <2> QED
    BY <2>1, <2>2, <2>3
<1>7. Cardinality(DocsIn(f)) = Cardinality(s) + Cardinality(a) + Cardinality(d)
  BY <1>2, <1>5, <1>6
<1> QED
  BY <1>7 DEF s, a, d

(* When Run has returned the final totals say what became of every document:  *)
(* nothing is in flight and, unless the shutdown timeout struck, the channels *)
(* are empty and each document was sent, has failed or was dropped.           *)
THEOREM CleanShutdown == Spec => []CleanExit
<1>1. CleanInv => CleanExit
  <2> SUFFICES ASSUME CleanInv, phase = "finished", NEW c \in Cores
               PROVE  /\ batch[c] = {} /\ Sending(c) = {}
                      /\ ~forced =>
                           /\ queue[c] = <<>>
                           /\ Cardinality(settled[c]["canceled"]) = 0
                           /\ stats[c].generatedDocs
                                = stats[c].successfulDocs + Cardinality(settled[c]["failed"])
                                  + Cardinality(settled[c]["dropped"])
    BY DEF CleanExit, Outcome
  <2> USE DEF CleanInv, AccountInv, ShutdownInv, TypeInv, TypeOK, Tidy
  <2>1. prod[c] = "returned" /\ \A w \in Workers : pc[w] = "returned"
    BY DEF AllReturned
  <2>2. batch[c] = {}
    BY <2>1 DEF BatchesOut
  <2>3. Sending(c) = {}
    <3>1. \A w \in WorkersOf(c) : job[w] = {}
      BY <2>1 DEF HandsEmpty, WorkersOf
    <3> QED
      BY <3>1 DEF Sending, JobsOf, DocsIn
  <2>4. ASSUME ~forced
        PROVE  /\ queue[c] = <<>>
               /\ Cardinality(settled[c]["canceled"]) = 0
               /\ stats[c].generatedDocs
                    = stats[c].successfulDocs + Cardinality(settled[c]["failed"])
                      + Cardinality(settled[c]["dropped"])
    <3>1. queue[c] = <<>>
      <4>1. PICK w \in Workers : CoreOf[w] = c
        BY PoolAssumption DEF WorkersOf
      <4> QED
        BY <2>1, <2>4, <4>1 DEF Drained
    <3>2. settled[c]["canceled"] = {}
      BY <2>4 DEF NoneCanceled
    <3>3. Cardinality(settled[c]["canceled"]) = 0
      BY <3>2, FS_EmptySet
    <3>4. Queued(c) = {}
      BY <3>1 DEF Queued, DocsIn
    <3>5. Accounted(c) /\ settled[c] \in [Outcome -> DocSet]
      BY DEF DocsAccounted
    <3>6. Settled(c) = 1..stats[c].generatedDocs
      BY <2>2, <2>3, <3>4, <3>5 DEF Accounted
    <3>7. stats[c].generatedDocs \in Nat
      BY DEF CoreSnapshot
    <3>8. Cardinality(1..stats[c].generatedDocs) = stats[c].generatedDocs
      BY <3>7, FS_Interval
    <3>9. Cardinality(DocsIn(settled[c]))
            = Cardinality(settled[c]["sent"]) + Cardinality(settled[c]["failed"])
              + Cardinality(settled[c]["dropped"])
      BY <3>2, <3>5, SettledCount DEF Accounted
    <3>10. stats[c].successfulDocs = Cardinality(settled[c]["sent"])
      BY DEF SentCounted
    <3> QED
      BY <3>1, <3>3, <3>6, <3>8, <3>9, <3>10 DEF Settled
  <2> QED
    BY <2>2, <2>3, <2>4
<1>2. Init => CleanInv
  BY AccountInit, ShutdownInit, TidyInit DEF CleanInv
<1> QED
  BY <1>1, <1>2, TidyNext, PTL DEF Spec
-----------------------------------------------------------------------------
(* After forceCancel no worker gets into a request that can reach Solr, ... *)
LEMMA ForcedWorker ==
    ASSUME TypeInv, forced, NEW v \in Workers, Work(v)
    PROVE  /\ \A u \in Workers \ {v} : pc'[u] = pc[u] /\ job'[u] = job[u]
           /\ pc'[v] # "post"
<1> USE DEF TypeInv, TypeOK
<1>1. CASE \E err : AfterPost(v, err)
  BY <1>1 DEF AfterPost, Succeed, GiveUpCanceled, GiveUp, ScheduleRetry, Release
<1>2. CASE ReceiveJob(v) \/ ReturnIdle(v)
  BY <1>2 DEF ReceiveJob, ReturnIdle, StartRequest
<1>3. CASE BackoffElapsed(v) \/ BackoffCanceled(v)
  BY <1>3 DEF BackoffElapsed, BackoffCanceled, StartRequest, Release
<1>4. CASE SleepElapsed(v) \/ SleepCanceled(v)
  BY <1>4 DEF SleepElapsed, SleepCanceled
<1> QED
  BY <1>1, <1>2, <1>3, <1>4 DEF Work, WorkAlone, PostEnds, RequestTimeout, RequestCanceled

(* ... and a result adds to the documents sent only what was on the wire.     *)
LEMMA ResultSends ==
    ASSUME TypeInv, NEW w \in Workers, NEW err, AfterPost(w, err), NEW c \in Cores
    PROVE  \/ settled'[c]["sent"] = settled[c]["sent"]
           \/ /\ ~err.failed /\ c = CoreOf[w]
              /\ settled'[c]["sent"] = settled[c]["sent"] \cup job[w]
<1> USE DEF TypeInv, TypeOK
<1>1. CASE Succeed(w, err)
  <2>1. ~err.failed
    BY <1>1 DEF Succeed
  <2>2. CASE c = CoreOf[w]
    <3>1. settled'[c]["sent"] = settled[c]["sent"] \cup job[w]
      BY <1>1, <2>2 DEF Succeed, Release, Settle, Outcome
    <3> QED
      BY <2>1, <2>2, <3>1
  <2>3. CASE c # CoreOf[w]
    BY <1>1, <2>3 DEF Succeed, Release, Settle
  <2> QED
    BY <2>2, <2>3
<1>2. CASE GiveUpCanceled(w, err)
  <2>1. Release(w, "canceled") /\ "canceled" \in Outcome /\ "sent" \in Outcome
    BY <1>2 DEF GiveUpCanceled, Outcome
  <2> QED
    BY <2>1, ReleaseKeeps
<1>3. CASE GiveUp(w, err)
  <2>1. Release(w, "failed") /\ "failed" \in Outcome /\ "sent" \in Outcome
    BY <1>3 DEF GiveUp, Outcome
  <2> QED
    BY <2>1, ReleaseKeeps
<1>4. CASE ScheduleRetry(w, err)
  BY <1>4 DEF ScheduleRetry
<1> QED
  BY <1>1, <1>2, <1>3, <1>4 DEF AfterPost

(* A request that its context has ended has failed. *)
LEMMA CanceledFails == \A x \in ContextEnds("canceled") : PostBatch(x).failed
<1> SUFFICES ASSUME NEW x \in ContextEnds("canceled") PROVE PostBatch(x).failed
  OBVIOUS
<1>1. CASE x.do = "canceled"
  <2>1. PostBatch(x) = ClientError(0, FALSE, "canceled")
    BY <1>1 DEF PostBatch, DoError
  <2> QED
    BY <2>1 DEF ClientError
<1>2. CASE x.do = "answered" /\ x.read = "canceled"
  <2>1. PostBatch(x) = ClientError(x.status, FALSE, "canceled")
    BY <1>2 DEF PostBatch, ReadError
  <2> QED
    BY <2>1 DEF ClientError
<1> QED
  BY <1>1, <1>2 DEF ContextEnds

LEMMA WorkerSends ==
    ASSUME TypeInv, NEW w \in Workers, Work(w), NEW c \in Cores
    PROVE  settled'[c]["sent"] \subseteq settled[c]["sent"] \cup OnWire(c)
<1>1. CASE PostEnds(w) \/ RequestTimeout(w)
  <2>1. pc[w] = "post" /\ \E err : AfterPost(w, err)
    BY <1>1 DEF PostEnds, RequestTimeout
  <2>2. \/ settled'[c]["sent"] = settled[c]["sent"]
        \/ c = CoreOf[w] /\ settled'[c]["sent"] = settled[c]["sent"] \cup job[w]
    BY <2>1, ResultSends
  <2>3. c = CoreOf[w] => job[w] \subseteq OnWire(c)
    BY <2>1 DEF OnWire, WorkersOf
  <2> QED
    BY <2>2, <2>3
<1>2. CASE RequestCanceled(w)
  <2>1. \E err : AfterPost(w, err) /\ err.failed
    BY <1>2, CanceledFails DEF RequestCanceled
  <2> QED
    BY <2>1, ResultSends
<1>3. CASE BackoffCanceled(w)
  <2>1. Release(w, "canceled") /\ "canceled" \in Outcome /\ "sent" \in Outcome
    BY <1>3 DEF BackoffCanceled, Outcome
  <2> QED
    BY <2>1, ReleaseKeeps
<1>4. CASE \/ ReceiveJob(w) \/ ReturnIdle(w) \/ BackoffElapsed(w)
           \/ SleepElapsed(w) \/ SleepCanceled(w)
  BY <1>4 DEF ReceiveJob, ReturnIdle, BackoffElapsed, SleepElapsed, SleepCanceled
<1> QED
  BY <1>1, <1>2, <1>3, <1>4 DEF Work, WorkAlone

(* What was not out in a request when the workers were canceled is never sent *)
(* (worker.go:103-168, backoff.go:36-41).                                     *)
THEOREM ForcedSendsInFlight == Spec => OnlyInFlightIsSent
<1> DEFINE Fewer(c) ==
             settled'[c]["sent"] \cup OnWire(c)' \subseteq settled[c]["sent"] \cup OnWire(c)
<1>1. TypeInv /\ [Next]_vars => [forced => \A c \in Cores : Fewer(c)]_vars
  <2> SUFFICES ASSUME TypeInv, Next, forced, NEW c \in Cores PROVE Fewer(c)
    BY DEF vars
  <2>1. CASE \E d \in Cores : Produce(d)
    <3>1. UNCHANGED <<pc, job>> /\ settled'[c]["sent"] = settled[c]["sent"]
      <4>1. PICK d \in Cores : Produce(d)
        BY <2>1
      <4>2. CASE DropPartial(d)
        BY <4>2 DEF DropPartial, Settle, TypeInv, TypeOK, Outcome
      <4> QED
        BY <4>1, <4>2 DEF Produce, KeepGoing, Generate, SendBatch, SendInterrupted,
                          StopEmpty, FlushPartial
    <3> QED
      BY <3>1 DEF OnWire, WorkersOf
  <2>2. ASSUME NEW v \in Workers, Work(v) PROVE Fewer(c)
    <3>1. OnWire(c)' \subseteq OnWire(c)
      BY <2>2, ForcedWorker DEF OnWire, WorkersOf
    <3>2. settled'[c]["sent"] \subseteq settled[c]["sent"] \cup OnWire(c)
      BY <2>2, WorkerSends
    <3> QED
      BY <3>1, <3>2
  <2>3. CASE Shutdown \/ Coordinate
    <3>1. UNCHANGED <<pc, job, settled>>
      BY <2>3 DEF Shutdown, Coordinate, ProducersJoined, ShutdownTimeout, Finish
    <3> QED
      BY <3>1 DEF OnWire, WorkersOf
  <2> QED
    BY <2>1, <2>2, <2>3 DEF Next
<1> QED
  BY <1>1, TypeInit, TypeNext, PTL DEF Spec, OnlyInFlightIsSent

-----------------------------------------------------------------------------
(* A producer's batch never outgrows its size, is full when it is sent, and   *)
(* is full at the top of the loop only after a send that the shutdown cut     *)
(* short.  Only a producer on its way out drops anything.                     *)
BatchFits(c) ==
    /\ Cardinality(batch[c]) <= BatchSize
    /\ prod[c] = "generate" => Cardinality(batch[c]) < BatchSize
    /\ prod[c] = "send" => Cardinality(batch[c]) = BatchSize
    /\ prod[c] = "select" => Cardinality(batch[c]) < BatchSize \/ Stopped

DropsLast(c) == ~Closed(c) => settled[c]["dropped"] = {}

InOrder(c) == BatchFits(c) /\ DropsLast(c) /\ Ordered(c)
OrderInv   == AccountInv /\ \A c \in Cores : InOrder(c)

LEMMA OrderInit == Init => OrderInv
<1> SUFFICES ASSUME Init PROVE OrderInv
  OBVIOUS
<1>1. AccountInv
  BY AccountInit
<1>2. ASSUME NEW c \in Cores PROVE InOrder(c)
  <2>1. batch[c] = {} /\ queue[c] = <<>> /\ prod[c] = "select"
    BY DEF Init
  <2>2. \A o \in Outcome : settled[c][o] = {}
    BY DEF Init
  <2>3. Taken(c) = {} /\ Queued(c) = {}
    <3>1. Sending(c) = {}
      BY DEF Init, Sending, JobsOf, WorkersOf, DocsIn
    <3> QED
      BY <2>1, <2>2, <3>1 DEF Taken, Queued, DocsIn
  <2>4. BatchFits(c)
    BY <2>1, FS_EmptySet, LimitAssumption DEF BatchFits
  <2>5. DropsLast(c)
    BY <2>2 DEF DropsLast, Outcome
  <2>6. Ordered(c)
    BY <2>1, <2>3 DEF Ordered, Before
  <2> QED
    BY <2>4, <2>5, <2>6 DEF InOrder
<1> QED
  BY <1>1, <1>2 DEF OrderInv

(* A core that a step leaves alone stays in order. *)
LEMMA InOrderSame ==
    ASSUME NEW c \in Cores, InOrder(c),
           batch'[c] = batch[c], queue'[c] = queue[c], settled'[c] = settled[c],
           prod'[c] = prod[c], Stopped => Stopped',
           \A w \in WorkersOf(c) : job'[w] = job[w]
    PROVE  InOrder(c)'
<1>1. JobsOf(c)' = JobsOf(c)
  BY DEF JobsOf
<1>2. Taken(c)' = Taken(c) /\ Queued(c)' = Queued(c) /\ Closed(c)' = Closed(c)
  BY <1>1 DEF Taken, Sending, Queued, Closed
<1>3. BatchFits(c)'
  BY DEF InOrder, BatchFits
<1>4. DropsLast(c)'
  BY <1>2 DEF InOrder, DropsLast
<1>5. Ordered(c)'
  BY <1>2 DEF InOrder, Ordered, Before
<1> QED
  BY <1>3, <1>4, <1>5 DEF InOrder

(* What workers hold or have dealt with, what waits and what is dropped are   *)
(* numbers of documents that exist.                                           *)
LEMMA PlacesExist ==
    ASSUME AccountInv, NEW c \in Cores
    PROVE  /\ stats[c].generatedDocs \in Nat
           /\ Taken(c) \subseteq 1..stats[c].generatedDocs
           /\ Queued(c) \subseteq 1..stats[c].generatedDocs
           /\ batch[c] \subseteq 1..stats[c].generatedDocs
           /\ settled[c]["dropped"] \subseteq 1..stats[c].generatedDocs
<1>1. Accounted(c) /\ settled[c] \in [Outcome -> DocSet] /\ stats[c] \in CoreSnapshot
  BY DEF AccountInv, DocsAccounted, TypeInv, TypeOK
<1>2. \A o \in Outcome : settled[c][o] \subseteq Settled(c)
  BY <1>1 DEF Settled, DocsIn
<1>3. Taken(c) \subseteq Sending(c) \cup Settled(c)
  BY <1>2 DEF Taken
<1>4. settled[c]["dropped"] \subseteq Settled(c)
  BY <1>2 DEF Outcome
<1> QED
  BY <1>1, <1>3, <1>4 DEF Accounted, CoreSnapshot

(* The next document is younger than all others. *)
LEMMA InOrderGenerate ==
    ASSUME OrderInv, NEW c \in Cores, Generate(c)
    PROVE  InOrder(c)'
<1> DEFINE n == stats[c].generatedDocs
<1> USE DEF OrderInv, AccountInv, TypeInv, TypeOK
<1>1. InOrder(c) /\ prod[c] = "generate" /\ n \in Nat
  BY DEF Generate, CoreSnapshot
<1>2. batch'[c] = batch[c] \cup {n + 1}
  BY DEF Generate
<1>3. queue'[c] = queue[c] /\ settled'[c] = settled[c] /\ JobsOf(c)' = JobsOf(c)
  BY DEF Generate, JobsOf
<1>4. Taken(c)' = Taken(c) /\ Queued(c)' = Queued(c)
  BY <1>3 DEF Taken, Sending, Queued
<1>5. ~Closed(c) /\ ~Closed(c)' /\ settled[c]["dropped"] = {}
  BY <1>1 DEF InOrder, DropsLast, Closed, Generate
<1>6. Cardinality(batch'[c]) = Cardinality(batch[c]) + 1 /\ Cardinality(batch[c]) \in Nat
  <2>1. IsFiniteSet(batch[c])
    BY DEF DocSet
  <2>2. n + 1 \notin batch[c]
    <3>1. batch[c] \subseteq 1..n
      BY PlacesExist
    <3> QED
      BY <1>1, <3>1
  <2>3. Cardinality(batch[c] \cup {n + 1}) = Cardinality(batch[c]) + 1
    BY <2>1, <2>2, FS_AddElement
  <2>4. Cardinality(batch[c]) \in Nat
    BY <2>1, FS_CardinalityType
  <2> QED
    BY <1>2, <2>3, <2>4
<1>7. BatchFits(c)'
  <2>1. Cardinality(batch[c]) < BatchSize
    BY <1>1 DEF InOrder, BatchFits
  <2>2. prod'[c] = IF Cardinality(batch'[c]) < BatchSize THEN "select" ELSE "send"
    BY <1>2 DEF Generate
  <2> QED
    BY <1>6, <2>1, <2>2, LimitAssumption DEF BatchFits
<1>8. DropsLast(c)'
  BY <1>3, <1>5 DEF DropsLast
<1>9. Before(Taken(c)' \cup Queued(c)', batch'[c] \cup settled'[c]["dropped"])
  <2>1. \A d \in Taken(c) \cup Queued(c) : d < n + 1
    BY <1>1, PlacesExist
  <2>2. Before(Taken(c) \cup Queued(c), batch[c])
    BY <1>1 DEF InOrder, Ordered, Before
  <2> QED
    BY <1>2, <1>3, <1>4, <1>5, <2>1, <2>2 DEF Before
<1>10. Ordered(c)'
  <2>1. Before(Taken(c)', Queued(c)')
    BY <1>1, <1>4 DEF InOrder, Ordered
  <2>2. \A i, j \in DOMAIN queue'[c] : i < j => Before(queue'[c][i], queue'[c][j])
    BY <1>1, <1>3 DEF InOrder, Ordered
  <2>3. \A i \in DOMAIN queue'[c] : Cardinality(queue'[c][i]) = BatchSize
    BY <1>1, <1>3, <1>5 DEF InOrder, Ordered
  <2> QED
    BY <1>9, <2>1, <2>2, <2>3 DEF Ordered
<1> QED
  BY <1>7, <1>8, <1>10 DEF InOrder

LEMMA AppendFacts ==
    ASSUME NEW q \in Seq(DocSet), NEW D \in DocSet
    PROVE  LET r == Append(q, D)
           IN  /\ Len(q) \in Nat /\ Len(r) = Len(q) + 1
               /\ DOMAIN q = 1..Len(q)
               /\ DOMAIN r = DOMAIN q \cup {Len(q) + 1}
               /\ \A i \in DOMAIN q : r[i] = q[i]
               /\ r[Len(q) + 1] = D
<1> DEFINE r == Append(q, D)
<1>1. Len(q) \in Nat /\ DOMAIN q = 1..Len(q)
  OBVIOUS
<1>2. DOMAIN r = 1..(Len(q) + 1) /\ Len(r) = Len(q) + 1
  BY AppendProperties
<1>3. \A i \in 1..Len(q) : r[i] = q[i]
  BY AppendProperties
<1>4. r[Len(q) + 1] = D
  BY AppendProperties
<1> HIDE DEF r
<1>5. DOMAIN r = DOMAIN q \cup {Len(q) + 1}
  BY <1>1, <1>2
<1> QED
  BY <1>1, <1>2, <1>3, <1>4, <1>5 DEF r

(* A batch enters the channel behind all others. *)
LEMMA InOrderEnqueue ==
    ASSUME OrderInv, NEW c \in Cores, SendBatch(c) \/ FlushPartial(c)
    PROVE  InOrder(c)'
<1> DEFINE q == queue[c]
           r == queue'[c]
<1> USE DEF OrderInv, AccountInv, TypeInv, TypeOK
<1>1. InOrder(c) /\ q \in Seq(DocSet) /\ batch[c] \in DocSet
  OBVIOUS
<1>2. batch'[c] = {} /\ r = Append(q, batch[c]) /\ ~Closed(c)
  BY DEF SendBatch, FlushPartial, Closed
<1>3. settled'[c] = settled[c] /\ JobsOf(c)' = JobsOf(c)
  BY DEF SendBatch, FlushPartial, JobsOf
<1>4. Taken(c)' = Taken(c) /\ Queued(c)' = Queued(c) \cup batch[c]
  BY <1>1, <1>2, <1>3, DocsInAppend DEF Taken, Sending, Queued
<1>5. settled[c]["dropped"] = {}
  BY <1>1, <1>2 DEF InOrder, DropsLast
<1>6. BatchFits(c)'
  BY <1>2, FS_EmptySet, LimitAssumption DEF BatchFits, SendBatch, FlushPartial
<1>7. DropsLast(c)'
  BY <1>3, <1>5 DEF DropsLast
<1>8. /\ Len(q) \in Nat /\ Len(r) = Len(q) + 1
      /\ DOMAIN q = 1..Len(q) /\ DOMAIN r = DOMAIN q \cup {Len(q) + 1}
      /\ \A i \in DOMAIN q : r[i] = q[i]
      /\ r[Len(q) + 1] = batch[c]
  BY <1>1, <1>2, AppendFacts
<1> HIDE DEF q, r
<1>9. /\ Before(Taken(c), Queued(c))
      /\ Before(Taken(c), batch[c]) /\ Before(Queued(c), batch[c])
      /\ \A i, j \in DOMAIN q : i < j => Before(q[i], q[j])
      /\ \A i \in DOMAIN q : Cardinality(q[i]) = BatchSize
  BY <1>1, <1>2 DEF InOrder, Ordered, Before, q
<1>10. Before(Taken(c)', Queued(c)')
  BY <1>4, <1>9 DEF Before
<1>11. Before(Taken(c)' \cup Queued(c)', batch'[c] \cup settled'[c]["dropped"])
  BY <1>2, <1>3, <1>5 DEF Before
<1>12. \A i, j \in DOMAIN r : i < j => Before(r[i], r[j])
  <2> SUFFICES ASSUME NEW i \in DOMAIN r, NEW j \in DOMAIN r, i < j PROVE Before(r[i], r[j])
    OBVIOUS
  <2>1. i \in DOMAIN q
    BY <1>8
  <2>2. CASE j \in DOMAIN q
    BY <1>8, <1>9, <2>1, <2>2
  <2>3. CASE j = Len(q) + 1
    <3>1. q[i] \subseteq Queued(c)
      BY <2>1 DEF Queued, DocsIn, q
    <3> QED
      BY <1>8, <1>9, <2>1, <2>3, <3>1 DEF Before
  <2> QED
    BY <1>8, <2>2, <2>3
<1>13. \A i \in DOMAIN r :
          \/ Cardinality(r[i]) = BatchSize
          \/ i = Len(r) /\ Closed(c)' /\ r[i] # {}
  <2>1. \A i \in DOMAIN q : Cardinality(r[i]) = BatchSize
    BY <1>8, <1>9
  <2>2. CASE SendBatch(c)
    <3>1. Cardinality(batch[c]) = BatchSize
      BY <1>1, <2>2 DEF SendBatch, InOrder, BatchFits
    <3> QED
      BY <1>8, <2>1, <3>1
  <2>3. CASE FlushPartial(c)
    <3>1. batch[c] # {} /\ Closed(c)'
      BY <2>3 DEF FlushPartial, Closed
    <3> QED
      BY <1>8, <2>1, <3>1
  <2> QED
    BY <2>2, <2>3
<1>14. Ordered(c)'
  BY <1>10, <1>11, <1>12, <1>13 DEF Ordered, r
<1> QED
  BY <1>6, <1>7, <1>14 DEF InOrder

(* The batch that is dropped was the youngest. *)
LEMMA InOrderDrop ==
    ASSUME OrderInv, NEW c \in Cores, DropPartial(c)
    PROVE  InOrder(c)'
<1> USE DEF OrderInv, AccountInv, TypeInv, TypeOK
<1>1. InOrder(c) /\ settled[c] \in [Outcome -> DocSet]
  OBVIOUS
<1>2. batch'[c] = {} /\ Closed(c)' /\ queue' = queue /\ job' = job
  BY DEF DropPartial, Closed
<1>3. settled'[c] = [settled[c] EXCEPT !["dropped"] = settled[c]["dropped"] \cup batch[c]]
  BY DEF DropPartial, Settle
<1>4. /\ settled'[c]["dropped"] = settled[c]["dropped"] \cup batch[c]
      /\ \A o \in Outcome \ {"dropped"} : settled'[c][o] = settled[c][o]
  BY <1>1, <1>3 DEF Outcome
<1>5. Taken(c)' = Taken(c) /\ Queued(c)' = Queued(c)
  <2>1. Sending(c)' = Sending(c)
    BY <1>2 DEF Sending, JobsOf
  <2> QED
    BY <1>2, <1>4, <2>1 DEF Taken, Queued
<1>6. BatchFits(c)'
  BY <1>2, FS_EmptySet, LimitAssumption DEF BatchFits, Closed
<1>7. DropsLast(c)'
  BY <1>2 DEF DropsLast
<1>8. Ordered(c)'
  <2>1. Before(Taken(c)' \cup Queued(c)', batch'[c] \cup settled'[c]["dropped"])
    BY <1>1, <1>2, <1>4, <1>5 DEF InOrder, Ordered, Before
  <2>2. /\ Before(Taken(c)', Queued(c)')
        /\ \A i, j \in DOMAIN queue'[c] : i < j => Before(queue'[c][i], queue'[c][j])
    BY <1>1, <1>2, <1>5 DEF InOrder, Ordered
  <2>3. \A i \in DOMAIN queue'[c] :
           \/ Cardinality(queue'[c][i]) = BatchSize
           \/ i = Len(queue'[c]) /\ Closed(c)' /\ queue'[c][i] # {}
    BY <1>1, <1>2 DEF InOrder, Ordered
  <2> QED
    BY <2>1, <2>2, <2>3 DEF Ordered
<1> QED
  BY <1>6, <1>7, <1>8 DEF InOrder

LEMMA OrderProduce ==
    ASSUME OrderInv, NEW c \in Cores, Produce(c)
    PROVE  \A d \in Cores : InOrder(d)'
<1> USE DEF OrderInv, AccountInv, TypeInv, TypeOK
<1>1. ASSUME NEW d \in Cores, d # c PROVE InOrder(d)'
  <2>1. /\ batch'[d] = batch[d] /\ queue'[d] = queue[d] /\ settled'[d] = settled[d]
        /\ prod'[d] = prod[d] /\ phase' = phase /\ job' = job
    BY <1>1 DEF Produce, KeepGoing, Generate, SendBatch, SendInterrupted, StopEmpty,
                FlushPartial, DropPartial, Settle
  <2> QED
    BY <2>1, InOrderSame DEF Stopped
<1>2. ASSUME KeepGoing(c) \/ SendInterrupted(c) \/ StopEmpty(c) PROVE InOrder(c)'
  <2>1. UNCHANGED <<batch, queue, settled, job, phase>> /\ InOrder(c) /\ ~Closed(c)
    BY <1>2 DEF KeepGoing, SendInterrupted, StopEmpty, Closed
  <2>2. BatchFits(c)'
    BY <1>2, <2>1 DEF KeepGoing, SendInterrupted, StopEmpty, InOrder, BatchFits, Stopped
  <2>3. DropsLast(c)'
    BY <2>1 DEF InOrder, DropsLast
  <2>4. Taken(c)' = Taken(c) /\ Queued(c)' = Queued(c)
    BY <2>1 DEF Taken, Sending, JobsOf, Queued
  <2>5. Ordered(c)'
    <3>1. \A i \in DOMAIN queue[c] : Cardinality(queue[c][i]) = BatchSize
      BY <2>1 DEF InOrder, Ordered
    <3> QED
      BY <2>1, <2>4, <3>1 DEF InOrder, Ordered
  <2> QED
    BY <2>2, <2>3, <2>5 DEF InOrder
<1>3. InOrder(c)'
  BY <1>2, InOrderGenerate, InOrderEnqueue, InOrderDrop DEF Produce
<1> QED
  BY <1>1, <1>3

LEMMA TailFacts ==
    ASSUME NEW q \in Seq(DocSet), q # <<>>
    PROVE  LET t == Tail(q)
           IN  /\ Len(q) \in Nat /\ Len(t) = Len(q) - 1
               /\ DOMAIN q = 1..Len(q) /\ 1 \in DOMAIN q /\ Head(q) = q[1]
               /\ \A i \in DOMAIN t : i \in Nat /\ i >= 1 /\ t[i] = q[i + 1] /\ i + 1 \in DOMAIN q
<1> DEFINE t == Tail(q)
<1>1. Len(q) \in Nat /\ DOMAIN q = 1..Len(q) /\ Len(q) > 0 /\ Head(q) = q[1]
  BY EmptySeq
<1>2. t \in Seq(DocSet) /\ Len(t) = Len(q) - 1
  BY HeadTailProperties
<1>3. DOMAIN t = 1..(Len(q) - 1)
  BY <1>2
<1>4. \A i \in DOMAIN t : t[i] = q[i + 1] /\ i + 1 \in DOMAIN q
  BY <1>1, <1>2, <1>3, HeadTailProperties
<1> HIDE DEF t
<1>5. \A i \in DOMAIN t : i \in Nat /\ i >= 1
  BY <1>1, <1>3
<1> QED
  BY <1>1, <1>2, <1>4, <1>5 DEF t

(* The oldest batch of the channel goes to a worker. *)
LEMMA InOrderReceive ==
    ASSUME OrderInv, NEW w \in Workers, NEW c, c = CoreOf[w], ReceiveJob(w)
    PROVE  InOrder(c)'
<1> DEFINE q == queue[c]
           t == queue'[c]
<1> USE DEF OrderInv, AccountInv, TypeInv, TypeOK
<1>1. c \in Cores /\ w \in WorkersOf(c) /\ InOrder(c)
  BY PoolAssumption DEF WorkersOf
<1>2. q \in Seq(DocSet) /\ q # <<>> /\ t = Tail(q)
  BY <1>1 DEF ReceiveJob
<1>3. /\ batch' = batch /\ settled' = settled /\ prod' = prod
      /\ Stopped' = Stopped /\ Closed(c)' = Closed(c)
  BY DEF ReceiveJob, Stopped, Closed
<1>4. Sending(c)' = Sending(c) \cup Head(q)
  BY ReceiveMoves
<1>5. /\ Taken(c)' = Taken(c) \cup Head(q)
      /\ Queued(c)' = Queued(c) \ Head(q)
      /\ Head(q) \subseteq Queued(c)
  <2>1. Accounted(c)
    BY <1>1 DEF DocsAccounted
  <2> QED
    BY <1>2, <1>3, <1>4, <2>1, DocsInTail DEF Taken, Queued, Accounted
<1>6. BatchFits(c)' /\ DropsLast(c)'
  BY <1>1, <1>3 DEF InOrder, BatchFits, DropsLast
<1>7. /\ Len(q) \in Nat /\ Len(t) = Len(q) - 1
      /\ DOMAIN q = 1..Len(q) /\ 1 \in DOMAIN q /\ Head(q) = q[1]
      /\ \A i \in DOMAIN t : i \in Nat /\ i >= 1 /\ t[i] = q[i + 1] /\ i + 1 \in DOMAIN q
  BY <1>2, TailFacts
<1>8. /\ Before(Taken(c), Queued(c))
      /\ Before(Taken(c) \cup Queued(c), batch[c] \cup settled[c]["dropped"])
      /\ \A i, j \in DOMAIN q : i < j => Before(q[i], q[j])
      /\ \A i \in DOMAIN q :
            \/ Cardinality(q[i]) = BatchSize
            \/ i = Len(q) /\ Closed(c) /\ q[i] # {}
  BY <1>1 DEF InOrder, Ordered
<1>9. Queued(c)' = UNION {t[i] : i \in DOMAIN t}
  BY DEF Queued, DocsIn
<1> HIDE DEF q, t
<1>10. Before(Taken(c)', Queued(c)')
  <2>1. Before(Taken(c), Queued(c)')
    BY <1>5, <1>8 DEF Before
  <2>2. \A i \in DOMAIN t : Before(q[1], t[i])
    <3>1. \A i \in DOMAIN t : 1 < i + 1
      BY <1>7
    <3> QED
      BY <1>7, <1>8, <3>1
  <2>3. Before(Head(q), Queued(c)')
    BY <1>7, <1>9, <2>2 DEF Before
  <2> QED
    BY <1>5, <2>1, <2>3 DEF Before
<1>11. Before(Taken(c)' \cup Queued(c)', batch'[c] \cup settled'[c]["dropped"])
  BY <1>3, <1>5, <1>8 DEF Before
<1>12. \A i, j \in DOMAIN t : i < j => Before(t[i], t[j])
  <2> SUFFICES ASSUME NEW i \in DOMAIN t, NEW j \in DOMAIN t, i < j PROVE Before(t[i], t[j])
    OBVIOUS
  <2>1. i + 1 < j + 1
    BY <1>7
  <2> QED
    BY <1>7, <1>8, <2>1
<1>13. \A i \in DOMAIN t :
          \/ Cardinality(t[i]) = BatchSize
          \/ i = Len(t) /\ Closed(c)' /\ t[i] # {}
  BY <1>3, <1>7, <1>8
<1>14. Ordered(c)'
  BY <1>10, <1>11, <1>12, <1>13 DEF Ordered, t
<1> QED
  BY <1>6, <1>14 DEF InOrder

(* The documents taken do not change when a worker lets go of some. *)
Concluded(c) == [o \in Outcome \ {"dropped"} |-> settled[c][o]]

LEMMA TakenSplit ==
    ASSUME NEW c
    PROVE  /\ Taken(c) = Sending(c) \cup DocsIn(Concluded(c))
           /\ Taken(c)' = Sending(c)' \cup DocsIn(Concluded(c)')
BY DEF Taken, Concluded, DocsIn

LEMMA ReleaseTakes ==
    ASSUME TypeInv, NEW w \in Workers, NEW c, c = CoreOf[w],
           NEW outcome \in Outcome \ {"dropped"}, Release(w, outcome)
    PROVE  DocsIn(Concluded(c)') = DocsIn(Concluded(c)) \cup job[w]
<1>1. c \in Cores /\ settled[c] \in [Outcome -> DocSet]
  BY PoolAssumption DEF TypeInv, TypeOK
<1>2. settled'[c] = [settled[c] EXCEPT ![outcome] = settled[c][outcome] \cup job[w]]
  BY <1>1 DEF Release, Settle, TypeInv, TypeOK
<1>3. /\ outcome \in DOMAIN Concluded(c)
      /\ DOMAIN Concluded(c)' = DOMAIN Concluded(c)
      /\ Concluded(c)'[outcome] = Concluded(c)[outcome] \cup job[w]
      /\ \A o \in DOMAIN Concluded(c) :
            o # outcome => Concluded(c)'[o] = Concluded(c)[o]
  BY <1>1, <1>2 DEF Concluded
<1> QED
  BY <1>3, DocsInGrow

(* What a worker has let go of still counts as taken. *)
LEMMA InOrderRelease ==
    ASSUME OrderInv, NEW w \in Workers, NEW c, c = CoreOf[w],
           NEW outcome \in Outcome \ {"dropped"}, Release(w, outcome),
           UNCHANGED <<phase, prod, batch, queue>>
    PROVE  InOrder(c)'
<1> USE DEF OrderInv, AccountInv, TypeInv, TypeOK
<1>1. c \in Cores /\ w \in WorkersOf(c) /\ InOrder(c)
  BY PoolAssumption DEF WorkersOf
<1>2. settled'[c] = [settled[c] EXCEPT ![outcome] = settled[c][outcome] \cup job[w]]
  BY <1>1 DEF Release, Settle
<1>3. /\ settled'[c][outcome] = settled[c][outcome] \cup job[w]
      /\ \A o \in Outcome \ {outcome} : settled'[c][o] = settled[c][o]
  <2>1. settled[c] \in [Outcome -> DocSet]
    BY <1>1
  <2> QED
    BY <1>2, <2>1
<1>4. settled'[c]["dropped"] = settled[c]["dropped"]
  BY <1>3 DEF Outcome
<1>5. Sending(c)' \cup job[w] = Sending(c)
  BY ReleaseMoves
<1>6. Taken(c)' = Taken(c)
  <2>1. DocsIn(Concluded(c)') = DocsIn(Concluded(c)) \cup job[w]
    BY ReleaseTakes
  <2> QED
    BY <1>5, <2>1, TakenSplit
<1>7. Queued(c)' = Queued(c) /\ Closed(c)' = Closed(c) /\ Stopped' = Stopped
  BY DEF Queued, Closed, Stopped
<1>8. BatchFits(c)' /\ DropsLast(c)'
  BY <1>1, <1>4, <1>7 DEF InOrder, BatchFits, DropsLast
<1>9. Ordered(c)'
  BY <1>1, <1>4, <1>6, <1>7 DEF InOrder, Ordered
<1> QED
  BY <1>8, <1>9 DEF InOrder

LEMMA OrderWork ==
    ASSUME OrderInv, NEW w \in Workers, Work(w)
    PROVE  \A d \in Cores : InOrder(d)'
<1> DEFINE c == CoreOf[w]
<1> USE DEF OrderInv, AccountInv, TypeInv, TypeOK
<1>1. c \in Cores /\ UNCHANGED <<phase, prod>> /\ Stopped' = Stopped
  BY PoolAssumption, ReturnedWorker DEF Stopped
<1>2. ASSUME NEW outcome \in Outcome \ {"dropped"}, Release(w, outcome),
             UNCHANGED <<batch, queue>>
      PROVE  \A d \in Cores : InOrder(d)'
  <2>1. InOrder(c)'
    BY <1>1, <1>2, InOrderRelease
  <2>2. ASSUME NEW d \in Cores, d # c PROVE InOrder(d)'
    <3>1. settled'[d] = settled[d] /\ \A v \in WorkersOf(d) : job'[v] = job[v]
      BY <1>2, <2>2 DEF Release, Settle, WorkersOf
    <3> QED
      BY <1>1, <1>2, <3>1, InOrderSame
  <2> QED
    BY <2>1, <2>2
<1>3. CASE ReceiveJob(w)
  <2>1. InOrder(c)'
    BY <1>3, InOrderReceive
  <2>2. ASSUME NEW d \in Cores, d # c PROVE InOrder(d)'
    <3>1. queue'[d] = queue[d] /\ \A v \in WorkersOf(d) : job'[v] = job[v]
      BY <1>3, <2>2 DEF ReceiveJob, WorkersOf
    <3>2. UNCHANGED <<batch, settled>>
      BY <1>3 DEF ReceiveJob
    <3> QED
      BY <1>1, <3>1, <3>2, InOrderSame
  <2> QED
    BY <2>1, <2>2
<1>4. ASSUME NEW err, AfterPost(w, err) PROVE \A d \in Cores : InOrder(d)'
  <2>1. UNCHANGED <<batch, queue>>
    BY <1>4 DEF AfterPost
  <2>2. CASE Succeed(w, err) \/ GiveUpCanceled(w, err) \/ GiveUp(w, err)
    BY <1>2, <2>1, <2>2 DEF Succeed, GiveUpCanceled, GiveUp, Outcome
  <2>3. CASE ScheduleRetry(w, err)
    BY <1>1, <2>1, <2>3, InOrderSame DEF ScheduleRetry
  <2> QED
    BY <1>4, <2>2, <2>3 DEF AfterPost
<1>5. CASE PostEnds(w) \/ RequestTimeout(w) \/ RequestCanceled(w)
  BY <1>4, <1>5 DEF PostEnds, RequestTimeout, RequestCanceled
<1>6. CASE BackoffCanceled(w)
  BY <1>2, <1>6 DEF BackoffCanceled, Outcome
<1>7. CASE ReturnIdle(w) \/ BackoffElapsed(w) \/ SleepElapsed(w) \/ SleepCanceled(w)
  <2>1. UNCHANGED <<batch, queue, settled, job>>
    BY <1>7 DEF ReturnIdle, BackoffElapsed, SleepElapsed, SleepCanceled
  <2> QED
    BY <1>1, <2>1, InOrderSame
<1> QED
  BY <1>3, <1>5, <1>6, <1>7 DEF Work, WorkAlone

LEMMA OrderNext == OrderInv /\ [Next]_vars => OrderInv'
<1> SUFFICES ASSUME OrderInv, [Next]_vars PROVE OrderInv'
  OBVIOUS
<1>1. AccountInv'
  BY AccountNext DEF OrderInv
<1>2. CASE \E c \in Cores : Produce(c)
  BY <1>1, <1>2, OrderProduce DEF OrderInv
<1>3. CASE \E w \in Workers : Work(w)
  BY <1>1, <1>3, OrderWork DEF OrderInv
<1>4. CASE Shutdown \/ Coordinate \/ UNCHANGED vars
  <2>1. UNCHANGED <<batch, queue, settled, job, prod>> /\ (Stopped => Stopped')
    BY <1>4 DEF Shutdown, Coordinate, ProducersJoined, ShutdownTimeout, Finish, vars, Stopped
  <2>2. \A c \in Cores : InOrder(c)'
    BY <2>1, InOrderSame DEF OrderInv
  <2> QED
    BY <1>1, <2>2 DEF OrderInv
<1> QED
  BY <1>2, <1>3, <1>4 DEF Next

(* The documents of a core are taken in the order they were generated, only   *)
(* the youngest are dropped, and only the last batch may be short.            *)
THEOREM OldestAreFirst == Spec => []OldestFirst
<1>1. OrderInv => OldestFirst
  BY DEF OrderInv, InOrder, OldestFirst
<1> QED
  BY <1>1, OrderInit, OrderNext, PTL DEF Spec

-----------------------------------------------------------------------------
(* A set of numbers up to n has a least and a greatest member. *)
LEMMA LeastMember ==
    ASSUME NEW D, D \subseteq Nat, D # {}
    PROVE  \E m \in D : \A d \in D : m <= d
<1>1. PICK m \in D : \A d \in D : <<d, m>> \notin OpToRel(<, Nat)
  BY WFMin, NatLessThanWellFounded, Zenon
<1>2. \A d \in D : ~(d < m)
  BY <1>1, Zenon DEF OpToRel
<1> QED
  BY <1>2

LEMMA GreatestMember ==
    ASSUME NEW n \in Nat, NEW D, D \subseteq 1..n, D # {}
    PROVE  \E m \in D : \A d \in D : d <= m
<1> DEFINE E == {n - d : d \in D}
<1>1. E \subseteq Nat /\ E # {}
  <2>1. \A d \in D : n - d \in Nat
    OBVIOUS
  <2>2. E \subseteq Nat
    BY <2>1
  <2>3. PICK d \in D : TRUE
    OBVIOUS
  <2>4. n - d \in E
    OBVIOUS
  <2> QED
    BY <2>2, <2>4
<1>2. \A d \in D : d \in Nat /\ n - d \in E
  OBVIOUS
<1>3. \A e \in E : \E m \in D : e = n - m
  OBVIOUS
<1> HIDE DEF E
<1>4. \E e \in E : \A f \in E : e <= f
  BY <1>1, LeastMember
<1>5. PICK e \in E : \A f \in E : e <= f
  BY <1>4
<1>6. PICK m \in D : e = n - m
  BY <1>3
<1>7. ASSUME NEW d \in D PROVE d <= m
  <2>1. n - m <= n - d /\ m \in Nat /\ d \in Nat
    BY <1>2, <1>5, <1>6
  <2> QED
    BY <2>1
<1> QED
  BY <1>7

-----------------------------------------------------------------------------
(* What the refinement needs besides: workers of a core hold batches of       *)
(* different ages, only the shutdown timeout cancels them, and no generator   *)
(* goes beyond the bound.                                                     *)
JobsInOrder == \A v, w \in Workers :
                  v # w /\ CoreOf[v] = CoreOf[w]
                     => Before(job[v], job[w]) \/ Before(job[w], job[v])

ForcedLate == /\ forced => phase \in {"forcing", "finished"}
              /\ phase = "forcing" => forced

DocsBounded == \A c \in Cores :
                  /\ stats[c].generatedDocs <= MaxDocs
                  /\ prod[c] = "generate" => stats[c].generatedDocs < MaxDocs

RefineInv == OrderInv /\ CleanInv /\ JobsInOrder /\ ForcedLate /\ DocsBounded

LEMMA RefineInit == Init => RefineInv
<1> SUFFICES ASSUME Init PROVE RefineInv
  OBVIOUS
<1>1. OrderInv /\ CleanInv
  BY OrderInit, AccountInit, ShutdownInit, TidyInit DEF CleanInv
<1>2. JobsInOrder
  BY DEF Init, JobsInOrder, Before
<1>3. ForcedLate
  BY DEF Init, ForcedLate
<1>4. DocsBounded
  BY LimitAssumption DEF Init, DocsBounded
<1> QED
  BY <1>1, <1>2, <1>3, <1>4 DEF RefineInv

(* No worker generates documents, forces the shutdown or changes its phase. *)
LEMMA WorkKeeps ==
    ASSUME TypeInv, NEW w \in Workers, Work(w)
    PROVE  /\ UNCHANGED <<phase, forced, prod, batch>>
           /\ \A c \in Cores : stats'[c].generatedDocs = stats[c].generatedDocs
<1>1. UNCHANGED <<phase, forced, prod, batch>>
  BY DEF Work, WorkAlone, ReceiveJob, ReturnIdle, PostEnds, RequestTimeout, RequestCanceled,
         BackoffElapsed, BackoffCanceled, SleepElapsed, SleepCanceled, AfterPost
<1>2. CoreOf[w] \in Cores
  BY PoolAssumption
<1>3. ASSUME NEW err, AfterPost(w, err)
      PROVE  \A c \in Cores : stats'[c].generatedDocs = stats[c].generatedDocs
  <2>1. CASE Succeed(w, err)
    BY <1>2, <2>1 DEF Succeed, TypeInv, TypeOK, CoreSnapshot
  <2>2. CASE GiveUpCanceled(w, err)
    BY <2>2 DEF GiveUpCanceled
  <2>3. CASE GiveUp(w, err)
    BY <1>2, <2>3 DEF GiveUp, TypeInv, TypeOK, CoreSnapshot
  <2>4. CASE ScheduleRetry(w, err)
    BY <1>2, <2>4 DEF ScheduleRetry, TypeInv, TypeOK, CoreSnapshot
  <2> QED
    BY <1>3, <2>1, <2>2, <2>3, <2>4 DEF AfterPost
<1>4. CASE PostEnds(w) \/ RequestTimeout(w) \/ RequestCanceled(w)
  BY <1>1, <1>3, <1>4 DEF PostEnds, RequestTimeout, RequestCanceled
<1>5. CASE ~(PostEnds(w) \/ RequestTimeout(w) \/ RequestCanceled(w))
  BY <1>1, <1>5 DEF Work, WorkAlone, ReceiveJob, ReturnIdle, BackoffElapsed,
                    BackoffCanceled, SleepElapsed, SleepCanceled
<1> QED
  BY <1>4, <1>5

(* A worker's hands change in two ways only, and only a worker that is        *)
(* canceled gives its batch up as canceled.                                   *)
MayConclude(o) == \/ o = "sent"
                  \/ o = "failed" /\ ~forced
                  \/ o = "canceled" /\ forced

LEMMA WorkMoves ==
    ASSUME NEW w \in Workers, Work(w)
    PROVE  \/ ReceiveJob(w)
           \/ \E o \in Outcome \ {"dropped"} : Release(w, o) /\ MayConclude(o) /\ queue' = queue
           \/ UNCHANGED <<job, queue, settled>>
<1> DEFINE Moves == \/ \E o \in Outcome \ {"dropped"} :
                          Release(w, o) /\ MayConclude(o) /\ queue' = queue
                    \/ UNCHANGED <<job, queue, settled>>
<1>1. ASSUME NEW err, AfterPost(w, err), ~forced => ~IsCanceled(err)
      PROVE  Moves
  <2>1. CASE Succeed(w, err)
    BY <1>1, <2>1 DEF AfterPost, Succeed, MayConclude, Outcome
  <2>2. CASE GiveUpCanceled(w, err)
    BY <1>1, <2>2 DEF AfterPost, GiveUpCanceled, MayConclude, Outcome
  <2>3. CASE GiveUp(w, err)
    BY <1>1, <2>3 DEF AfterPost, GiveUp, MayConclude, Outcome
  <2>4. CASE ScheduleRetry(w, err)
    BY <1>1, <2>4 DEF AfterPost, ScheduleRetry
  <2> QED
    BY <1>1, <2>1, <2>2, <2>3, <2>4 DEF AfterPost
<1> HIDE DEF Moves
<1>2. PostEnds(w) => Moves
  BY <1>1, NotCanceled DEF PostEnds
<1>3. RequestTimeout(w) => Moves
  BY <1>1, NotCanceled DEF RequestTimeout
<1>4. RequestCanceled(w) => Moves
  BY <1>1 DEF RequestCanceled
<1>5. BackoffCanceled(w) => Moves
  BY DEF BackoffCanceled, MayConclude, Outcome, Moves
<1>6. ReturnIdle(w) \/ BackoffElapsed(w) \/ SleepElapsed(w) \/ SleepCanceled(w) => Moves
  BY DEF ReturnIdle, BackoffElapsed, SleepElapsed, SleepCanceled, Moves
<1> QED
  BY <1>2, <1>3, <1>4, <1>5, <1>6 DEF Work, WorkAlone, Moves

LEMMA RefineNext == RefineInv /\ [Next]_vars => RefineInv'
<1> SUFFICES ASSUME RefineInv, [Next]_vars PROVE RefineInv'
  OBVIOUS
<1>1. OrderInv' /\ CleanInv'
  BY OrderNext, TidyNext DEF RefineInv
<1>2. TypeInv /\ TypeOK
  BY DEF RefineInv, OrderInv, AccountInv, TypeInv
<1>3. CASE \E c \in Cores : Produce(c)
  <2>1. PICK c \in Cores : Produce(c)
    BY <1>3
  <2>2. UNCHANGED <<phase, forced, job>>
    BY <2>1 DEF Produce, KeepGoing, Generate, SendBatch, SendInterrupted, StopEmpty,
                FlushPartial, DropPartial
  <2>3. DocsBounded'
    <3>1. CASE KeepGoing(c)
      BY <1>2, <3>1, LimitAssumption DEF KeepGoing, RefineInv, DocsBounded, TypeOK
    <3>2. CASE Generate(c)
      <4>1. /\ stats' = [stats EXCEPT ![c].generatedDocs = stats[c].generatedDocs + 1]
            /\ prod[c] = "generate" /\ prod'[c] # "generate"
            /\ \A d \in Cores \ {c} : prod'[d] = prod[d]
        BY <1>2, <3>2 DEF Generate, TypeOK
      <4>2. \A d \in Cores : stats[d] \in CoreSnapshot
        BY <1>2 DEF TypeOK
      <4>3. stats'[c].generatedDocs = stats[c].generatedDocs + 1
        BY <1>2, <4>1, <4>2 DEF TypeOK, CoreSnapshot
      <4>4. \A d \in Cores \ {c} : stats'[d] = stats[d]
        BY <4>1
      <4>5. stats[c].generatedDocs \in Nat /\ MaxDocs \in Nat
        BY <4>2, LimitAssumption DEF CoreSnapshot
      <4>6. stats[c].generatedDocs < MaxDocs
        BY <4>1 DEF RefineInv, DocsBounded
      <4>7. stats'[c].generatedDocs <= MaxDocs
        BY <4>3, <4>5, <4>6
      <4> QED
        BY <4>1, <4>4, <4>7 DEF RefineInv, DocsBounded
    <3>3. CASE SendBatch(c) \/ SendInterrupted(c) \/ StopEmpty(c) \/ FlushPartial(c)
      BY <1>2, <3>3 DEF SendBatch, SendInterrupted, StopEmpty, FlushPartial,
                        RefineInv, DocsBounded, TypeOK
    <3>4. CASE DropPartial(c)
      BY <1>2, <3>4 DEF DropPartial, RefineInv, DocsBounded, TypeOK, CoreSnapshot
    <3> QED
      BY <2>1, <3>1, <3>2, <3>3, <3>4 DEF Produce
  <2> QED
    BY <1>1, <2>2, <2>3 DEF RefineInv, JobsInOrder, Before, ForcedLate
<1>4. CASE \E w \in Workers : Work(w)
  <2>1. PICK w \in Workers : Work(w)
    BY <1>4
  <2>2. ForcedLate' /\ DocsBounded'
    BY <1>2, <2>1, WorkKeeps DEF RefineInv, ForcedLate, DocsBounded
  <2>3. CASE ReceiveJob(w)
    <3> DEFINE c == CoreOf[w]
    <3>1. /\ job'[w] = Head(queue[c])
          /\ \A v \in Workers \ {w} : job'[v] = job[v]
      BY <1>2, <2>3 DEF ReceiveJob, TypeOK
    <3>2. c \in Cores
      BY PoolAssumption
    <3>3. Head(queue[c]) \subseteq Queued(c)
      BY <2>3, ReceiveMoves DEF RefineInv, OrderInv
    <3>4. Before(Taken(c), Queued(c))
      BY <3>2 DEF RefineInv, OrderInv, InOrder, Ordered
    <3>5. ASSUME NEW v \in Workers, CoreOf[v] = c PROVE Before(job[v], Head(queue[c]))
      <4>1. job[v] \subseteq Taken(c)
        BY <3>5 DEF Taken, Sending, DocsIn, JobsOf, WorkersOf
      <4> QED
        BY <3>3, <3>4, <4>1 DEF Before
    <3>6. JobsInOrder'
      <4> SUFFICES ASSUME NEW u \in Workers, NEW v \in Workers, u # v, CoreOf[u] = CoreOf[v]
                   PROVE  Before(job'[u], job'[v]) \/ Before(job'[v], job'[u])
        BY DEF JobsInOrder, Before
      <4>1. CASE u # w /\ v # w
        BY <3>1, <4>1 DEF RefineInv, JobsInOrder
      <4>2. CASE u = w \/ v = w
        BY <3>1, <3>5, <4>2
      <4> QED
        BY <4>1, <4>2
    <3> QED
      BY <1>1, <2>2, <3>6 DEF RefineInv
  <2>4. ASSUME NEW o, Release(w, o) PROVE JobsInOrder'
    <3>1. \A v \in Workers : job'[v] = IF v = w THEN {} ELSE job[v]
      BY <1>2, <2>4 DEF Release, TypeOK
    <3> QED
      BY <3>1 DEF RefineInv, JobsInOrder, Before
  <2>5. CASE UNCHANGED job
    BY <1>1, <2>2, <2>5 DEF RefineInv, JobsInOrder, Before
  <2> QED
    BY <1>1, <2>1, <2>2, <2>3, <2>4, <2>5, WorkMoves DEF RefineInv
<1>5. CASE Shutdown \/ Coordinate \/ UNCHANGED vars
  <2>1. UNCHANGED <<job, stats, prod>>
    BY <1>5 DEF Shutdown, Coordinate, ProducersJoined, ShutdownTimeout, Finish, vars
  <2>2. ForcedLate'
    BY <1>5 DEF Shutdown, Coordinate, ProducersJoined, ShutdownTimeout, Finish, vars,
                RefineInv, ForcedLate
  <2> QED
    BY <1>1, <2>1, <2>2 DEF RefineInv, JobsInOrder, Before, DocsBounded
<1> QED
  BY <1>3, <1>4, <1>5 DEF Next

-----------------------------------------------------------------------------
(* The refinement mapping. *)
LEMMA MoveIs ==
    ASSUME NEW c \in Cores, NEW D, D # {}, D \subseteq 1..MaxDocs, NEW from, NEW to,
           \A d \in D : StageOf(c, d) = from /\ StageOf(c, d)' = to,
           \A d \in (1..MaxDocs) \ D : StageOf(c, d)' = StageOf(c, d),
           \A e \in Cores \ {c}, d \in 1..MaxDocs : StageOf(e, d)' = StageOf(e, d),
           phase' = phase
    PROVE  Ledger!Move(c, D, from, to)
<1> DEFINE stage == [e \in Cores |-> [d \in 1..MaxDocs |-> StageOf(e, d)]]
<1>1. D \subseteq Ledger!At(c, from)
  BY DEF Ledger!At, Ledger!Doc
<1>2. stage' = [stage EXCEPT ![c] = [d \in 1..MaxDocs |-> IF d \in D THEN to ELSE stage[c][d]]]
  <2>1. \A e \in Cores \ {c} : stage'[e] = stage[e]
    OBVIOUS
  <2>2. stage'[c] = [d \in 1..MaxDocs |-> IF d \in D THEN to ELSE stage[c][d]]
    OBVIOUS
  <2> QED
    BY <2>1, <2>2
<1> QED
  BY <1>1, <1>2 DEF Ledger!Move, Ledger!Doc

(* The stage of a document names the place that holds it. *)
Places(c) ==
    \A d \in 1..MaxDocs :
        /\ StageOf(c, d) = "none"    <=> d > stats[c].generatedDocs
        /\ StageOf(c, d) = "batched" <=> d \in batch[c]
        /\ StageOf(c, d) = "queued"  <=> d \in Queued(c)
        /\ StageOf(c, d) = "sending" <=> d \in Sending(c)
        /\ \A o \in Outcome : StageOf(c, d) = o <=> d \in settled[c][o]
        /\ StageOf(c, d) \in {"none", "batched", "queued", "sending"} \cup Outcome

LEMMA StagePlaces == AccountInv => \A c \in Cores : Places(c)
<1> SUFFICES ASSUME AccountInv, NEW c \in Cores, NEW d \in 1..MaxDocs
             PROVE  /\ StageOf(c, d) = "none"    <=> d > stats[c].generatedDocs
                    /\ StageOf(c, d) = "batched" <=> d \in batch[c]
                    /\ StageOf(c, d) = "queued"  <=> d \in Queued(c)
                    /\ StageOf(c, d) = "sending" <=> d \in Sending(c)
                    /\ \A o \in Outcome : StageOf(c, d) = o <=> d \in settled[c][o]
                    /\ StageOf(c, d) \in {"none", "batched", "queued", "sending"} \cup Outcome
  BY DEF Places
<1> DEFINE n == stats[c].generatedDocs
           ended == CHOOSE o \in Outcome : d \in settled[c][o]
<1>1. Accounted(c) /\ settled[c] \in [Outcome -> DocSet] /\ n \in Nat
  BY DEF AccountInv, DocsAccounted, TypeInv, TypeOK, CoreSnapshot
<1>2. /\ d \in Queued(c) <=> \E i \in DOMAIN queue[c] : d \in queue[c][i]
      /\ d \in Sending(c) <=> \E w \in Workers : CoreOf[w] = c /\ d \in job[w]
  BY DEF Queued, Sending, DocsIn, JobsOf, WorkersOf
<1>3. d \in Settled(c) <=> \E o \in Outcome : d \in settled[c][o]
  BY <1>1 DEF Settled, DocsIn
<1>4. \A o, p \in Outcome : d \in settled[c][o] /\ d \in settled[c][p] => o = p
  BY <1>1 DEF Accounted, PairwiseDisjoint
<1>5. d \in Settled(c) => ended \in Outcome /\ d \in settled[c][ended]
  BY <1>3
<1>6. /\ d \in 1..n <=> \/ d \in batch[c] \/ d \in Queued(c)
                        \/ d \in Sending(c) \/ d \in Settled(c)
      /\ d \in batch[c] => d \notin Queued(c) /\ d \notin Sending(c) /\ d \notin Settled(c)
      /\ d \in Queued(c) => d \notin Sending(c) /\ d \notin Settled(c)
      /\ d \in Sending(c) => d \notin Settled(c)
  BY <1>1 DEF Accounted
<1>7. d > n <=> d \notin 1..n
  BY <1>1
<1> HIDE DEF n, ended
<1>8. CASE d > n
  <2>1. d \notin batch[c] /\ d \notin Queued(c) /\ d \notin Sending(c) /\ d \notin Settled(c)
    BY <1>6, <1>7, <1>8
  <2>2. StageOf(c, d) = "none"
    BY <1>2, <1>8, <2>1 DEF StageOf, n
  <2> QED
    BY <1>3, <1>8, <2>1, <2>2 DEF Outcome, n
<1>9. CASE d \in batch[c]
  <2>1. ~(d > n) /\ d \notin Queued(c) /\ d \notin Sending(c) /\ d \notin Settled(c)
    BY <1>6, <1>7, <1>9
  <2>2. StageOf(c, d) = "batched"
    BY <1>2, <1>9, <2>1 DEF StageOf, n
  <2> QED
    BY <1>3, <1>9, <2>1, <2>2 DEF Outcome, n
<1>10. CASE d \in Queued(c)
  <2>1. ~(d > n) /\ d \notin batch[c] /\ d \notin Sending(c) /\ d \notin Settled(c)
    BY <1>6, <1>7, <1>10
  <2>2. StageOf(c, d) = "queued"
    BY <1>2, <1>10, <2>1 DEF StageOf, n
  <2> QED
    BY <1>3, <1>10, <2>1, <2>2 DEF Outcome, n
<1>11. CASE d \in Sending(c)
  <2>1. ~(d > n) /\ d \notin batch[c] /\ d \notin Queued(c) /\ d \notin Settled(c)
    BY <1>6, <1>7, <1>11
  <2>2. StageOf(c, d) = "sending"
    BY <1>2, <1>11, <2>1 DEF StageOf, n
  <2> QED
    BY <1>3, <1>11, <2>1, <2>2 DEF Outcome, n
<1>12. CASE d \in Settled(c)
  <2>1. ~(d > n) /\ d \notin batch[c] /\ d \notin Queued(c) /\ d \notin Sending(c)
    BY <1>6, <1>7, <1>12
  <2>2. StageOf(c, d) = ended /\ ended \in Outcome /\ d \in settled[c][ended]
    BY <1>2, <1>5, <1>12, <2>1 DEF StageOf, n, ended
  <2>3. \A o \in Outcome : o = ended <=> d \in settled[c][o]
    BY <1>4, <2>2
  <2> QED
    BY <2>1, <2>2, <2>3 DEF Outcome, n
<1> QED
  BY <1>6, <1>7, <1>8, <1>9, <1>10, <1>11, <1>12

LEMMA StagePlacesNext == AccountInv' => (\A c \in Cores : Places(c))'
BY StagePlaces, PTL

(* A document stays at its stage when it stays where it is. *)
LEMMA SameStage ==
    ASSUME NEW c, Places(c), Places(c)', NEW d \in 1..MaxDocs,
           d > stats'[c].generatedDocs <=> d > stats[c].generatedDocs,
           d \in batch'[c] <=> d \in batch[c],
           d \in Queued(c)' <=> d \in Queued(c),
           d \in Sending(c)' <=> d \in Sending(c),
           \A o \in Outcome : d \in settled'[c][o] <=> d \in settled[c][o]
    PROVE  StageOf(c, d)' = StageOf(c, d)
BY DEF Places

LEMMA AtPlaces ==
    ASSUME RefineInv, NEW c \in Cores
    PROVE  /\ Ledger!At(c, "none") = {d \in 1..MaxDocs : d > stats[c].generatedDocs}
           /\ Ledger!At(c, "batched") = batch[c]
           /\ Ledger!At(c, "queued") = Queued(c)
           /\ Ledger!At(c, "sending") = Sending(c)
<1>1. Places(c) /\ AccountInv
  BY StagePlaces DEF RefineInv, OrderInv
<1>2. stats[c].generatedDocs \in Nat /\ stats[c].generatedDocs <= MaxDocs /\ MaxDocs \in Nat
  BY <1>1, PlacesExist, LimitAssumption DEF RefineInv, DocsBounded
<1>3. 1..stats[c].generatedDocs \subseteq 1..MaxDocs
  BY <1>2
<1>4. batch[c] \subseteq 1..MaxDocs /\ Queued(c) \subseteq 1..MaxDocs
      /\ Sending(c) \subseteq 1..MaxDocs
  <2>1. Accounted(c)
    BY <1>1 DEF AccountInv, DocsAccounted
  <2> QED
    BY <1>3, <2>1 DEF Accounted
<1> QED
  BY <1>1, <1>4 DEF Places, Ledger!At, Ledger!Doc

(* A core that a step leaves alone keeps its stages. *)
SameCore(c) ==
    /\ batch'[c] = batch[c] /\ queue'[c] = queue[c] /\ settled'[c] = settled[c]
    /\ stats'[c].generatedDocs = stats[c].generatedDocs
    /\ \A w \in WorkersOf(c) : job'[w] = job[w]

SameStages(c) == \A d \in 1..MaxDocs : StageOf(c, d)' = StageOf(c, d)

LEMMA SameCoreStages ==
    ASSUME NEW c, Places(c), Places(c)', SameCore(c)
    PROVE  SameStages(c)
<1>1. JobsOf(c)' = JobsOf(c)
  BY DEF SameCore, JobsOf
<1>2. Queued(c)' = Queued(c) /\ Sending(c)' = Sending(c)
  BY <1>1 DEF SameCore, Queued, Sending
<1> QED
  BY <1>2, SameStage DEF SameCore, SameStages

LEMMA LedgerStutters ==
    ASSUME \A c \in Cores : SameStages(c), phase' = phase
    PROVE  UNCHANGED Ledger!vars
<1>1. [c \in Cores |-> [d \in 1..MaxDocs |-> StageOf(c, d)]]'
        = [c \in Cores |-> [d \in 1..MaxDocs |-> StageOf(c, d)]]
  BY DEF SameStages
<1> QED
  BY <1>1 DEF Ledger!vars

(* The producer of a core that has not returned: the ledger may still produce. *)
LEMMA ProduceOthers ==
    ASSUME RefineInv, RefineInv', NEW c \in Cores, Produce(c)
    PROVE  /\ phase' = phase /\ Ledger!Producing
           /\ \A e \in Cores : Places(e) /\ Places(e)'
           /\ \A e \in Cores \ {c} : SameStages(e)
<1> USE DEF RefineInv, OrderInv, AccountInv, TypeInv, TypeOK
<1>1. phase' = phase /\ prod[c] # "returned"
  BY ReturnedProducer
<1>2. phase \in {"running", "stopping"}
  BY <1>1 DEF CleanInv, ShutdownInv, AllReturned, Phase
<1>3. \A e \in Cores : Places(e) /\ Places(e)'
  BY StagePlaces, StagePlacesNext
<1>4. ASSUME NEW e \in Cores \ {c} PROVE SameCore(e)
  BY <1>4 DEF SameCore, Produce, KeepGoing, Generate, SendBatch, SendInterrupted, StopEmpty,
              FlushPartial, DropPartial, Settle
<1> QED
  BY <1>1, <1>2, <1>3, <1>4, SameCoreStages DEF Ledger!Producing

LEMMA LedgerGenerate ==
    ASSUME RefineInv, RefineInv', NEW c \in Cores, Generate(c)
    PROVE  Ledger!Generate(c)
<1> DEFINE n == stats[c].generatedDocs
<1>1. /\ phase' = phase /\ Ledger!Producing
      /\ Places(c) /\ Places(c)'
      /\ \A e \in Cores \ {c} : SameStages(e)
  BY ProduceOthers DEF Produce
<1>2. stats \in [Cores -> CoreSnapshot] /\ batch \in [Cores -> DocSet]
  BY DEF RefineInv, OrderInv, AccountInv, TypeInv, TypeOK
<1>3. n \in Nat /\ MaxDocs \in Nat /\ n < MaxDocs
  BY <1>2, LimitAssumption DEF RefineInv, DocsBounded, Generate, CoreSnapshot
<1>4. /\ batch'[c] = batch[c] \cup {n + 1} /\ stats'[c].generatedDocs = n + 1
      /\ Queued(c)' = Queued(c) /\ Sending(c)' = Sending(c) /\ settled' = settled
  BY <1>2 DEF Generate, CoreSnapshot, Queued, Sending, JobsOf
<1>5. PICK m \in 1..MaxDocs : m = n + 1
  BY <1>3
<1>6. StageOf(c, m) = "none" /\ StageOf(c, m)' = "batched"
  BY <1>1, <1>3, <1>4, <1>5 DEF Places
<1>7. ASSUME NEW d \in (1..MaxDocs) \ {m} PROVE StageOf(c, d)' = StageOf(c, d)
  <2>1. d > n + 1 <=> d > n
    BY <1>3, <1>5
  <2> QED
    BY <1>1, <1>4, <1>5, <2>1, SameStage
<1>8. Ledger!Move(c, {m}, "none", "batched")
  BY <1>1, <1>6, <1>7, MoveIs DEF SameStages
<1>9. \A e \in Ledger!At(c, "none") : m <= e
  BY <1>3, <1>5, AtPlaces
<1> QED
  BY <1>1, <1>5, <1>8, <1>9 DEF Ledger!Generate, Ledger!Doc

LEMMA LedgerEnqueue ==
    ASSUME RefineInv, RefineInv', NEW c \in Cores, SendBatch(c) \/ FlushPartial(c)
    PROVE  Ledger!Enqueue(c) \/ UNCHANGED Ledger!vars
<1>1. /\ phase' = phase /\ Ledger!Producing
      /\ \A e \in Cores : Places(e) /\ Places(e)'
      /\ \A e \in Cores \ {c} : SameStages(e)
  BY ProduceOthers DEF Produce
<1>2. PICK D : D = batch[c]
  OBVIOUS
<1>3. queue[c] \in Seq(DocSet) /\ batch[c] \in DocSet /\ c \in DOMAIN queue /\ c \in DOMAIN batch
  BY DEF RefineInv, OrderInv, AccountInv, TypeInv, TypeOK
<1>4. /\ batch'[c] = {} /\ queue'[c] = Append(queue[c], batch[c])
      /\ settled' = settled /\ stats' = stats /\ Sending(c)' = Sending(c)
  BY <1>3 DEF SendBatch, FlushPartial, Sending, JobsOf
<1>5. Queued(c)' = Queued(c) \cup D
  BY <1>2, <1>3, <1>4, DocsInAppend DEF Queued
<1>6. Ledger!At(c, "batched") = D /\ D \subseteq 1..MaxDocs
  <2>1. Ledger!At(c, "batched") = D
    BY <1>2, AtPlaces
  <2> QED
    BY <2>1 DEF Ledger!At, Ledger!Doc
<1>7. \A d \in D : StageOf(c, d) = "batched" /\ StageOf(c, d)' = "queued"
  BY <1>1, <1>2, <1>5, <1>6 DEF Places
<1>8. \A d \in (1..MaxDocs) \ D : StageOf(c, d)' = StageOf(c, d)
  BY <1>1, <1>2, <1>4, <1>5, SameStage
<1>9. CASE D = {}
  BY <1>1, <1>8, <1>9, LedgerStutters DEF SameStages
<1>10. CASE D # {}
  <2>1. Ledger!Move(c, D, "batched", "queued")
    BY <1>1, <1>6, <1>7, <1>8, <1>10, MoveIs DEF SameStages
  <2> QED
    BY <1>1, <1>6, <2>1 DEF Ledger!Enqueue
<1> QED
  BY <1>9, <1>10

LEMMA LedgerDrop ==
    ASSUME RefineInv, RefineInv', NEW c \in Cores, DropPartial(c)
    PROVE  Ledger!Drop(c) \/ UNCHANGED Ledger!vars
<1>1. /\ phase' = phase /\ Ledger!Producing
      /\ \A e \in Cores : Places(e) /\ Places(e)'
      /\ \A e \in Cores \ {c} : SameStages(e)
  BY ProduceOthers DEF Produce
<1>2. PICK D : D = batch[c]
  OBVIOUS
<1>3. TypeOK
  BY DEF RefineInv, OrderInv, AccountInv, TypeInv
<1>4. /\ batch'[c] = {} /\ queue' = queue
      /\ stats'[c].generatedDocs = stats[c].generatedDocs
      /\ Queued(c)' = Queued(c) /\ Sending(c)' = Sending(c)
  BY <1>3 DEF DropPartial, TypeOK, CoreSnapshot, Queued, Sending, JobsOf
<1>5. /\ settled'[c]["dropped"] = settled[c]["dropped"] \cup D
      /\ \A o \in Outcome \ {"dropped"} : settled'[c][o] = settled[c][o]
  <2>1. settled'[c] = [settled[c] EXCEPT !["dropped"] = settled[c]["dropped"] \cup batch[c]]
    BY <1>3 DEF DropPartial, Settle, TypeOK
  <2>2. settled[c] \in [Outcome -> DocSet]
    BY <1>3 DEF TypeOK
  <2> QED
    BY <1>2, <2>1, <2>2 DEF Outcome
<1>6. Ledger!At(c, "batched") = D /\ D \subseteq 1..MaxDocs
  <2>1. Ledger!At(c, "batched") = D
    BY <1>2, AtPlaces
  <2> QED
    BY <2>1 DEF Ledger!At, Ledger!Doc
<1>7. \A d \in D : StageOf(c, d) = "batched" /\ StageOf(c, d)' = "dropped"
  BY <1>1, <1>2, <1>5, <1>6 DEF Places, Outcome
<1>8. \A d \in (1..MaxDocs) \ D : StageOf(c, d)' = StageOf(c, d)
  BY <1>1, <1>2, <1>4, <1>5, SameStage
<1>9. phase = "stopping"
  BY <1>1 DEF DropPartial, Stopped, Ledger!Producing
<1>10. CASE D = {}
  BY <1>1, <1>8, <1>10, LedgerStutters DEF SameStages
<1>11. CASE D # {}
  <2>1. Ledger!Move(c, D, "batched", "dropped")
    BY <1>1, <1>6, <1>7, <1>8, <1>11, MoveIs DEF SameStages
  <2> QED
    BY <1>6, <1>9, <2>1 DEF Ledger!Drop
<1> QED
  BY <1>10, <1>11

LEMMA LedgerProduce ==
    ASSUME RefineInv, RefineInv', NEW c \in Cores, Produce(c)
    PROVE  Ledger!Next \/ UNCHANGED Ledger!vars
<1>1. CASE KeepGoing(c) \/ SendInterrupted(c) \/ StopEmpty(c)
  <2>1. /\ phase' = phase
        /\ \A e \in Cores : Places(e) /\ Places(e)' /\ SameCore(e)
    BY <1>1, ProduceOthers DEF KeepGoing, SendInterrupted, StopEmpty, SameCore
  <2> QED
    BY <2>1, SameCoreStages, LedgerStutters
<1>2. CASE Generate(c)
  BY <1>2, LedgerGenerate DEF Ledger!Next
<1>3. CASE SendBatch(c) \/ FlushPartial(c)
  BY <1>3, LedgerEnqueue DEF Ledger!Next
<1>4. CASE DropPartial(c)
  BY <1>4, LedgerDrop DEF Ledger!Next
<1> QED
  BY <1>1, <1>2, <1>3, <1>4 DEF Produce

-----------------------------------------------------------------------------
(* A worker of core c that has not returned: the ledger may still work. *)
LEMMA WorkOthers ==
    ASSUME RefineInv, RefineInv', NEW w \in Workers, NEW c, c = CoreOf[w], Work(w)
    PROVE  /\ phase' = phase /\ Ledger!Working /\ c \in Cores
           /\ \A e \in Cores : Places(e) /\ Places(e)'
           /\ \A e \in Cores \ {c} : SameStages(e)
<1> USE DEF RefineInv, OrderInv, AccountInv, TypeInv, TypeOK
<1>1. phase' = phase /\ pc[w] # "returned"
  BY ReturnedWorker
<1>2. phase # "finished"
  BY <1>1 DEF CleanInv, ShutdownInv, AllReturned
<1>3. \A e \in Cores : Places(e) /\ Places(e)'
  BY StagePlaces, StagePlacesNext
<1>4. ASSUME NEW e \in Cores \ {c} PROVE SameCore(e)
  <2>1. batch' = batch /\ stats'[e].generatedDocs = stats[e].generatedDocs
    BY WorkKeeps
  <2>2. queue'[e] = queue[e] /\ settled'[e] = settled[e]
        /\ \A v \in WorkersOf(e) : job'[v] = job[v]
    <3>1. CASE ReceiveJob(w)
      BY <3>1 DEF ReceiveJob, WorkersOf
    <3>2. ASSUME NEW o, Release(w, o), queue' = queue
          PROVE  /\ queue'[e] = queue[e] /\ settled'[e] = settled[e]
                 /\ \A v \in WorkersOf(e) : job'[v] = job[v]
      BY <3>2 DEF Release, Settle, WorkersOf
    <3> QED
      BY <3>1, <3>2, WorkMoves
  <2> QED
    BY <2>1, <2>2 DEF SameCore
<1>5. c \in Cores
  BY PoolAssumption
<1> QED
  BY <1>1, <1>2, <1>3, <1>4, <1>5, SameCoreStages DEF Ledger!Working

LEMMA LedgerTake ==
    ASSUME RefineInv, RefineInv', NEW w \in Workers, NEW c, c = CoreOf[w], ReceiveJob(w)
    PROVE  Ledger!Take(c) \/ UNCHANGED Ledger!vars
<1>1. /\ phase' = phase /\ Ledger!Working /\ c \in Cores
      /\ \A e \in Cores : Places(e) /\ Places(e)'
      /\ \A e \in Cores \ {c} : SameStages(e)
  BY WorkOthers DEF Work, WorkAlone
<1>2. PICK D : D = Head(queue[c])
  OBVIOUS
<1>3. /\ Queued(c)' = Queued(c) \ D /\ Sending(c)' = Sending(c) \cup D
      /\ D \subseteq Queued(c)
  BY <1>2, ReceiveMoves DEF RefineInv, OrderInv
<1>4. batch' = batch /\ settled' = settled /\ stats' = stats
  BY DEF ReceiveJob
<1>5. Ledger!At(c, "queued") = Queued(c) /\ Queued(c) \subseteq 1..MaxDocs
  <2>1. Ledger!At(c, "queued") = Queued(c)
    BY <1>1, AtPlaces
  <2> QED
    BY <2>1 DEF Ledger!At, Ledger!Doc
<1>6. \A d \in D : StageOf(c, d) = "queued" /\ StageOf(c, d)' = "sending"
  BY <1>1, <1>3, <1>5 DEF Places
<1>7. \A d \in (1..MaxDocs) \ D : StageOf(c, d)' = StageOf(c, d)
  BY <1>1, <1>3, <1>4, SameStage
<1>8. CASE D = {}
  BY <1>1, <1>7, <1>8, LedgerStutters DEF SameStages
<1>9. CASE D # {}
  <2>1. Ledger!Move(c, D, "queued", "sending")
    BY <1>1, <1>3, <1>5, <1>6, <1>7, <1>9, MoveIs DEF SameStages
  <2>2. PICK last \in D : \A d \in D : d <= last
    BY <1>3, <1>5, <1>9, LimitAssumption, GreatestMember
  <2>3. \A d \in Queued(c) \ D : last < d
    <3>1. Before(Taken(c)', Queued(c)')
      BY <1>1 DEF RefineInv, OrderInv, InOrder, Ordered
    <3>2. last \in Taken(c)'
      BY <1>3 DEF Taken
    <3> QED
      BY <1>3, <3>1, <3>2 DEF Before
  <2>4. last \in Nat /\ Queued(c) \subseteq Nat
    BY <1>3, <1>5
  <2>5. D = {d \in Queued(c) : d <= last}
    <3>1. \A d \in Queued(c) \ D : ~(d <= last)
      BY <2>3, <2>4
    <3> QED
      BY <1>3, <2>2, <3>1
  <2> QED
    BY <1>1, <1>3, <1>5, <2>1, <2>5 DEF Ledger!Take
<1> QED
  BY <1>8, <1>9

LEMMA LedgerConclude ==
    ASSUME RefineInv, RefineInv', NEW w \in Workers, NEW c, c = CoreOf[w], Work(w),
           NEW o \in Outcome \ {"dropped"}, Release(w, o), MayConclude(o), queue' = queue
    PROVE  Ledger!Conclude(c, o) \/ UNCHANGED Ledger!vars
<1>1. /\ phase' = phase /\ Ledger!Working /\ c \in Cores
      /\ \A e \in Cores : Places(e) /\ Places(e)'
      /\ \A e \in Cores \ {c} : SameStages(e)
  BY WorkOthers
<1>2. PICK D : D = job[w]
  OBVIOUS
<1>3. TypeOK /\ TypeInv /\ AccountInv
  BY DEF RefineInv, OrderInv, AccountInv, TypeInv
<1>4. Sending(c)' = Sending(c) \ D /\ D \subseteq Sending(c)
  BY <1>2, <1>3, ReleaseMoves
<1>5. /\ settled'[c][o] = settled[c][o] \cup D
      /\ \A p \in Outcome \ {o} : settled'[c][p] = settled[c][p]
  <2>1. settled'[c] = [settled[c] EXCEPT ![o] = settled[c][o] \cup job[w]]
    BY <1>1, <1>3 DEF Release, Settle, TypeOK
  <2>2. settled[c] \in [Outcome -> DocSet]
    BY <1>1, <1>3 DEF TypeOK
  <2> QED
    BY <1>2, <2>1, <2>2
<1>6. /\ batch' = batch /\ Queued(c)' = Queued(c)
      /\ stats'[c].generatedDocs = stats[c].generatedDocs
  BY <1>1, <1>3, WorkKeeps DEF Queued
<1>7. Ledger!At(c, "sending") = Sending(c) /\ Sending(c) \subseteq 1..MaxDocs
  <2>1. Ledger!At(c, "sending") = Sending(c)
    BY <1>1, AtPlaces
  <2> QED
    BY <2>1 DEF Ledger!At, Ledger!Doc
<1>8. \A d \in D : StageOf(c, d) = "sending" /\ StageOf(c, d)' = o
  BY <1>1, <1>4, <1>5, <1>7 DEF Places
<1>9. \A d \in (1..MaxDocs) \ D : StageOf(c, d)' = StageOf(c, d)
  <2>1. \A d \in (1..MaxDocs) \ D, p \in Outcome : d \in settled'[c][p] <=> d \in settled[c][p]
    BY <1>5
  <2> QED
    BY <1>1, <1>4, <1>6, <2>1, SameStage
<1>10. CASE D = {}
  BY <1>1, <1>9, <1>10, LedgerStutters DEF SameStages
<1>11. CASE D # {}
  <2>1. Ledger!Move(c, D, "sending", o)
    BY <1>1, <1>4, <1>7, <1>8, <1>9, <1>11, MoveIs DEF SameStages
  <2>2. D \subseteq Nat /\ Sending(c) \subseteq Nat /\ D \subseteq 1..MaxDocs
    BY <1>4, <1>7
  <2>3. PICK first \in D : \A d \in D : first <= d
    BY <1>11, <2>2, LeastMember
  <2>4. PICK last \in D : \A d \in D : d <= last
    BY <1>11, <2>2, LimitAssumption, GreatestMember
  <2>5. ASSUME NEW d \in Sending(c) \ D PROVE d < first \/ last < d
    <3>1. PICK v \in Workers : CoreOf[v] = c /\ d \in job[v]
      BY <2>5 DEF Sending, DocsIn, JobsOf, WorkersOf
    <3>2. Before(job[v], D) \/ Before(D, job[v])
      BY <1>2, <2>5, <3>1 DEF RefineInv, JobsInOrder
    <3> QED
      BY <3>1, <3>2 DEF Before
  <2>6. D = {d \in Sending(c) : first <= d /\ d <= last}
    <3>1. \A d \in Sending(c) \ D : ~(first <= d /\ d <= last)
      BY <2>2, <2>5
    <3> QED
      BY <1>4, <2>3, <2>4, <3>1
  <2>7. \/ o = "sent" /\ Ledger!Working
        \/ o = "failed" /\ Ledger!Working /\ phase # "forcing"
        \/ o = "canceled" /\ phase = "forcing"
    BY <1>1 DEF MayConclude, RefineInv, ForcedLate, Ledger!Working
  <2> QED
    <3>1. first \in Ledger!At(c, "sending") /\ last \in Ledger!At(c, "sending")
      BY <1>4, <1>7
    <3>2. Ledger!Move(c, {d \in Ledger!At(c, "sending") : first <= d /\ d <= last},
                      "sending", o)
      <4>1. {d \in Ledger!At(c, "sending") : first <= d /\ d <= last} = D
        BY <1>7, <2>6
      <4> QED
        BY <2>1, <4>1
    <3> QED
      BY <2>7, <3>1, <3>2 DEF Ledger!Conclude
<1> QED
  BY <1>10, <1>11

LEMMA LedgerWork ==
    ASSUME RefineInv, RefineInv', NEW w \in Workers, Work(w)
    PROVE  Ledger!Next \/ UNCHANGED Ledger!vars
<1>1. PICK c : c = CoreOf[w]
  OBVIOUS
<1>2. /\ phase' = phase /\ c \in Cores
      /\ \A e \in Cores : Places(e) /\ Places(e)'
      /\ \A e \in Cores \ {c} : SameStages(e)
  BY <1>1, WorkOthers
<1>3. CASE ReceiveJob(w)
  BY <1>1, <1>2, <1>3, LedgerTake DEF Ledger!Next
<1>4. ASSUME NEW o \in Outcome \ {"dropped"}, Release(w, o), MayConclude(o), queue' = queue
      PROVE  Ledger!Next \/ UNCHANGED Ledger!vars
  <2>1. Ledger!Conclude(c, o) \/ UNCHANGED Ledger!vars
    BY <1>1, <1>4, LedgerConclude
  <2>2. o \in {"sent", "failed", "canceled"}
    BY DEF Outcome
  <2> QED
    BY <1>2, <2>1, <2>2 DEF Ledger!Next
<1>5. CASE UNCHANGED <<job, queue, settled>>
  <2>1. SameCore(c)
    BY <1>2, <1>5, WorkKeeps DEF SameCore, RefineInv, OrderInv, AccountInv
  <2> QED
    BY <1>2, <2>1, SameCoreStages, LedgerStutters
<1> QED
  BY <1>3, <1>4, <1>5, WorkMoves

-----------------------------------------------------------------------------
LEMMA LedgerInit == Init => Ledger!Init
<1> SUFFICES ASSUME Init PROVE Ledger!Init
  OBVIOUS
<1>1. ASSUME NEW c \in Cores, NEW d \in 1..MaxDocs PROVE StageOf(c, d) = "none"
  <2>1. Places(c)
    BY AccountInit, StagePlaces
  <2>2. stats[c].generatedDocs = 0
    BY DEF Init
  <2> QED
    BY <2>1, <2>2 DEF Places
<1> QED
  BY <1>1 DEF Init, Ledger!Init, Ledger!Doc

LEMMA LedgerCoordinate ==
    ASSUME RefineInv, RefineInv', Shutdown \/ Coordinate
    PROVE  Ledger!Next
<1>1. \A c \in Cores : Places(c) /\ Places(c)' /\ SameCore(c)
  <2>1. \A c \in Cores : Places(c) /\ Places(c)'
    BY StagePlaces, StagePlacesNext DEF RefineInv, OrderInv
  <2> QED
    BY <2>1 DEF SameCore, Shutdown, Coordinate, ProducersJoined, ShutdownTimeout, Finish
<1>2. [c \in Cores |-> [d \in 1..MaxDocs |-> StageOf(c, d)]]'
        = [c \in Cores |-> [d \in 1..MaxDocs |-> StageOf(c, d)]]
  BY <1>1, SameCoreStages DEF SameStages
<1>3. CASE Shutdown
  BY <1>2, <1>3 DEF Shutdown, Ledger!Next, Ledger!Stop
<1>4. CASE ShutdownTimeout
  BY <1>2, <1>4 DEF ShutdownTimeout, Ledger!Next, Ledger!Force
<1>5. CASE ProducersJoined
  <2>1. \A c \in Cores : Ledger!At(c, "batched") = {}
    BY <1>5, AtPlaces DEF ProducersJoined, RefineInv, CleanInv, Tidy, BatchesOut
  <2> QED
    BY <1>2, <1>5, <2>1 DEF ProducersJoined, Ledger!Next, Ledger!Drain
<1>6. CASE Finish
  <2>1. ASSUME NEW c \in Cores PROVE Ledger!At(c, "sending") = {}
    <3>1. \A w \in WorkersOf(c) : job[w] = {}
      BY <1>6 DEF Finish, RefineInv, OrderInv, AccountInv, HandsEmpty, WorkersOf
    <3>2. Sending(c) = {}
      BY <3>1 DEF Sending, JobsOf, DocsIn
    <3> QED
      BY <3>2, AtPlaces
  <2>2. ASSUME phase = "draining", NEW c \in Cores PROVE Ledger!At(c, "queued") = {}
    <3>1. PICK w \in Workers : CoreOf[w] = c
      BY PoolAssumption DEF WorkersOf
    <3>2. ~forced /\ pc[w] = "returned"
      BY <1>6, <2>2 DEF Finish, RefineInv, ForcedLate
    <3>3. queue[c] = <<>>
      BY <3>1, <3>2 DEF RefineInv, CleanInv, Tidy, Drained
    <3>4. Queued(c) = {}
      BY <3>3 DEF Queued, DocsIn
    <3> QED
      BY <3>4, AtPlaces
  <2> QED
    BY <1>2, <1>6, <2>1, <2>2 DEF Finish, Ledger!Next, Ledger!Finish
<1> QED
  BY <1>3, <1>4, <1>5, <1>6 DEF Coordinate

LEMMA LedgerNext == RefineInv /\ RefineInv' /\ [Next]_vars => [Ledger!Next]_(Ledger!vars)
<1> SUFFICES ASSUME RefineInv, RefineInv', [Next]_vars
             PROVE  Ledger!Next \/ UNCHANGED Ledger!vars
  OBVIOUS
<1>1. CASE UNCHANGED vars
  <2>1. \A c \in Cores : Places(c) /\ Places(c)' /\ SameCore(c)
    <3>1. \A c \in Cores : Places(c) /\ Places(c)'
      BY StagePlaces, StagePlacesNext DEF RefineInv, OrderInv
    <3> QED
      BY <1>1, <3>1 DEF SameCore, vars
  <2>2. \A c \in Cores : SameStages(c)
    BY <2>1, SameCoreStages
  <2> QED
    BY <1>1, <2>2, LedgerStutters DEF vars
<1> QED
  BY <1>1, LedgerProduce, LedgerWork, LedgerCoordinate DEF Next

(* The pipeline does to each document what the ledger promises: forward only, *)
(* oldest first, dropped by the stop, canceled by the timeout, none left      *)
(* behind by a run that drained.                                              *)
THEOREM PipelineKeepsLedger == Spec => ImplementsLedger
<1>1. Init => RefineInv /\ Ledger!Init
  BY RefineInit, LedgerInit
<1>2. RefineInv /\ [Next]_vars => RefineInv'
  BY RefineNext
<1>3. RefineInv /\ RefineInv' /\ [Next]_vars => [Ledger!Next]_(Ledger!vars)
  BY LedgerNext
<1> QED
  BY <1>1, <1>2, <1>3, PTL DEF Spec, ImplementsLedger, Ledger!Spec

-----------------------------------------------------------------------------
(* What the counters count.  Batches are counted by their documents, so it    *)
(* matters where the one short batch of a core is: at most one of the batches *)
(* and outcomes of a core is not made of whole batches, none while its        *)
(* producer runs, and all that was taken is whole until the last batch is.    *)
Whole(D)    == Cardinality(D) % BatchSize = 0
AllWhole(f) == \A x \in DOMAIN f : Whole(f[x])
AtMostOneShort(f) == \A x, y \in DOMAIN f : x # y => Whole(f[x]) \/ Whole(f[y])

OneShort(c) ==
    /\ ~Closed(c) => AllWhole(queue[c]) /\ AllWhole(JobsOf(c)) /\ AllWhole(settled[c])
    /\ \/ AllWhole(queue[c]) /\ AllWhole(JobsOf(c)) /\ AtMostOneShort(settled[c])
       \/ AllWhole(queue[c]) /\ AtMostOneShort(JobsOf(c)) /\ AllWhole(settled[c])
       \/ AllWhole(JobsOf(c)) /\ AllWhole(settled[c])

TakenWhole(c) == ~Closed(c) \/ ~AllWhole(queue[c]) => Whole(Taken(c))

(* A worker that posts holds a batch and has begun to count its attempts. *)
Posting       == {"post", "doomed", "backoff"}
BatchSized(D) == Cardinality(D) \in 1..BatchSize
SizesFit(c) ==
    /\ \A i \in DOMAIN queue[c] : BatchSized(queue[c][i])
    /\ \A w \in WorkersOf(c) : pc[w] \in Posting => BatchSized(job[w]) /\ attempt[w] >= 1

(* The retries the batches in the hands of the workers may still be given: a  *)
(* worker and an attempt that has not been counted as failed.                 *)
CanRetry(w, i) == \/ pc[w] \in {"post", "doomed"} /\ attempt[w] <= i
                  \/ pc[w] = "backoff" /\ attempt[w] < i
RetriesLeft(c) == {p \in WorkersOf(c) \X (1..(RetryAttempts - 1)) : CanRetry(p[1], p[2])}
RetriesBounded(c) ==
    stats[c].retryAttempts + Cardinality(RetriesLeft(c))
        <= (RetryAttempts - 1) * Batches(Cardinality(Taken(c)))

BatchesCounted(c) ==
    /\ stats[c].successfulRequests = Batches(Cardinality(settled[c]["sent"]))
    /\ stats[c].terminalFailures = Batches(Cardinality(settled[c]["failed"]))
    /\ stats[c].droppedBatches = Batches(Cardinality(settled[c]["dropped"]))
    /\ stats[c].droppedBatches <= 1

Tallied(c) == /\ OneShort(c) /\ TakenWhole(c) /\ SizesFit(c)
              /\ RetriesBounded(c) /\ BatchesCounted(c)
TallyInv   == OrderInv /\ CleanInv /\ \A c \in Cores : Tallied(c)

(* Counting batches by their documents. *)
LEMMA BatchesNone == Batches(0) = 0
BY LimitAssumption DEF Batches

LEMMA BatchesType == \A n \in Nat : Batches(n) \in Nat
BY LimitAssumption DEF Batches

LEMMA BatchesNext ==
    ASSUME NEW n \in Nat, NEW m \in 1..BatchSize, n % BatchSize = 0 \/ m = BatchSize
    PROVE  Batches(n + m) = Batches(n) + 1
<1> DEFINE B == BatchSize
           q == Batches(n)
<1>1. B \in Nat /\ B > 0
  BY LimitAssumption
<1>2. q \in Nat /\ B * q <= n + B - 1 /\ n + B - 1 < B * q + B
  BY <1>1 DEF Batches
<1>3. CASE m = B
  <2>1. B * (q + 1) = B * q + B
    BY <1>1, <1>2
  <2>2. B * (q + 1) <= n + m + B - 1 /\ n + m + B - 1 < B * (q + 1) + B
    BY <1>1, <1>2, <1>3, <2>1
  <2> QED
    BY <1>1, <1>2, <2>2 DEF Batches
<1>4. CASE n % B = 0
  <2> DEFINE k == n \div B
  <2>1. k \in Nat /\ n = B * k
    BY <1>1, <1>4
  <2>2. B * (k + 1) = B * k + B
    BY <1>1, <2>1
  <2>3. q = k
    BY <1>1, <2>1 DEF Batches
  <2>4. B * (k + 1) <= n + m + B - 1 /\ n + m + B - 1 < B * (k + 1) + B
    BY <1>1, <2>1, <2>2
  <2>5. Batches(n + m) = k + 1
    BY <1>1, <2>1, <2>4 DEF Batches
  <2> QED
    BY <2>3, <2>5
<1> QED
  BY <1>3, <1>4

LEMMA WholeNumbers ==
    /\ 0 % BatchSize = 0
    /\ BatchSize % BatchSize = 0
    /\ \A m \in 1..BatchSize : m % BatchSize = 0 <=> m = BatchSize
    /\ \A n, m \in Nat : m % BatchSize = 0 => (n + m) % BatchSize = n % BatchSize
<1> DEFINE B == BatchSize
<1>1. B \in Nat /\ B > 0
  BY LimitAssumption
<1>2. 0 % B = 0
  BY <1>1
<1>3. B % B = 0
  BY <1>1
<1>4. \A m \in 1..B : m % B = 0 <=> m = B
  BY <1>1
<1>5. ASSUME NEW n \in Nat, NEW m \in Nat, m % B = 0
      PROVE  (n + m) % B = n % B
  <2> DEFINE k == m \div B
             j == n \div B
             r == n % B
  <2>1. k \in Nat /\ m = B * k
    BY <1>1, <1>5
  <2>2. j \in Nat /\ r \in 0..(B - 1) /\ n = B * j + r
    BY <1>1
  <2> HIDE DEF k, j, r
  <2>3. n + m = B * (j + k) + r
    BY <1>1, <2>1, <2>2
  <2>4. (n + m) % B = r
    BY <1>1, <2>1, <2>2, <2>3
  <2> QED
    BY <2>4 DEF r
<1> QED
  BY <1>2, <1>3, <1>4, <1>5

LEMMA DocSetSum ==
    ASSUME NEW D \in DocSet, NEW E \in DocSet, D \cap E = {}
    PROVE  /\ Cardinality(D \cup E) = Cardinality(D) + Cardinality(E)
           /\ Cardinality(D) \in Nat /\ Cardinality(E) \in Nat
           /\ Whole(E) => (Whole(D \cup E) <=> Whole(D))
<1>1. IsFiniteSet(D) /\ IsFiniteSet(E) /\ Cardinality(D) \in Nat /\ Cardinality(E) \in Nat
  BY DocSetFacts DEF DocSet
<1>2. Cardinality(D \cup E) = Cardinality(D) + Cardinality(E) - Cardinality(D \cap E)
  BY <1>1, FS_Union
<1>3. Cardinality(D \cap E) = 0
  BY FS_EmptySet
<1>4. Cardinality(D \cup E) = Cardinality(D) + Cardinality(E)
  BY <1>1, <1>2, <1>3
<1> QED
  BY <1>1, <1>4, WholeNumbers DEF Whole

LEMMA EmptyWhole == Whole({})
BY FS_EmptySet, WholeNumbers DEF Whole

LEMMA TakenFinite == AccountInv => \A c \in Cores : Taken(c) \in DocSet
<1> SUFFICES ASSUME AccountInv, NEW c \in Cores PROVE Taken(c) \in DocSet
  OBVIOUS
<1> DEFINE n == stats[c].generatedDocs
<1>1. n \in Nat /\ Taken(c) \subseteq 1..n
  BY PlacesExist
<1>2. IsFiniteSet(1..n)
  BY <1>1, FS_Interval
<1>3. IsFiniteSet(Taken(c))
  BY <1>1, <1>2, FS_Subset
<1> QED
  BY <1>1, <1>3 DEF DocSet

(* A core that a step leaves alone, but for its producer's return. *)
Tallies(c) == <<stats[c].successfulRequests, stats[c].terminalFailures,
                stats[c].droppedBatches, stats[c].retryAttempts>>

LEMMA TalliedSame ==
    ASSUME NEW c \in Cores, Tallied(c), Closed(c) => Closed(c)',
           queue'[c] = queue[c], settled'[c] = settled[c], Tallies(c)' = Tallies(c),
           \A w \in WorkersOf(c) : job'[w] = job[w],
           \A w \in WorkersOf(c) : pc'[w] \in Posting =>
                pc[w] \in Posting /\ attempt'[w] >= 1,
           RetriesLeft(c)' = RetriesLeft(c)
    PROVE  Tallied(c)'
<1>1. JobsOf(c)' = JobsOf(c)
  BY DEF JobsOf
<1>2. Taken(c)' = Taken(c)
  BY <1>1 DEF Taken, Sending
<1>3. OneShort(c)'
  BY <1>1 DEF Tallied, OneShort
<1>4. TakenWhole(c)'
  BY <1>2 DEF Tallied, TakenWhole
<1>5. SizesFit(c)'
  BY DEF Tallied, SizesFit
<1>6. RetriesBounded(c)'
  BY <1>2 DEF Tallied, RetriesBounded, Tallies
<1>7. BatchesCounted(c)'
  BY DEF Tallied, BatchesCounted, Tallies
<1> QED
  BY <1>3, <1>4, <1>5, <1>6, <1>7 DEF Tallied

LEMMA RetriesLeftSame ==
    ASSUME NEW c \in Cores,
           \A w \in WorkersOf(c) : pc'[w] = pc[w] /\ attempt'[w] = attempt[w]
    PROVE  RetriesLeft(c)' = RetriesLeft(c)
<1>1. \A p \in WorkersOf(c) \X (1..(RetryAttempts - 1)) :
         CanRetry(p[1], p[2])' <=> CanRetry(p[1], p[2])
  BY DEF CanRetry
<1> QED
  BY <1>1 DEF RetriesLeft

(* A batch enters the channel. *)
LEMMA TalliedEnqueue ==
    ASSUME TallyInv, NEW c \in Cores, SendBatch(c) \/ FlushPartial(c)
    PROVE  Tallied(c)'
<1> USE DEF TallyInv, OrderInv, AccountInv, TypeInv, TypeOK
<1> DEFINE q == queue[c]
           r == queue'[c]
           D == batch[c]
<1>1. q \in Seq(DocSet) /\ D \in DocSet /\ Tallied(c) /\ InOrder(c) /\ ~Closed(c)
  BY DEF SendBatch, FlushPartial, Closed
<1>2. r = Append(q, D)
  BY DEF SendBatch, FlushPartial
<1>3. BatchSized(D) /\ (SendBatch(c) => Cardinality(D) = BatchSize)
  <2>1. Cardinality(D) \in Nat /\ Cardinality(D) <= BatchSize
    BY <1>1, DocSetFacts DEF InOrder, BatchFits
  <2>2. CASE SendBatch(c)
    BY <1>1, <2>2, LimitAssumption DEF SendBatch, InOrder, BatchFits, BatchSized
  <2>3. CASE FlushPartial(c)
    <3>1. D # {} /\ IsFiniteSet(D) /\ ~SendBatch(c)
      BY <1>1, <2>3 DEF FlushPartial, SendBatch, DocSet
    <3>2. Cardinality(D) # 0
      BY <3>1, FS_EmptySet
    <3> QED
      BY <2>1, <3>1, <3>2 DEF BatchSized
  <2> QED
    BY <2>2, <2>3
<1>4. /\ Len(q) \in Nat /\ DOMAIN q = 1..Len(q)
      /\ DOMAIN r = DOMAIN q \cup {Len(q) + 1}
      /\ \A i \in DOMAIN q : r[i] = q[i]
      /\ r[Len(q) + 1] = D
  BY <1>1, <1>2, AppendFacts
<1>5. UNCHANGED <<settled, stats, job, pc, attempt>>
  BY DEF SendBatch, FlushPartial
<1>6. JobsOf(c)' = JobsOf(c) /\ Taken(c)' = Taken(c)
  BY <1>5 DEF JobsOf, Taken, Sending
<1>7. AllWhole(q) /\ AllWhole(JobsOf(c)) /\ AllWhole(settled[c]) /\ Whole(Taken(c))
  BY <1>1 DEF Tallied, OneShort, TakenWhole
<1>8. ~Closed(c)' => AllWhole(r)
  <2>1. ~Closed(c)' => SendBatch(c)
    BY DEF FlushPartial, Closed
  <2>2. SendBatch(c) => Whole(D)
    BY <1>3, WholeNumbers DEF Whole
  <2> QED
    BY <1>4, <1>7, <2>1, <2>2 DEF AllWhole
<1> HIDE DEF q, r, D
<1>9. OneShort(c)'
  BY <1>5, <1>6, <1>7, <1>8 DEF OneShort, r
<1>10. TakenWhole(c)'
  BY <1>6, <1>7 DEF TakenWhole
<1>11. SizesFit(c)'
  <2>1. \A i \in DOMAIN r : BatchSized(r[i])
    BY <1>1, <1>3, <1>4 DEF Tallied, SizesFit, q
  <2> QED
    BY <1>1, <1>5, <2>1 DEF Tallied, SizesFit, r
<1>12. RetriesBounded(c)'
  <2>1. RetriesLeft(c)' = RetriesLeft(c)
    BY <1>5, RetriesLeftSame
  <2> QED
    BY <1>1, <1>5, <1>6, <2>1 DEF Tallied, RetriesBounded
<1>13. BatchesCounted(c)'
  BY <1>1, <1>5 DEF Tallied, BatchesCounted
<1> QED
  BY <1>9, <1>10, <1>11, <1>12, <1>13 DEF Tallied

(* The last batch is dropped. *)
LEMMA TalliedDrop ==
    ASSUME TallyInv, NEW c \in Cores, DropPartial(c)
    PROVE  Tallied(c)'
<1> USE DEF TallyInv, OrderInv, AccountInv, TypeInv, TypeOK
<1> DEFINE D == batch[c]
<1>1. D \in DocSet /\ Tallied(c) /\ InOrder(c) /\ ~Closed(c) /\ Closed(c)'
  BY DEF DropPartial, Closed
<1>2. settled[c]["dropped"] = {}
  BY <1>1 DEF InOrder, DropsLast
<1>3. /\ settled[c] \in [Outcome -> DocSet]
      /\ settled'[c] = [settled[c] EXCEPT !["dropped"] = settled[c]["dropped"] \cup D]
  BY DEF DropPartial, Settle
<1>4. /\ settled'[c]["dropped"] = D
      /\ DOMAIN settled'[c] = Outcome
      /\ \A o \in Outcome \ {"dropped"} : settled'[c][o] = settled[c][o]
  BY <1>2, <1>3 DEF Outcome
<1>5. /\ UNCHANGED <<queue, job, pc, attempt>>
      /\ stats' = [stats EXCEPT ![c].droppedBatches = @ + 1]
      /\ stats[c] \in CoreSnapshot
  BY DEF DropPartial
<1>6. stats'[c] = [stats[c] EXCEPT !.droppedBatches = stats[c].droppedBatches + 1]
  BY <1>5
<1>7. JobsOf(c)' = JobsOf(c)
  BY <1>5 DEF JobsOf
<1>8. Taken(c)' = Taken(c)
  <2>1. Sending(c)' = Sending(c)
    BY <1>7 DEF Sending
  <2> QED
    BY <1>4, <2>1 DEF Taken
<1>9. AllWhole(queue[c]) /\ AllWhole(JobsOf(c)) /\ AllWhole(settled[c]) /\ Whole(Taken(c))
  BY <1>1 DEF Tallied, OneShort, TakenWhole
<1>10. OneShort(c)'
  <2>1. AtMostOneShort(settled'[c])
    BY <1>3, <1>4, <1>9 DEF AtMostOneShort, AllWhole
  <2> QED
    BY <1>1, <1>5, <1>7, <1>9, <2>1 DEF OneShort
<1>11. TakenWhole(c)'
  BY <1>8, <1>9 DEF TakenWhole
<1>12. SizesFit(c)'
  BY <1>1, <1>5 DEF Tallied, SizesFit
<1>13. RetriesBounded(c)'
  <2>1. RetriesLeft(c)' = RetriesLeft(c)
    BY <1>5, RetriesLeftSame
  <2>2. stats'[c].retryAttempts = stats[c].retryAttempts
    BY <1>5, <1>6 DEF CoreSnapshot
  <2> QED
    BY <1>1, <1>8, <2>1, <2>2 DEF Tallied, RetriesBounded
<1>14. BatchesCounted(c)'
  <2>1. stats[c].droppedBatches = 0
    BY <1>1, <1>2, BatchesNone, FS_EmptySet DEF Tallied, BatchesCounted
  <2>2. Batches(Cardinality(D)) = 1
    <3>1. D # {} /\ IsFiniteSet(D) /\ Cardinality(D) \in Nat /\ Cardinality(D) <= BatchSize
      BY <1>1, DocSetFacts DEF DropPartial, DocSet, InOrder, BatchFits
    <3>2. Cardinality(D) # 0
      BY <3>1, FS_EmptySet
    <3>3. Cardinality(D) \in 1..BatchSize
      BY <3>1, <3>2, LimitAssumption
    <3>4. Batches(0 + Cardinality(D)) = Batches(0) + 1
      BY <3>3, BatchesNext, WholeNumbers
    <3> QED
      BY <3>1, <3>4, BatchesNone
  <2>3. /\ stats'[c].successfulRequests = stats[c].successfulRequests
        /\ stats'[c].terminalFailures = stats[c].terminalFailures
        /\ stats'[c].droppedBatches = 1
    BY <1>5, <1>6, <2>1 DEF CoreSnapshot
  <2>4. settled'[c]["sent"] = settled[c]["sent"] /\ settled'[c]["failed"] = settled[c]["failed"]
    BY <1>4 DEF Outcome
  <2> QED
    BY <1>1, <1>4, <2>2, <2>3, <2>4 DEF Tallied, BatchesCounted
<1> QED
  BY <1>10, <1>11, <1>12, <1>13, <1>14 DEF Tallied

LEMMA RetriesFinite ==
    ASSUME NEW c \in Cores, NEW S, S \subseteq WorkersOf(c) \X (1..(RetryAttempts - 1))
    PROVE  IsFiniteSet(S) /\ Cardinality(S) \in Nat
<1>1. IsFiniteSet(WorkersOf(c))
  BY PoolAssumption, FS_Subset DEF WorkersOf
<1>2. IsFiniteSet(1..(RetryAttempts - 1))
  BY LimitAssumption, FS_Interval
<1>3. IsFiniteSet(WorkersOf(c) \X (1..(RetryAttempts - 1)))
  BY <1>1, <1>2, FS_Product
<1> QED
  BY <1>3, FS_Subset, FS_CardinalityType

(* A worker's batch may be retried RetryAttempts - 1 times. *)
LEMMA RetriesOfOne ==
    ASSUME NEW w
    PROVE  /\ IsFiniteSet({w} \X (1..(RetryAttempts - 1)))
           /\ Cardinality({w} \X (1..(RetryAttempts - 1))) = RetryAttempts - 1
<1>1. IsFiniteSet({w}) /\ Cardinality({w}) = 1
  BY FS_Singleton
<1>2. IsFiniteSet(1..(RetryAttempts - 1)) /\ Cardinality(1..(RetryAttempts - 1)) = RetryAttempts - 1
  BY LimitAssumption, FS_Interval
<1>3. Cardinality({w} \X (1..(RetryAttempts - 1))) = 1 * (RetryAttempts - 1)
  BY <1>1, <1>2, FS_Product
<1>4. 1 * (RetryAttempts - 1) = RetryAttempts - 1
  BY LimitAssumption
<1> QED
  BY <1>1, <1>2, <1>3, <1>4, FS_Product

(* A worker takes the oldest batch of the channel. *)
LEMMA ReceiveIs ==
    ASSUME TallyInv, NEW w \in Workers, NEW c, c = CoreOf[w], ReceiveJob(w)
    PROVE  /\ Len(queue[c]) \in Nat /\ 1 \in DOMAIN queue[c]
           /\ Head(queue[c]) = queue[c][1] /\ Head(queue[c]) \in DocSet
           /\ \A i \in DOMAIN queue'[c] :
                queue'[c][i] = queue[c][i + 1] /\ i + 1 \in DOMAIN queue[c]
           /\ DOMAIN queue'[c] # {} => Cardinality(Head(queue[c])) = BatchSize
           /\ Cardinality(Head(queue[c])) = BatchSize \/ Closed(c)
           /\ Taken(c) \in DocSet
           /\ Taken(c)' = Taken(c) \cup Head(queue[c])
           /\ Taken(c) \cap Head(queue[c]) = {}
           /\ job' = [job EXCEPT ![w] = Head(queue[c])]
           /\ job[w] = {}
<1> DEFINE q == queue[c]
           t == queue'[c]
           h == Head(queue[c])
<1> USE DEF TallyInv, OrderInv, AccountInv, TypeInv, TypeOK
<1>1. c \in Cores /\ w \in WorkersOf(c) /\ InOrder(c) /\ Accounted(c)
  BY PoolAssumption DEF WorkersOf, DocsAccounted
<1>2. q \in Seq(DocSet) /\ q # <<>> /\ t = Tail(q)
  BY <1>1 DEF ReceiveJob
<1>3. /\ Len(q) \in Nat /\ Len(t) = Len(q) - 1
      /\ DOMAIN q = 1..Len(q) /\ 1 \in DOMAIN q /\ h = q[1]
      /\ \A i \in DOMAIN t : i \in Nat /\ i >= 1 /\ t[i] = q[i + 1] /\ i + 1 \in DOMAIN q
  BY <1>2, TailFacts
<1>4. h \in DocSet
  BY <1>2, <1>3
<1>5. \/ Cardinality(h) = BatchSize
      \/ 1 = Len(q) /\ Closed(c)
  BY <1>1, <1>3 DEF InOrder, Ordered
<1>6. DOMAIN t # {} => Cardinality(h) = BatchSize
  <2> HIDE DEF q, t, h
  <2>1. ASSUME NEW i \in DOMAIN t PROVE Len(q) # 1
    <3>1. i + 1 \in DOMAIN q /\ i \in Nat /\ i >= 1 /\ Len(q) \in Nat
      BY <1>3
    <3> QED
      BY <1>3, <3>1
  <2>2. CASE 1 = Len(q)
    <3>1. \A i : i \notin DOMAIN t
      BY <2>1, <2>2
    <3> QED
      BY <3>1
  <2> QED
    BY <1>5, <2>2
<1>7. Sending(c)' = Sending(c) \cup h /\ h \subseteq Queued(c)
  BY ReceiveMoves
<1>8. settled' = settled
  BY DEF ReceiveJob
<1>9. Taken(c)' = Taken(c) \cup h
  BY <1>7, <1>8 DEF Taken
<1>10. Taken(c) \cap h = {}
  <2>1. \A o \in Outcome : settled[c][o] \subseteq Settled(c)
    <3>1. DOMAIN settled[c] = Outcome
      BY <1>1
    <3> QED
      BY <3>1 DEF Settled, DocsIn
  <2>2. Taken(c) \subseteq Sending(c) \cup Settled(c)
    BY <2>1 DEF Taken
  <2>3. Queued(c) \cap (Sending(c) \cup Settled(c)) = {}
    BY <1>1 DEF Accounted
  <2> QED
    BY <1>7, <2>2, <2>3
<1>11. Taken(c) \in DocSet
  BY <1>1, TakenFinite
<1>12. job[w] = {} /\ job' = [job EXCEPT ![w] = h]
  BY <1>1 DEF ReceiveJob, HandsEmpty
<1> QED
  BY <1>3, <1>4, <1>5, <1>6, <1>9, <1>10, <1>11, <1>12

LEMMA TalliedReceive ==
    ASSUME TallyInv, NEW w \in Workers, NEW c, c = CoreOf[w], ReceiveJob(w)
    PROVE  Tallied(c)'
<1>1. /\ c \in Cores /\ w \in WorkersOf(c) /\ Tallied(c) /\ TypeOK
      /\ RetryAttempts - 1 \in Nat
  BY PoolAssumption, LimitAssumption
     DEF WorkersOf, TallyInv, OrderInv, AccountInv, TypeInv
<1> DEFINE q == queue[c]
           t == queue'[c]
           h == Head(queue[c])
           R == RetryAttempts - 1
<1>2. /\ Len(q) \in Nat /\ 1 \in DOMAIN q /\ h = q[1] /\ h \in DocSet
      /\ \A i \in DOMAIN t : t[i] = q[i + 1] /\ i + 1 \in DOMAIN q
      /\ DOMAIN t # {} => Cardinality(h) = BatchSize
      /\ Cardinality(h) = BatchSize \/ Closed(c)
      /\ Taken(c) \in DocSet
      /\ Taken(c)' = Taken(c) \cup h
      /\ Taken(c) \cap h = {}
      /\ job' = [job EXCEPT ![w] = h]
      /\ job[w] = {}
  <2>1. Len(q) \in Nat /\ 1 \in DOMAIN q /\ h = q[1] /\ h \in DocSet
    BY ReceiveIs
  <2>2. \A i \in DOMAIN t : t[i] = q[i + 1] /\ i + 1 \in DOMAIN q
    BY ReceiveIs
  <2>3. /\ DOMAIN t # {} => Cardinality(h) = BatchSize
        /\ Cardinality(h) = BatchSize \/ Closed(c)
    BY ReceiveIs
  <2>4. Taken(c) \in DocSet /\ Taken(c)' = Taken(c) \cup h /\ Taken(c) \cap h = {}
    BY ReceiveIs
  <2>5. job' = [job EXCEPT ![w] = h] /\ job[w] = {}
    BY ReceiveIs
  <2> QED
    BY <2>1, <2>2, <2>3, <2>4, <2>5
<1>3. BatchSized(h) /\ (Whole(h) <=> Cardinality(h) = BatchSize)
  <2>1. BatchSized(h)
    BY <1>1, <1>2 DEF Tallied, SizesFit
  <2> QED
    BY <2>1, WholeNumbers DEF BatchSized, Whole
<1>4. /\ UNCHANGED <<settled, stats>> /\ Closed(c)' = Closed(c)
      /\ attempt' = [attempt EXCEPT ![w] = 1]
      /\ \A v \in Workers : v # w => pc'[v] = pc[v]
      /\ pc[w] = "receive" /\ pc'[w] \in {"post", "doomed"}
  BY <1>1 DEF ReceiveJob, StartRequest, Closed, TypeOK
<1>5. /\ DOMAIN JobsOf(c) = WorkersOf(c) /\ DOMAIN JobsOf(c)' = WorkersOf(c)
      /\ JobsOf(c)[w] = {} /\ JobsOf(c)'[w] = h
      /\ \A v \in WorkersOf(c) : v # w => JobsOf(c)'[v] = JobsOf(c)[v]
  BY <1>1, <1>2 DEF JobsOf, TypeOK, WorkersOf
<1>6. (Whole(q[1]) => (AllWhole(t) <=> AllWhole(q))) /\ (~AllWhole(t) => ~AllWhole(q))
      /\ (~AllWhole(t) => Whole(h)) /\ (AllWhole(q) => Whole(h))
  <2>1. AllWhole(q) => AllWhole(t)
    BY <1>2 DEF AllWhole
  <2>2. ~AllWhole(t) => Whole(h)
    BY <1>2, <1>3 DEF AllWhole
  <2>3. AllWhole(q) => Whole(h)
    BY <1>2 DEF AllWhole
  <2>4. ASSUME Whole(q[1]), AllWhole(t) PROVE AllWhole(q)
    <3> SUFFICES ASSUME NEW i \in DOMAIN q PROVE Whole(q[i])
      BY DEF AllWhole
    <3>1. q \in Seq(DocSet) /\ q # <<>> /\ t = Tail(q)
      BY <1>1 DEF ReceiveJob, TypeOK
    <3>2. DOMAIN q = 1..Len(q) /\ DOMAIN t = 1..(Len(q) - 1)
      BY <3>1, HeadTailProperties
    <3>3. CASE i = 1
      BY <2>4, <3>3
    <3>4. CASE i # 1
      <4>1. i - 1 \in DOMAIN t /\ (i - 1) + 1 = i
        BY <1>2, <3>2, <3>4
      <4>2. t[i - 1] = q[i]
        BY <1>2, <4>1
      <4> QED
        BY <2>4, <4>1, <4>2 DEF AllWhole
    <3> QED
      BY <3>3, <3>4
  <2> QED
    BY <2>1, <2>2, <2>3, <2>4
<1>7. AllWhole(JobsOf(c)) /\ Whole(h) => AllWhole(JobsOf(c)')
  BY <1>5 DEF AllWhole
<1>8. AtMostOneShort(JobsOf(c)) /\ Whole(h) => AtMostOneShort(JobsOf(c)')
  BY <1>5 DEF AtMostOneShort
<1>9. AllWhole(JobsOf(c)) => AtMostOneShort(JobsOf(c)')
  BY <1>5 DEF AllWhole, AtMostOneShort
<1>20. R \in Nat
  BY <1>1
<1> HIDE DEF q, t, h, R
<1>10. OneShort(c)'
  <2>1. OneShort(c)
    BY <1>1 DEF Tallied
  <2>2. ~Closed(c) => AllWhole(t) /\ AllWhole(JobsOf(c)') /\ AllWhole(settled[c])
    BY <1>2, <1>3, <1>6, <1>7, <2>1 DEF OneShort, q
  <2>3. \/ AllWhole(t) /\ AllWhole(JobsOf(c)') /\ AtMostOneShort(settled[c])
        \/ AllWhole(t) /\ AtMostOneShort(JobsOf(c)') /\ AllWhole(settled[c])
        \/ AllWhole(JobsOf(c)') /\ AllWhole(settled[c])
    BY <1>6, <1>7, <1>8, <1>9, <2>1 DEF OneShort, q
  <2> QED
    BY <1>4, <2>2, <2>3 DEF OneShort, t
<1>11. TakenWhole(c)'
  <2>1. ~Closed(c) \/ ~AllWhole(t) => Whole(Taken(c)) /\ Whole(h)
    BY <1>1, <1>2, <1>3, <1>6 DEF Tallied, TakenWhole, q
  <2>2. Whole(h) => (Whole(Taken(c) \cup h) <=> Whole(Taken(c)))
    BY <1>2, DocSetSum
  <2>3. ~Closed(c) \/ ~AllWhole(t) => Whole(Taken(c) \cup h)
    BY <2>1, <2>2
  <2> QED
    BY <1>2, <1>4, <2>3 DEF TakenWhole, t
<1>12. SizesFit(c)'
  <2>1. \A i \in DOMAIN t : BatchSized(t[i])
    BY <1>1, <1>2 DEF Tallied, SizesFit, q
  <2>2. ASSUME NEW v \in WorkersOf(c), pc'[v] \in Posting
        PROVE  BatchSized(job'[v]) /\ attempt'[v] >= 1
    <3>1. CASE v = w
      BY <1>1, <1>2, <1>3, <1>4, <3>1 DEF TypeOK
    <3>2. CASE v # w
      BY <1>1, <1>2, <1>4, <2>2, <3>2 DEF Tallied, SizesFit, TypeOK, WorkersOf
    <3> QED
      BY <3>1, <3>2
  <2> QED
    BY <2>1, <2>2 DEF SizesFit, t
<1>13. RetriesBounded(c)'
  <2> DEFINE S == RetriesLeft(c)
             T == RetriesLeft(c)'
             N == {w} \X (1..R)
  <2>1. T \subseteq S \cup N
    BY <1>1, <1>4 DEF RetriesLeft, CanRetry, TypeOK, WorkersOf, R
  <2>2. S \subseteq WorkersOf(c) \X (1..R) /\ T \subseteq WorkersOf(c) \X (1..R)
    BY DEF RetriesLeft, R
  <2>3. /\ IsFiniteSet(S) /\ IsFiniteSet(T) /\ Cardinality(S) \in Nat /\ Cardinality(T) \in Nat
    BY <1>1, <2>2, RetriesFinite DEF R
  <2>4. IsFiniteSet(N) /\ Cardinality(N) = R
    BY RetriesOfOne DEF R
  <2> HIDE DEF S, T, N
  <2>5. IsFiniteSet(S \cup N) /\ Cardinality(S \cup N) <= Cardinality(S) + R
    <3>1. /\ IsFiniteSet(S \cup N)
          /\ Cardinality(S \cup N) = Cardinality(S) + Cardinality(N) - Cardinality(S \cap N)
      BY <2>3, <2>4, FS_Union
    <3>2. Cardinality(S \cap N) \in Nat
      BY <2>3, FS_Intersection, FS_CardinalityType
    <3> QED
      BY <1>20, <2>3, <2>4, <3>1, <3>2
  <2>6. Cardinality(T) <= Cardinality(S) + R
    <3>1. Cardinality(T) <= Cardinality(S \cup N)
      BY <2>1, <2>5, FS_Subset
    <3>2. Cardinality(S \cup N) \in Nat
      BY <2>5, FS_CardinalityType
    <3> QED
      BY <1>20, <2>3, <2>5, <3>1, <3>2
  <2> DEFINE n == Cardinality(Taken(c))
             m == Cardinality(h)
  <2>7. Cardinality(Taken(c)') = n + m /\ n \in Nat /\ m \in 1..BatchSize
    BY <1>2, <1>3, DocSetSum DEF BatchSized
  <2>8. n % BatchSize = 0 \/ m = BatchSize
    BY <1>1, <1>3, <1>6 DEF Tallied, TakenWhole, Whole, q
  <2> HIDE DEF n, m
  <2>9. Batches(n + m) = Batches(n) + 1 /\ Batches(n) \in Nat
    BY <2>7, <2>8, BatchesNext, BatchesType
  <2>10. stats[c].retryAttempts \in Nat
    BY <1>1 DEF TypeOK, CoreSnapshot
  <2>11. stats[c].retryAttempts + Cardinality(S) <= R * Batches(n)
    BY <1>1 DEF Tallied, RetriesBounded, S, n, R
  <2>12. stats[c].retryAttempts + Cardinality(T) <= R * (Batches(n) + 1)
    <3>1. R * (Batches(n) + 1) = R * Batches(n) + R
      BY <1>20, <2>9
    <3>2. R * Batches(n) \in Nat
      BY <1>20, <2>9
    <3> QED
      BY <1>20, <2>3, <2>6, <2>10, <2>11, <3>1, <3>2
  <2> QED
    BY <1>4, <2>7, <2>9, <2>12 DEF RetriesBounded, T, R
<1>14. BatchesCounted(c)'
  BY <1>1, <1>4 DEF Tallied, BatchesCounted
<1> QED
  BY <1>10, <1>11, <1>12, <1>13, <1>14 DEF Tallied

(* A worker lets go of its batch, which is counted as its outcome says. *)
CountsAs(c, o) ==
    /\ stats'[c].successfulRequests = stats[c].successfulRequests + (IF o = "sent" THEN 1 ELSE 0)
    /\ stats'[c].terminalFailures = stats[c].terminalFailures + (IF o = "failed" THEN 1 ELSE 0)
    /\ stats'[c].droppedBatches = stats[c].droppedBatches
    /\ stats'[c].retryAttempts = stats[c].retryAttempts

LEMMA ReleaseIs ==
    ASSUME OrderInv, NEW w \in Workers, NEW c, c = CoreOf[w],
           NEW o \in Outcome \ {"dropped"}, Release(w, o)
    PROVE  /\ DOMAIN settled[c] = Outcome /\ DOMAIN settled'[c] = Outcome
           /\ settled[c][o] \in DocSet /\ job[w] \in DocSet
           /\ settled[c][o] \cap job[w] = {}
           /\ settled'[c][o] = settled[c][o] \cup job[w]
           /\ \A x \in Outcome \ {o} : settled'[c][x] = settled[c][x]
           /\ Taken(c)' = Taken(c)
           /\ DOMAIN JobsOf(c) = WorkersOf(c) /\ DOMAIN JobsOf(c)' = WorkersOf(c)
           /\ JobsOf(c)[w] = job[w] /\ JobsOf(c)'[w] = {}
           /\ \A v \in WorkersOf(c) : v # w => JobsOf(c)'[v] = JobsOf(c)[v]
<1> USE DEF OrderInv, AccountInv, TypeInv, TypeOK
<1>1. c \in Cores /\ w \in WorkersOf(c) /\ Accounted(c)
  BY PoolAssumption DEF WorkersOf, DocsAccounted
<1>2. settled[c] \in [Outcome -> DocSet] /\ job[w] \in DocSet
  BY <1>1
<1>3. settled'[c] = [settled[c] EXCEPT ![o] = settled[c][o] \cup job[w]]
  BY <1>1 DEF Release, Settle
<1>4. /\ DOMAIN settled[c] = Outcome /\ DOMAIN settled'[c] = Outcome
      /\ settled'[c][o] = settled[c][o] \cup job[w]
      /\ \A x \in Outcome \ {o} : settled'[c][x] = settled[c][x]
  BY <1>2, <1>3
<1>5. Sending(c)' \cup job[w] = Sending(c) /\ job[w] \subseteq Sending(c)
  BY ReleaseMoves
<1>6. Taken(c)' = Taken(c)
  <2>1. DocsIn(Concluded(c)') = DocsIn(Concluded(c)) \cup job[w]
    BY ReleaseTakes
  <2> QED
    BY <1>5, <2>1, TakenSplit
<1>7. settled[c][o] \cap job[w] = {}
  <2>1. settled[c][o] \subseteq Settled(c)
    BY <1>4 DEF Settled, DocsIn
  <2> QED
    BY <1>1, <1>5, <2>1 DEF Accounted
<1>8. /\ DOMAIN JobsOf(c) = WorkersOf(c) /\ DOMAIN JobsOf(c)' = WorkersOf(c)
      /\ JobsOf(c)[w] = job[w]
  BY <1>1 DEF JobsOf
<1>9. \A v \in WorkersOf(c) : job'[v] = IF v = w THEN {} ELSE job[v]
  BY DEF Release, WorkersOf
<1>10. /\ JobsOf(c)'[w] = {}
       /\ \A v \in WorkersOf(c) : v # w => JobsOf(c)'[v] = JobsOf(c)[v]
  BY <1>1, <1>9 DEF JobsOf
<1>11. settled[c][o] \in DocSet
  BY <1>2
<1> QED
  BY <1>2, <1>4, <1>6, <1>7, <1>8, <1>10, <1>11

LEMMA OneShortRelease ==
    ASSUME TallyInv, NEW w \in Workers, NEW c, c = CoreOf[w], queue' = queue, prod' = prod,
           NEW o \in Outcome \ {"dropped"}, Release(w, o)
    PROVE  OneShort(c)'
<1> DEFINE j == job[w]
           q == queue[c]
           J == JobsOf(c)
           K == JobsOf(c)'
           S == settled[c]
           T == settled'[c]
<1>1. OrderInv /\ c \in Cores /\ w \in WorkersOf(c) /\ OneShort(c)
  BY PoolAssumption DEF TallyInv, Tallied, WorkersOf
<1>2. /\ DOMAIN S = Outcome /\ DOMAIN T = Outcome
      /\ S[o] \in DocSet /\ j \in DocSet /\ S[o] \cap j = {}
      /\ T[o] = S[o] \cup j
      /\ \A x \in Outcome \ {o} : T[x] = S[x]
  BY <1>1, ReleaseIs
<1>3. /\ DOMAIN J = WorkersOf(c) /\ DOMAIN K = WorkersOf(c)
      /\ J[w] = j /\ K[w] = {}
      /\ \A v \in WorkersOf(c) : v # w => K[v] = J[v]
  BY <1>1, ReleaseIs
<1>4. Whole(j) => (Whole(T[o]) <=> Whole(S[o]))
  <2>1. Whole(j) => (Whole(S[o] \cup j) <=> Whole(S[o]))
    BY <1>2, DocSetSum
  <2> HIDE DEF j, S, T
  <2> QED
    BY <1>2, <2>1
<1>5. /\ ~Closed(c) => AllWhole(q) /\ AllWhole(J) /\ AllWhole(S)
      /\ \/ AllWhole(q) /\ AllWhole(J) /\ AtMostOneShort(S)
         \/ AllWhole(q) /\ AtMostOneShort(J) /\ AllWhole(S)
         \/ AllWhole(J) /\ AllWhole(S)
  BY <1>1 DEF OneShort
<1> HIDE DEF j, q, J, K, S, T
<1>6. AllWhole(J) => Whole(j)
  BY <1>1, <1>3 DEF AllWhole
<1>7. (AllWhole(J) => AllWhole(K)) /\ (AtMostOneShort(J) => AtMostOneShort(K))
      /\ (AtMostOneShort(J) /\ ~Whole(j) => AllWhole(K))
  <2>1. AllWhole(J) => AllWhole(K)
    BY <1>3, EmptyWhole DEF AllWhole
  <2>2. AtMostOneShort(J) => AtMostOneShort(K)
    BY <1>3, EmptyWhole DEF AtMostOneShort
  <2>3. AtMostOneShort(J) /\ ~Whole(j) => AllWhole(K)
    BY <1>1, <1>3, EmptyWhole DEF AtMostOneShort, AllWhole
  <2> QED
    BY <2>1, <2>2, <2>3
<1>8. (AllWhole(S) /\ Whole(j) => AllWhole(T)) /\ (AllWhole(S) => AtMostOneShort(T))
      /\ (AtMostOneShort(S) /\ Whole(j) => AtMostOneShort(T))
  <2>1. \A x \in Outcome : x # o => T[x] = S[x]
    BY <1>2
  <2>2. AllWhole(S) /\ Whole(j) => AllWhole(T)
    BY <1>2, <1>4, <2>1 DEF AllWhole
  <2>3. AllWhole(S) => AtMostOneShort(T)
    BY <1>2, <2>1 DEF AllWhole, AtMostOneShort
  <2>4. AtMostOneShort(S) /\ Whole(j) => AtMostOneShort(T)
    BY <1>2, <1>4, <2>1 DEF AtMostOneShort
  <2> QED
    BY <2>2, <2>3, <2>4
<1>9. /\ ~Closed(c) => AllWhole(q) /\ AllWhole(K) /\ AllWhole(T)
      /\ \/ AllWhole(q) /\ AllWhole(K) /\ AtMostOneShort(T)
         \/ AllWhole(q) /\ AtMostOneShort(K) /\ AllWhole(T)
         \/ AllWhole(K) /\ AllWhole(T)
  BY <1>5, <1>6, <1>7, <1>8
<1>10. queue'[c] = q /\ Closed(c)' = Closed(c)
  BY DEF Closed, q
<1> QED
  BY <1>9, <1>10 DEF OneShort, K, T

LEMMA TalliedRelease ==
    ASSUME TallyInv, NEW w \in Workers, NEW c, c = CoreOf[w], queue' = queue, prod' = prod,
           NEW o \in Outcome \ {"dropped"}, Release(w, o), CountsAs(c, o), pc[w] \in Posting
    PROVE  Tallied(c)'
<1> DEFINE j == job[w]
           S == settled[c]
           T == settled'[c]
<1>1. /\ OrderInv /\ c \in Cores /\ w \in WorkersOf(c) /\ Tallied(c) /\ TypeOK
      /\ stats[c] \in CoreSnapshot
  BY PoolAssumption DEF TallyInv, OrderInv, AccountInv, TypeInv, TypeOK, WorkersOf
<1>2. /\ S[o] \in DocSet /\ j \in DocSet /\ S[o] \cap j = {}
      /\ T[o] = S[o] \cup j
      /\ \A x \in Outcome \ {o} : T[x] = S[x]
      /\ Taken(c)' = Taken(c)
  BY <1>1, ReleaseIs
<1>3. /\ pc'[w] \notin Posting
      /\ \A v \in Workers : v # w =>
            pc'[v] = pc[v] /\ job'[v] = job[v] /\ attempt'[v] = attempt[v]
  BY <1>1 DEF Release, TypeOK, Posting
<1>4. BatchSized(j)
  BY <1>1 DEF Tallied, SizesFit
<1>5. Cardinality(S[o]) % BatchSize = 0 \/ Cardinality(j) = BatchSize
  <2>1. Whole(j) => Cardinality(j) = BatchSize
    BY <1>4, WholeNumbers DEF Whole, BatchSized
  <2>2. ~Whole(j) => ~AllWhole(JobsOf(c))
    BY <1>1 DEF AllWhole, JobsOf
  <2>3. ~AllWhole(JobsOf(c)) => AllWhole(S)
    BY <1>1 DEF Tallied, OneShort
  <2>4. AllWhole(S) => Whole(S[o])
    BY <1>1 DEF AllWhole, TypeOK
  <2> QED
    BY <2>1, <2>2, <2>3, <2>4 DEF Whole
<1>6. Batches(Cardinality(T[o])) = Batches(Cardinality(S[o])) + 1
  <2> DEFINE n == Cardinality(S[o])
             m == Cardinality(j)
  <2>1. Cardinality(T[o]) = n + m /\ n \in Nat /\ m \in 1..BatchSize
    BY <1>2, <1>4, DocSetSum DEF BatchSized
  <2>2. n % BatchSize = 0 \/ m = BatchSize
    BY <1>5
  <2> HIDE DEF n, m
  <2>3. Batches(n + m) = Batches(n) + 1
    BY <2>1, <2>2, BatchesNext
  <2> QED
    BY <2>1, <2>3 DEF n
<1> HIDE DEF j, S, T
<1>7. OneShort(c)'
  BY OneShortRelease
<1>8. TakenWhole(c)'
  BY <1>1, <1>2 DEF Tallied, TakenWhole, Closed
<1>9. SizesFit(c)'
  <2>1. \A i \in DOMAIN queue[c] : BatchSized(queue[c][i])
    BY <1>1 DEF Tallied, SizesFit
  <2>2. ASSUME NEW v \in WorkersOf(c), pc'[v] \in Posting
        PROVE  BatchSized(job'[v]) /\ attempt'[v] >= 1
    <3>1. v # w /\ v \in Workers
      BY <1>3, <2>2 DEF WorkersOf
    <3> QED
      BY <1>1, <1>3, <2>2, <3>1 DEF Tallied, SizesFit
  <2> QED
    BY <2>1, <2>2 DEF SizesFit
<1>10. RetriesBounded(c)'
  <2> DEFINE L == RetriesLeft(c)
             M == RetriesLeft(c)'
  <2>1. M \subseteq L
    <3>1. \A v \in WorkersOf(c), i \in 1..(RetryAttempts - 1) :
             CanRetry(v, i)' => CanRetry(v, i)
      BY <1>3 DEF CanRetry, WorkersOf, Posting
    <3> QED
      BY <3>1 DEF RetriesLeft
  <2>2. L \subseteq WorkersOf(c) \X (1..(RetryAttempts - 1))
        /\ M \subseteq WorkersOf(c) \X (1..(RetryAttempts - 1))
    BY DEF RetriesLeft
  <2>3. IsFiniteSet(L) /\ Cardinality(L) \in Nat /\ Cardinality(M) \in Nat
    BY <1>1, <2>2, RetriesFinite
  <2> HIDE DEF L, M
  <2>4. Cardinality(M) <= Cardinality(L)
    BY <2>1, <2>3, FS_Subset
  <2>5. stats'[c].retryAttempts = stats[c].retryAttempts /\ stats[c].retryAttempts \in Nat
    BY <1>1 DEF CountsAs, CoreSnapshot
  <2>6. LET N == (RetryAttempts - 1) * Batches(Cardinality(Taken(c)))
        IN  stats[c].retryAttempts + Cardinality(L) <= N /\ N \in Nat
    <3>1. Cardinality(Taken(c)) \in Nat
      BY <1>1, TakenFinite, DocSetFacts DEF OrderInv
    <3>2. Batches(Cardinality(Taken(c))) \in Nat
      BY <3>1, BatchesType
    <3>3. (RetryAttempts - 1) * Batches(Cardinality(Taken(c))) \in Nat
      BY <3>2, LimitAssumption
    <3> QED
      BY <1>1, <3>3 DEF Tallied, RetriesBounded, L
  <2> QED
    BY <1>2, <2>3, <2>4, <2>5, <2>6 DEF RetriesBounded, M
<1>11. BatchesCounted(c)'
  <2>1. /\ stats[c].successfulRequests = Batches(Cardinality(S["sent"]))
        /\ stats[c].terminalFailures = Batches(Cardinality(S["failed"]))
        /\ stats[c].droppedBatches = Batches(Cardinality(S["dropped"]))
        /\ stats[c].droppedBatches <= 1
    BY <1>1 DEF Tallied, BatchesCounted, S
  <2>2. stats[c].successfulRequests \in Nat /\ stats[c].terminalFailures \in Nat
    BY <1>1 DEF CoreSnapshot
  <2>3. T["dropped"] = S["dropped"]
    BY <1>2 DEF Outcome
  <2>4. stats'[c].successfulRequests = Batches(Cardinality(T["sent"]))
    <3>1. CASE o = "sent"
      BY <1>6, <2>1, <3>1 DEF CountsAs
    <3>2. CASE o # "sent"
      BY <1>2, <2>1, <2>2, <3>2 DEF CountsAs, Outcome
    <3> QED
      BY <3>1, <3>2
  <2>5. stats'[c].terminalFailures = Batches(Cardinality(T["failed"]))
    <3>1. CASE o = "failed"
      BY <1>6, <2>1, <3>1 DEF CountsAs
    <3>2. CASE o # "failed"
      BY <1>2, <2>1, <2>2, <3>2 DEF CountsAs, Outcome
    <3> QED
      BY <3>1, <3>2
  <2> QED
    BY <2>1, <2>3, <2>4, <2>5 DEF BatchesCounted, CountsAs, T
<1> QED
  BY <1>7, <1>8, <1>9, <1>10, <1>11 DEF Tallied

(* A retry that is counted is one the batch cannot be given any more. *)
LEMMA TalliedRetry ==
    ASSUME TallyInv, NEW w \in Workers, NEW c, c = CoreOf[w], NEW err,
           ScheduleRetry(w, err), queue' = queue, prod' = prod, pc[w] \in {"post", "doomed"}
    PROVE  Tallied(c)'
<1>1. /\ c \in Cores /\ w \in WorkersOf(c) /\ Tallied(c) /\ TypeOK
      /\ stats[c] \in CoreSnapshot
  BY PoolAssumption DEF TallyInv, OrderInv, AccountInv, TypeInv, TypeOK, WorkersOf
<1>2. /\ UNCHANGED <<job, attempt, settled>>
      /\ stats' = [stats EXCEPT ![c].retryAttempts = @ + 1]
      /\ pc' = [pc EXCEPT ![w] = "backoff"]
      /\ attempt[w] # RetryAttempts
  BY DEF ScheduleRetry
<1>3. attempt[w] \in 1..(RetryAttempts - 1)
  <2>1. attempt[w] >= 1
    BY <1>1 DEF Tallied, SizesFit, Posting
  <2>2. attempt[w] \in 0..RetryAttempts
    BY <1>1 DEF TypeOK
  <2> QED
    BY <1>2, <2>1, <2>2, LimitAssumption
<1>4. /\ stats'[c].retryAttempts = stats[c].retryAttempts + 1
      /\ stats'[c].successfulRequests = stats[c].successfulRequests
      /\ stats'[c].terminalFailures = stats[c].terminalFailures
      /\ stats'[c].droppedBatches = stats[c].droppedBatches
  BY <1>1, <1>2 DEF TypeOK, CoreSnapshot
<1>5. JobsOf(c)' = JobsOf(c) /\ Taken(c)' = Taken(c) /\ Closed(c)' = Closed(c)
  BY <1>2 DEF JobsOf, Taken, Sending, Closed
<1>6. OneShort(c)'
  BY <1>1, <1>2, <1>5 DEF Tallied, OneShort
<1>7. TakenWhole(c)'
  BY <1>1, <1>5 DEF Tallied, TakenWhole
<1>8. SizesFit(c)'
  <2>1. \A v \in WorkersOf(c) : pc'[v] \in Posting => pc[v] \in Posting
    BY <1>1, <1>2 DEF TypeOK, WorkersOf, Posting
  <2> QED
    BY <1>1, <1>2, <2>1 DEF Tallied, SizesFit
<1>9. RetriesBounded(c)'
  <2> DEFINE L == RetriesLeft(c)
             M == RetriesLeft(c)'
             p == <<w, attempt[w]>>
  <2>1. M = L \ {p}
    <3>1. ASSUME NEW v \in WorkersOf(c), NEW i \in 1..(RetryAttempts - 1)
          PROVE  CanRetry(v, i)' <=> CanRetry(v, i) /\ <<v, i>> # p
      <4>1. CASE v = w
        BY <1>1, <1>2, <1>3, <4>1 DEF CanRetry, TypeOK
      <4>2. CASE v # w
        BY <1>1, <1>2, <4>2 DEF CanRetry, TypeOK, WorkersOf
      <4> QED
        BY <4>1, <4>2
    <3>2. \A x \in WorkersOf(c) \X (1..(RetryAttempts - 1)) : x = <<x[1], x[2]>>
      OBVIOUS
    <3> QED
      BY <3>1, <3>2 DEF RetriesLeft
  <2>2. p \in L
    BY <1>1, <1>3 DEF RetriesLeft, CanRetry
  <2>3. IsFiniteSet(L) /\ Cardinality(L) \in Nat
    <3>1. L \subseteq WorkersOf(c) \X (1..(RetryAttempts - 1))
      BY DEF RetriesLeft
    <3> QED
      BY <1>1, <3>1, RetriesFinite
  <2> HIDE DEF L, M, p
  <2>4. Cardinality(M) = Cardinality(L) - 1
    BY <2>1, <2>2, <2>3, FS_RemoveElement
  <2>5. stats[c].retryAttempts \in Nat
    BY <1>1 DEF CoreSnapshot
  <2>6. stats'[c].retryAttempts + Cardinality(M) = stats[c].retryAttempts + Cardinality(L)
    BY <1>4, <2>3, <2>4, <2>5
  <2> QED
    BY <1>1, <1>5, <2>6 DEF Tallied, RetriesBounded, L, M
<1>10. BatchesCounted(c)'
  BY <1>1, <1>2, <1>4 DEF Tallied, BatchesCounted
<1> QED
  BY <1>6, <1>7, <1>8, <1>9, <1>10 DEF Tallied

(* A new attempt leaves as many retries as there were. *)
LEMMA TalliedAgain ==
    ASSUME TallyInv, NEW w \in Workers, NEW c, c = CoreOf[w], BackoffElapsed(w)
    PROVE  Tallied(c)'
<1>1. c \in Cores /\ w \in WorkersOf(c) /\ Tallied(c) /\ TypeOK
  BY PoolAssumption DEF TallyInv, OrderInv, AccountInv, TypeInv, WorkersOf
<1>2. /\ UNCHANGED <<prod, queue, job, stats, settled>>
      /\ attempt' = [attempt EXCEPT ![w] = attempt[w] + 1]
      /\ pc[w] = "backoff" /\ pc'[w] \in {"post", "doomed"}
      /\ \A v \in Workers : v # w => pc'[v] = pc[v]
      /\ attempt[w] \in Nat
  BY <1>1, LimitAssumption DEF BackoffElapsed, StartRequest, TypeOK
<1>3. \A v \in Workers : attempt'[v] = IF v = w THEN attempt[w] + 1 ELSE attempt[v]
  BY <1>1, <1>2 DEF TypeOK
<1>4. RetriesLeft(c)' = RetriesLeft(c)
  <2>1. ASSUME NEW v \in WorkersOf(c), NEW i \in 1..(RetryAttempts - 1)
        PROVE  CanRetry(v, i)' <=> CanRetry(v, i)
    <3>1. CASE v = w
      BY <1>1, <1>2, <1>3, <3>1, LimitAssumption DEF CanRetry
    <3>2. CASE v # w
      BY <1>1, <1>2, <1>3, <3>2 DEF CanRetry, WorkersOf
    <3> QED
      BY <3>1, <3>2
  <2> QED
    BY <2>1 DEF RetriesLeft
<1>5. \A v \in WorkersOf(c) : pc'[v] \in Posting => pc[v] \in Posting /\ attempt'[v] >= 1
  <2> SUFFICES ASSUME NEW v \in WorkersOf(c), pc'[v] \in Posting
               PROVE  pc[v] \in Posting /\ attempt'[v] >= 1
    OBVIOUS
  <2>1. CASE v = w
    BY <1>2, <1>3, <2>1 DEF Posting, WorkersOf
  <2>2. CASE v # w
    BY <1>1, <1>2, <1>3, <2>2 DEF Tallied, SizesFit, WorkersOf
  <2> QED
    BY <2>1, <2>2
<1>6. (Closed(c) => Closed(c)') /\ Tallies(c)' = Tallies(c)
  BY <1>2 DEF Closed, Tallies
<1> QED
  BY <1>1, <1>2, <1>4, <1>5, <1>6, TalliedSame

(* A worker that holds nothing leaves the tallies alone. *)
LEMMA TalliedIdle ==
    ASSUME TallyInv, NEW w \in Workers, NEW c, c = CoreOf[w],
           ReturnIdle(w) \/ SleepElapsed(w) \/ SleepCanceled(w)
    PROVE  Tallied(c)'
<1>1. c \in Cores /\ w \in WorkersOf(c) /\ Tallied(c) /\ TypeOK
  BY PoolAssumption DEF TallyInv, OrderInv, AccountInv, TypeInv, WorkersOf
<1>2. /\ UNCHANGED <<prod, queue, job, attempt, stats, settled>>
      /\ pc[w] \notin Posting /\ pc'[w] \notin Posting
      /\ \A v \in Workers : v # w => pc'[v] = pc[v]
  BY <1>1 DEF ReturnIdle, SleepElapsed, SleepCanceled, TypeOK, Posting
<1>3. RetriesLeft(c)' = RetriesLeft(c)
  <2>1. ASSUME NEW v \in WorkersOf(c), NEW i \in 1..(RetryAttempts - 1)
        PROVE  CanRetry(v, i)' <=> CanRetry(v, i)
    BY <1>2 DEF CanRetry, WorkersOf, Posting
  <2> QED
    BY <2>1 DEF RetriesLeft
<1>4. \A v \in WorkersOf(c) : pc'[v] \in Posting => pc[v] \in Posting /\ attempt'[v] >= 1
  BY <1>1, <1>2 DEF Tallied, SizesFit, WorkersOf
<1>5. (Closed(c) => Closed(c)') /\ Tallies(c)' = Tallies(c)
  BY <1>2 DEF Closed, Tallies
<1> QED
  BY <1>1, <1>2, <1>3, <1>4, <1>5, TalliedSame

LEMMA TallyInit == Init => TallyInv
<1> SUFFICES ASSUME Init PROVE TallyInv
  OBVIOUS
<1>1. OrderInv /\ CleanInv
  BY OrderInit, AccountInit, ShutdownInit, TidyInit DEF CleanInv
<1>2. ASSUME NEW c \in Cores PROVE Tallied(c)
  <2>1. /\ queue[c] = <<>> /\ DOMAIN settled[c] = Outcome
        /\ \A o \in Outcome : settled[c][o] = {}
        /\ \A w \in WorkersOf(c) : pc[w] = "receive" /\ job[w] = {}
    BY DEF Init, WorkersOf
  <2>2. AllWhole(queue[c]) /\ AllWhole(JobsOf(c)) /\ AllWhole(settled[c])
    <3>1. AllWhole(queue[c])
      BY <2>1 DEF AllWhole
    <3>2. AllWhole(settled[c])
      BY <2>1, EmptyWhole DEF AllWhole
    <3>3. AllWhole(JobsOf(c))
      BY <2>1, EmptyWhole DEF AllWhole, JobsOf
    <3> QED
      BY <3>1, <3>2, <3>3
  <2>3. OneShort(c)
    BY <2>2 DEF OneShort
  <2>4. Taken(c) = {}
    BY <2>1 DEF Taken, Sending, DocsIn, JobsOf
  <2>5. TakenWhole(c)
    BY <2>4, EmptyWhole DEF TakenWhole
  <2>6. SizesFit(c)
    BY <2>1 DEF SizesFit, Posting
  <2>7. RetriesBounded(c)
    <3>1. RetriesLeft(c) = {}
      BY <2>1 DEF RetriesLeft, CanRetry
    <3>2. Cardinality(RetriesLeft(c)) = 0 /\ Cardinality(Taken(c)) = 0
      BY <2>4, <3>1, FS_EmptySet
    <3>3. stats[c].retryAttempts = 0
      BY DEF Init
    <3> QED
      BY <3>2, <3>3, BatchesNone, LimitAssumption DEF RetriesBounded
  <2>8. BatchesCounted(c)
    <3>1. \A o \in Outcome : Cardinality(settled[c][o]) = 0
      BY <2>1, FS_EmptySet
    <3>2. stats[c].successfulRequests = 0 /\ stats[c].terminalFailures = 0
          /\ stats[c].droppedBatches = 0
      BY DEF Init
    <3> QED
      BY <3>1, <3>2, BatchesNone DEF BatchesCounted, Outcome
  <2> QED
    BY <2>3, <2>5, <2>6, <2>7, <2>8 DEF Tallied
<1> QED
  BY <1>1, <1>2 DEF TallyInv

LEMMA TallyProduce ==
    ASSUME TallyInv, NEW c \in Cores, Produce(c), NEW d \in Cores
    PROVE  Tallied(d)'
<1>1. TypeOK /\ Tallied(d)
  BY DEF TallyInv, OrderInv, AccountInv, TypeInv
<1>2. UNCHANGED <<pc, job, attempt>>
  BY DEF Produce, KeepGoing, Generate, SendBatch, SendInterrupted, StopEmpty,
         FlushPartial, DropPartial
<1>3. RetriesLeft(d)' = RetriesLeft(d)
  BY <1>2, RetriesLeftSame
<1>4. \A w \in WorkersOf(d) : pc'[w] \in Posting => pc[w] \in Posting /\ attempt'[w] >= 1
  BY <1>1, <1>2 DEF Tallied, SizesFit
<1>5. ASSUME Closed(d) => Closed(d)', queue'[d] = queue[d], settled'[d] = settled[d],
             Tallies(d)' = Tallies(d)
      PROVE  Tallied(d)'
  BY <1>1, <1>2, <1>3, <1>4, <1>5, TalliedSame
<1>6. CASE d # c
  <2>1. prod'[d] = prod[d] /\ queue'[d] = queue[d] /\ settled'[d] = settled[d]
        /\ stats'[d] = stats[d]
    BY <1>1, <1>6 DEF Produce, KeepGoing, Generate, SendBatch, SendInterrupted, StopEmpty,
                FlushPartial, DropPartial, Settle, TypeOK
  <2> QED
    BY <1>5, <2>1 DEF Closed, Tallies
<1>7. CASE d = c
  <2>1. CASE KeepGoing(c) \/ SendInterrupted(c) \/ StopEmpty(c)
    <3>1. UNCHANGED <<queue, settled, stats>> /\ ~Closed(c)
      BY <2>1 DEF KeepGoing, SendInterrupted, StopEmpty, Closed
    <3> QED
      BY <1>5, <1>7, <3>1 DEF Tallies
  <2>2. CASE Generate(c)
    <3>1. UNCHANGED <<queue, settled>> /\ ~Closed(c)
          /\ stats' = [stats EXCEPT ![c].generatedDocs = stats[c].generatedDocs + 1]
      BY <2>2 DEF Generate, Closed
    <3>2. stats[c] \in CoreSnapshot
      BY <1>1 DEF TypeOK
    <3>3. Tallies(c)' = Tallies(c)
      BY <1>1, <3>1, <3>2 DEF Tallies, TypeOK, CoreSnapshot
    <3> QED
      BY <1>5, <1>7, <3>1, <3>3
  <2>3. CASE SendBatch(c) \/ FlushPartial(c)
    BY <1>7, <2>3, TalliedEnqueue
  <2>4. CASE DropPartial(c)
    BY <1>7, <2>4, TalliedDrop
  <2> QED
    BY <2>1, <2>2, <2>3, <2>4 DEF Produce
<1> QED
  BY <1>6, <1>7

(* A worker touches nobody else's batch and no other core's counters. *)
LEMMA WorkIsLocal ==
    ASSUME TypeInv, NEW w \in Workers, Work(w)
    PROVE  /\ \A v \in Workers : v # w =>
                pc'[v] = pc[v] /\ job'[v] = job[v] /\ attempt'[v] = attempt[v]
           /\ \A d \in Cores : d # CoreOf[w] =>
                queue'[d] = queue[d] /\ settled'[d] = settled[d] /\ stats'[d] = stats[d]
<1> DEFINE Local == /\ \A v \in Workers : v # w =>
                         pc'[v] = pc[v] /\ job'[v] = job[v] /\ attempt'[v] = attempt[v]
                    /\ \A d \in Cores : d # CoreOf[w] =>
                         queue'[d] = queue[d] /\ settled'[d] = settled[d] /\ stats'[d] = stats[d]
<1> USE DEF TypeInv, TypeOK
<1>1. CASE ReceiveJob(w)
  BY <1>1 DEF ReceiveJob, StartRequest
<1>2. CASE ReturnIdle(w) \/ BackoffElapsed(w) \/ SleepElapsed(w) \/ SleepCanceled(w)
  BY <1>2 DEF ReturnIdle, BackoffElapsed, SleepElapsed, SleepCanceled, StartRequest
<1>3. CASE BackoffCanceled(w)
  BY <1>3 DEF BackoffCanceled, Release, Settle
<1>4. ASSUME NEW err, AfterPost(w, err) PROVE Local
  <2>1. CASE Succeed(w, err)
    BY <1>4, <2>1 DEF AfterPost, Succeed, Release, Settle
  <2>2. CASE GiveUpCanceled(w, err)
    BY <1>4, <2>2 DEF AfterPost, GiveUpCanceled, Release, Settle
  <2>3. CASE GiveUp(w, err)
    BY <1>4, <2>3 DEF AfterPost, GiveUp, Release, Settle
  <2>4. CASE ScheduleRetry(w, err)
    BY <1>4, <2>4 DEF AfterPost, ScheduleRetry
  <2> QED
    BY <1>4, <2>1, <2>2, <2>3, <2>4 DEF AfterPost
<1> HIDE DEF Local
<1>5. CASE PostEnds(w) \/ RequestTimeout(w) \/ RequestCanceled(w)
  <2>1. Local
    BY <1>4, <1>5 DEF PostEnds, RequestTimeout, RequestCanceled
  <2> QED
    BY <2>1 DEF Local
<1> QED
  BY <1>1, <1>2, <1>3, <1>5 DEF Work, WorkAlone

LEMMA TalliedResult ==
    ASSUME TallyInv, NEW w \in Workers, NEW c, c = CoreOf[w], NEW err, AfterPost(w, err),
           pc[w] \in {"post", "doomed"}
    PROVE  Tallied(c)'
<1>1. c \in Cores /\ TypeOK /\ stats[c] \in CoreSnapshot
  BY PoolAssumption DEF TallyInv, OrderInv, AccountInv, TypeInv, TypeOK
<1>2. queue' = queue /\ prod' = prod /\ pc[w] \in Posting
  BY DEF AfterPost, Posting
<1>3. CASE Succeed(w, err)
  <2>1. "sent" \in Outcome \ {"dropped"} /\ Release(w, "sent")
    BY <1>3 DEF Succeed, Outcome
  <2>2. CountsAs(c, "sent")
    BY <1>1, <1>3 DEF Succeed, CountsAs, TypeOK, CoreSnapshot
  <2> QED
    BY <1>2, <2>1, <2>2, TalliedRelease
<1>4. CASE GiveUpCanceled(w, err)
  <2>1. "canceled" \in Outcome \ {"dropped"} /\ Release(w, "canceled")
    BY <1>4 DEF GiveUpCanceled, Outcome
  <2>2. CountsAs(c, "canceled")
    BY <1>1, <1>4 DEF GiveUpCanceled, CountsAs, CoreSnapshot
  <2> QED
    BY <1>2, <2>1, <2>2, TalliedRelease
<1>5. CASE GiveUp(w, err)
  <2>1. "failed" \in Outcome \ {"dropped"} /\ Release(w, "failed")
    BY <1>5 DEF GiveUp, Outcome
  <2>2. CountsAs(c, "failed")
    BY <1>1, <1>5 DEF GiveUp, CountsAs, TypeOK, CoreSnapshot
  <2> QED
    BY <1>2, <2>1, <2>2, TalliedRelease
<1>6. CASE ScheduleRetry(w, err)
  BY <1>2, <1>6, TalliedRetry
<1> QED
  BY <1>3, <1>4, <1>5, <1>6 DEF AfterPost

LEMMA TallyWork ==
    ASSUME TallyInv, NEW w \in Workers, Work(w), NEW d \in Cores
    PROVE  Tallied(d)'
<1> DEFINE c == CoreOf[w]
<1>1. c \in Cores /\ TypeInv /\ TypeOK /\ Tallied(d)
  BY PoolAssumption DEF TallyInv, OrderInv, AccountInv, TypeInv
<1>2. CASE d # c
  <2>1. \A v \in WorkersOf(d) : pc'[v] = pc[v] /\ job'[v] = job[v] /\ attempt'[v] = attempt[v]
    BY <1>1, <1>2, WorkIsLocal DEF WorkersOf
  <2>2. queue'[d] = queue[d] /\ settled'[d] = settled[d] /\ stats'[d] = stats[d]
    BY <1>1, <1>2, WorkIsLocal
  <2>3. RetriesLeft(d)' = RetriesLeft(d)
    BY <2>1, RetriesLeftSame
  <2>4. \A v \in WorkersOf(d) : pc'[v] \in Posting => pc[v] \in Posting /\ attempt'[v] >= 1
    BY <1>1, <2>1 DEF Tallied, SizesFit
  <2>5. (Closed(d) => Closed(d)') /\ Tallies(d)' = Tallies(d)
    BY <2>2, ReturnedWorker DEF Closed, Tallies
  <2> QED
    BY <1>1, <2>1, <2>2, <2>3, <2>4, <2>5, TalliedSame
<1>3. ASSUME d = c PROVE Tallied(c)'
  <2>1. CASE ReceiveJob(w)
    BY <2>1, TalliedReceive
  <2>2. CASE ReturnIdle(w) \/ SleepElapsed(w) \/ SleepCanceled(w)
    BY <2>2, TalliedIdle
  <2>3. CASE BackoffElapsed(w)
    BY <2>3, TalliedAgain
  <2>4. CASE BackoffCanceled(w)
    <3>1. "canceled" \in Outcome \ {"dropped"} /\ Release(w, "canceled") /\ pc[w] \in Posting
          /\ queue' = queue /\ prod' = prod
      BY <2>4 DEF BackoffCanceled, Outcome, Posting
    <3>2. stats[c] \in CoreSnapshot
      BY <1>1 DEF TypeOK
    <3>3. CountsAs(c, "canceled")
      BY <2>4, <3>2 DEF BackoffCanceled, CountsAs, CoreSnapshot
    <3> QED
      BY <3>1, <3>3, TalliedRelease
  <2>5. CASE PostEnds(w) \/ RequestTimeout(w) \/ RequestCanceled(w)
    BY <2>5, TalliedResult DEF PostEnds, RequestTimeout, RequestCanceled
  <2> QED
    BY <2>1, <2>2, <2>3, <2>4, <2>5 DEF Work, WorkAlone
<1> QED
  BY <1>2, <1>3

LEMMA TallyNext == TallyInv /\ [Next]_vars => TallyInv'
<1> SUFFICES ASSUME TallyInv, [Next]_vars PROVE TallyInv'
  OBVIOUS
<1>1. OrderInv' /\ CleanInv'
  BY OrderNext, TidyNext DEF TallyInv
<1> SUFFICES ASSUME NEW d \in Cores PROVE Tallied(d)'
  BY <1>1 DEF TallyInv
<1>2. CASE \E c \in Cores : Produce(c)
  BY <1>2, TallyProduce
<1>3. CASE \E w \in Workers : Work(w)
  BY <1>3, TallyWork
<1>4. CASE Shutdown \/ Coordinate \/ UNCHANGED vars
  <2>1. UNCHANGED <<prod, queue, pc, job, attempt, stats, settled>> /\ Tallied(d)
    BY <1>4 DEF Shutdown, Coordinate, ProducersJoined, ShutdownTimeout, Finish, vars, TallyInv
  <2>2. RetriesLeft(d)' = RetriesLeft(d)
    BY <2>1, RetriesLeftSame
  <2>3. \A w \in WorkersOf(d) : pc'[w] \in Posting => pc[w] \in Posting /\ attempt'[w] >= 1
    BY <2>1 DEF Tallied, SizesFit
  <2>4. (Closed(d) => Closed(d)') /\ Tallies(d)' = Tallies(d)
    BY <2>1 DEF Closed, Tallies
  <2> QED
    BY <2>1, <2>2, <2>3, <2>4, TalliedSame
<1> QED
  BY <1>2, <1>3, <1>4 DEF Next

(* The counters tell exactly what happened: successes, terminal failures and  *)
(* drops count batches, the documents sent are counted one by one, at most    *)
(* one batch per core is dropped, and no batch is retried more often than     *)
(* RetryAttempts allows.                                                      *)
THEOREM StatsAreExact == Spec => []StatsExact
<1>1. TallyInv => StatsExact
  <2> SUFFICES ASSUME TallyInv, NEW c \in Cores
               PROVE  /\ stats[c].successfulDocs = Cardinality(settled[c]["sent"])
                      /\ BatchesCounted(c)
                      /\ stats[c].retryAttempts
                            <= (RetryAttempts - 1) * Batches(Cardinality(Taken(c)))
    BY DEF StatsExact, BatchesCounted, Outcome
  <2>1. Tallied(c) /\ stats[c] \in CoreSnapshot /\ AccountInv
    BY DEF TallyInv, OrderInv, AccountInv, TypeInv, TypeOK
  <2>2. stats[c].successfulDocs = Cardinality(settled[c]["sent"])
    BY DEF TallyInv, CleanInv, Tidy, SentCounted
  <2>3. Cardinality(RetriesLeft(c)) \in Nat
    <3>1. RetriesLeft(c) \subseteq WorkersOf(c) \X (1..(RetryAttempts - 1))
      BY DEF RetriesLeft
    <3> QED
      BY <3>1, RetriesFinite
  <2>4. (RetryAttempts - 1) * Batches(Cardinality(Taken(c))) \in Nat
    <3>1. Batches(Cardinality(Taken(c))) \in Nat
      BY <2>1, TakenFinite, DocSetFacts, BatchesType
    <3> QED
      BY <3>1, LimitAssumption
  <2>5. stats[c].retryAttempts <= (RetryAttempts - 1) * Batches(Cardinality(Taken(c)))
    BY <2>1, <2>3, <2>4 DEF Tallied, RetriesBounded, CoreSnapshot
  <2> QED
    BY <2>1, <2>2, <2>5 DEF Tallied
<1> QED
  BY <1>1, TallyInit, TallyNext, PTL DEF Spec

-----------------------------------------------------------------------------
(* Sums over finite sets.  The fold sets aside one chosen element after the   *)
(* other; the function it is defined with exists, which is shown for the      *)
(* subsets of one size after the other.                                       *)
Chosen(s) == CHOOSE x \in s : TRUE
SumStep(f, s, g) == IF s = {} THEN 0 ELSE f[Chosen(s)] + g[s \ {Chosen(s)}]
IsSum(f, S, g) == g = [s \in SUBSET S |-> SumStep(f, s, g)]

LEMMA ChosenIs ==
    ASSUME NEW s, s # {}
    PROVE  Chosen(s) \in s
BY DEF Chosen

LEMMA ChosenLeft ==
    ASSUME NEW S, IsFiniteSet(S), NEW s \in SUBSET S, s # {}
    PROVE  /\ Chosen(s) \in s /\ s \ {Chosen(s)} \in SUBSET S
           /\ Cardinality(s) \in Nat /\ Cardinality(s) >= 1
           /\ Cardinality(s \ {Chosen(s)}) = Cardinality(s) - 1
<1>1. Chosen(s) \in s
  BY ChosenIs
<1>2. IsFiniteSet(s)
  BY FS_Subset
<1>3. Cardinality(s) \in Nat /\ Cardinality(s) # 0
  BY <1>2, FS_CardinalityType, FS_EmptySet
<1>4. Cardinality(s \ {Chosen(s)}) = Cardinality(s) - 1
  BY <1>1, <1>2, FS_RemoveElement
<1> QED
  BY <1>1, <1>3, <1>4

(* What holds of the empty set and is kept by adding the chosen element holds *)
(* of all subsets.                                                            *)
LEMMA ChosenInduction ==
    ASSUME NEW S, IsFiniteSet(S), NEW T, {} \in T,
           \A s \in SUBSET S : s # {} /\ s \ {Chosen(s)} \in T => s \in T
    PROVE  S \in T
<1> DEFINE Sizes == {n \in Nat : \E s \in SUBSET S : s \notin T /\ Cardinality(s) = n}
<1> SUFFICES ASSUME S \notin T PROVE FALSE
  OBVIOUS
<1>1. Cardinality(S) \in Sizes
  BY FS_CardinalityType
<1>2. Sizes \subseteq Nat /\ Sizes # {}
  BY <1>1
<1>3. PICK n \in Sizes : \A m \in Sizes : n <= m
  BY <1>2, LeastMember
<1>4. PICK s \in SUBSET S : s \notin T /\ Cardinality(s) = n
  OBVIOUS
<1>5. s # {}
  BY <1>4
<1>6. /\ s \ {Chosen(s)} \in SUBSET S /\ n \in Nat /\ n >= 1
      /\ Cardinality(s \ {Chosen(s)}) = n - 1
  BY <1>4, <1>5, ChosenLeft
<1>7. s \ {Chosen(s)} \notin T
  BY <1>4, <1>5
<1>8. n - 1 \in Sizes
  BY <1>6, <1>7
<1> QED
  BY <1>3, <1>6, <1>8

LEMMA SumExists ==
    ASSUME NEW S, IsFiniteSet(S), NEW f, \A x \in S : f[x] \in Nat
    PROVE  \E g : IsSum(f, S, g)
<1> DEFINE Sub(n) == {s \in SUBSET S : Cardinality(s) <= n}
           Has(n) == \E g : g = [s \in Sub(n) |-> SumStep(f, s, g)]
           E == {n \in Nat : ~Has(n)}
<1>1. Has(0)
  <2>1. ASSUME NEW s \in Sub(0) PROVE s = {}
    <3> SUFFICES ASSUME s # {} PROVE FALSE
      OBVIOUS
    <3>1. s \in SUBSET S /\ Cardinality(s) <= 0
      OBVIOUS
    <3>2. Cardinality(s) >= 1 /\ Cardinality(s) \in Nat
      BY <3>1, ChosenLeft
    <3> QED
      BY <3>1, <3>2
  <2> DEFINE g == [s \in Sub(0) |-> 0]
  <2>2. \A s \in Sub(0) : 0 = SumStep(f, s, g)
    BY <2>1 DEF SumStep
  <2>3. g = [s \in Sub(0) |-> SumStep(f, s, g)]
    BY <2>2
  <2> QED
    BY <2>3
<1>2. ASSUME NEW n \in Nat, Has(n) PROVE Has(n + 1)
  <2>1. PICK g : g = [s \in Sub(n) |-> SumStep(f, s, g)]
    BY <1>2
  <2> DEFINE h == [s \in Sub(n + 1) |-> SumStep(f, s, g)]
  <2>2. ASSUME NEW s \in Sub(n + 1) PROVE SumStep(f, s, g) = SumStep(f, s, h)
    <3>1. CASE s = {}
      BY <3>1 DEF SumStep
    <3>2. CASE s # {}
      <4> DEFINE t == s \ {Chosen(s)}
      <4>1. t \in SUBSET S /\ Cardinality(t) <= n /\ Cardinality(t) <= n + 1
        <5>1. s \in SUBSET S /\ Cardinality(s) <= n + 1
          OBVIOUS
        <5> QED
          BY <3>2, <5>1, ChosenLeft
      <4>2. t \in Sub(n) /\ t \in Sub(n + 1)
        BY <4>1
      <4> HIDE DEF t, Sub
      <4>3. g[t] = SumStep(f, t, g)
        BY <2>1, <4>2
      <4>4. h[t] = SumStep(f, t, g)
        BY <4>2
      <4> HIDE DEF h
      <4>5. g[t] = h[t]
        BY <4>3, <4>4
      <4> QED
        BY <3>2, <4>5 DEF SumStep, t
    <3> QED
      BY <3>1, <3>2
  <2>3. h = [s \in Sub(n + 1) |-> SumStep(f, s, h)]
    BY <2>2
  <2> QED
    BY <2>3
<1> HIDE DEF Has
<1>3. E = {}
  <2> SUFFICES ASSUME E # {} PROVE FALSE
    OBVIOUS
  <2>1. PICK n \in E : \A m \in E : n <= m
    BY LeastMember
  <2>2. n # 0
    BY <1>1
  <2>3. n - 1 \in Nat /\ n - 1 \notin E /\ (n - 1) + 1 = n
    BY <2>1, <2>2
  <2>4. Has(n - 1)
    BY <2>3
  <2> QED
    BY <1>2, <2>3, <2>4
<1>4. Cardinality(S) \in Nat
  BY FS_CardinalityType
<1>5. Has(Cardinality(S))
  BY <1>3, <1>4
<1>6. Sub(Cardinality(S)) = SUBSET S
  BY FS_Subset
<1> QED
  BY <1>5, <1>6 DEF Has, IsSum

LEMMA SumIsFold ==
    ASSUME NEW S, IsFiniteSet(S), NEW f, \A x \in S : f[x] \in Nat
    PROVE  \E g : IsSum(f, S, g) /\ FoldFunctionOnSet(+, 0, f, S) = g[S]
<1> DEFINE Is(g) == g = [s \in SUBSET S |->
                           IF s = {} THEN 0
                           ELSE f[CHOOSE x \in s : TRUE] + g[s \ {CHOOSE x \in s : TRUE}]]
<1>1. FoldFunctionOnSet(+, 0, f, S) = (CHOOSE g : Is(g))[S]
  BY DEF FoldFunctionOnSet, MapThenFoldSet
<1>2. \A g : Is(g) <=> IsSum(f, S, g)
  BY DEF IsSum, SumStep, Chosen
<1> HIDE DEF Is
<1>3. \E g : Is(g)
  BY <1>2, SumExists
<1>4. Is(CHOOSE g : Is(g))
  BY <1>3, Zenon
<1> QED
  BY <1>1, <1>2, <1>4, Zenon

LEMMA SumIsNat ==
    ASSUME NEW S, IsFiniteSet(S), NEW f, \A x \in S : f[x] \in Nat
    PROVE  FoldFunctionOnSet(+, 0, f, S) \in Nat
<1>1. PICK g : IsSum(f, S, g) /\ FoldFunctionOnSet(+, 0, f, S) = g[S]
  BY SumIsFold
<1>2. /\ g[{}] = 0
      /\ \A s \in SUBSET S : s # {} => g[s] = f[Chosen(s)] + g[s \ {Chosen(s)}]
  BY <1>1 DEF IsSum, SumStep
<1> DEFINE T == {s \in SUBSET S : g[s] \in Nat}
<1>3. {} \in T
  BY <1>2
<1>4. ASSUME NEW s \in SUBSET S, s # {}, s \ {Chosen(s)} \in T PROVE s \in T
  <2>1. PICK x, t : x = f[Chosen(s)] /\ t = g[s \ {Chosen(s)}]
    OBVIOUS
  <2>2. Chosen(s) \in S
    BY <1>4, ChosenIs
  <2>3. x \in Nat /\ t \in Nat /\ g[s] = x + t
    BY <1>2, <1>4, <2>1, <2>2
  <2> QED
    BY <2>3
<1> HIDE DEF T
<1>5. S \in T
  BY <1>3, <1>4, ChosenInduction
<1> QED
  BY <1>1, <1>5 DEF T

LEMMA SumBounds ==
    ASSUME NEW S, IsFiniteSet(S), NEW B \in Nat, NEW f, \A x \in S : f[x] \in 0..B
    PROVE  /\ FoldFunctionOnSet(+, 0, f, S) \in Nat
           /\ FoldFunctionOnSet(+, 0, f, S) <= B * Cardinality(S)
<1>1. \A x \in S : f[x] \in Nat
  OBVIOUS
<1>2. PICK g : IsSum(f, S, g) /\ FoldFunctionOnSet(+, 0, f, S) = g[S]
  BY <1>1, SumIsFold
<1>3. /\ g[{}] = 0
      /\ \A s \in SUBSET S : s # {} => g[s] = f[Chosen(s)] + g[s \ {Chosen(s)}]
  BY <1>2 DEF IsSum, SumStep
<1> DEFINE T == {s \in SUBSET S : g[s] \in Nat /\ g[s] <= B * Cardinality(s)}
<1>4. {} \in T
  <2>1. Cardinality({}) = 0
    BY FS_EmptySet
  <2> QED
    BY <1>3, <2>1
<1>5. ASSUME NEW s \in SUBSET S, s # {}, s \ {Chosen(s)} \in T PROVE s \in T
  <2>1. PICK t, k, m : t = g[s \ {Chosen(s)}] /\ k = Cardinality(s) /\ m = f[Chosen(s)]
    OBVIOUS
  <2>2. /\ k \in Nat /\ Cardinality(s \ {Chosen(s)}) = k - 1 /\ Chosen(s) \in S
    BY <1>5, <2>1, ChosenLeft
  <2>3. t \in Nat /\ t <= B * (k - 1) /\ m \in 0..B /\ g[s] = m + t
    BY <1>3, <1>5, <2>1, <2>2
  <2>4. B * (k - 1) = B * k - B /\ B * k \in Int
    BY <2>2
  <2>5. m + t \in Nat /\ m + t <= B * k
    BY <2>3, <2>4
  <2> QED
    BY <2>1, <2>3, <2>5
<1> HIDE DEF T
<1>6. S \in T
  BY <1>4, <1>5, ChosenInduction
<1> QED
  BY <1>2, <1>6 DEF T

LEMMA SumOfNone ==
    ASSUME NEW S, IsFiniteSet(S), NEW f, \A x \in S : f[x] = 0
    PROVE  FoldFunctionOnSet(+, 0, f, S) = 0
<1>1. \A x \in S : f[x] \in 0..0
  OBVIOUS
<1>2. 0 * Cardinality(S) = 0
  BY FS_CardinalityType
<1>3. PICK n : n = FoldFunctionOnSet(+, 0, f, S)
  OBVIOUS
<1>4. n \in Nat /\ n <= 0 * Cardinality(S)
  BY <1>1, <1>3, SumBounds
<1>5. n = 0
  BY <1>2, <1>4
<1> QED
  BY <1>3, <1>5, Zenon

(* A sum follows the one value that changes. *)
LEMMA SumMoves ==
    ASSUME NEW S, IsFiniteSet(S), NEW f, NEW h, NEW w,
           \A x \in S : f[x] \in Nat /\ h[x] \in Nat,
           \A x \in S : x # w => h[x] = f[x]
    PROVE  FoldFunctionOnSet(+, 0, h, S)
             = IF w \in S THEN FoldFunctionOnSet(+, 0, f, S) - f[w] + h[w]
               ELSE FoldFunctionOnSet(+, 0, f, S)
<1>1. PICK g : IsSum(f, S, g) /\ FoldFunctionOnSet(+, 0, f, S) = g[S]
  BY SumIsFold
<1>2. PICK i : IsSum(h, S, i) /\ FoldFunctionOnSet(+, 0, h, S) = i[S]
  BY SumIsFold
<1>3. /\ g[{}] = 0
      /\ \A s \in SUBSET S : s # {} => g[s] = f[Chosen(s)] + g[s \ {Chosen(s)}]
  BY <1>1 DEF IsSum, SumStep
<1>4. /\ i[{}] = 0
      /\ \A s \in SUBSET S : s # {} => i[s] = h[Chosen(s)] + i[s \ {Chosen(s)}]
  BY <1>2 DEF IsSum, SumStep
<1> DEFINE T == {s \in SUBSET S : /\ g[s] \in Int
                                  /\ i[s] = IF w \in s THEN g[s] - f[w] + h[w] ELSE g[s]}
<1>5. {} \in T
  BY <1>3, <1>4
<1>6. ASSUME NEW s \in SUBSET S, s # {}, s \ {Chosen(s)} \in T PROVE s \in T
  <2>1. PICK x, t : x = Chosen(s) /\ t = s \ {x}
    OBVIOUS
  <2>2. x \in s /\ x \in S
    BY <1>6, <2>1, ChosenIs
  <2>3. g[s] = f[x] + g[t] /\ i[s] = h[x] + i[t]
    BY <1>3, <1>4, <1>6, <2>1
  <2>4. g[t] \in Int /\ i[t] = IF w \in t THEN g[t] - f[w] + h[w] ELSE g[t]
    BY <1>6, <2>1
  <2>5. f[x] \in Nat /\ h[x] \in Nat /\ (x # w => h[x] = f[x])
    BY <2>2
  <2>6. w \in s => f[w] \in Nat /\ h[w] \in Nat
    OBVIOUS
  <2>7. CASE x = w
    <3>1. w \notin t /\ w \in s
      BY <2>1, <2>2, <2>7
    <3> QED
      BY <2>3, <2>4, <2>5, <2>7, <3>1
  <2>8. CASE x # w
    <3>1. w \in t <=> w \in s
      BY <2>1, <2>8
    <3> QED
      BY <2>3, <2>4, <2>5, <2>6, <2>8, <3>1
  <2> QED
    BY <2>7, <2>8
<1> HIDE DEF T
<1>7. S \in T
  BY <1>5, <1>6, ChosenInduction
<1> QED
  BY <1>1, <1>2, <1>7 DEF T
=============================================================================
