--------------------------- MODULE SeederPipeline ---------------------------
(* The seeder's pipeline (app/internal/seeder/runner): for each core one      *)
(* producer fills batches with generated documents and puts them on a bounded *)
(* channel, a pool of workers takes them off and posts them to Solr with      *)
(* retries, and Run coordinates the two-stage shutdown: first the producers   *)
(* stop and the workers drain the channels, then, when the shutdown timeout   *)
(* strikes first, the workers are canceled.                                   *)
(*                                                                            *)
(* Documents are the numbers 1, 2, 3, ... the core's generator gives them.    *)
(* Time is left out: a timer that runs may fire at any moment.  A channel     *)
(* operation, a call of the atomic counters and the code between two of them  *)
(* is one step.  Telemetry observes these steps and decides none.             *)
EXTENDS Naturals, Sequences, FiniteSets, SolrClient

CONSTANTS
    Cores,          \* the cores written to: movies and books
    Workers,        \* all workers of all cores
    CoreOf,         \* the core each worker serves
    BatchSize,      \* cfg.BatchSize
    RetryAttempts,  \* cfg.RetryAttempts: how often one batch is posted at most
    WorkerSleeps,   \* cfg.WorkerSleep > 0
    Answers,        \* how an exchange may end other than through the context
    MaxDocs         \* bound of the model: no core generates more documents

WorkersOf(c) == {w \in Workers : CoreOf[w] = c}

ASSUME PoolAssumption ==
    /\ IsFiniteSet(Workers)
    /\ CoreOf \in [Workers -> Cores]
    /\ \A c \in Cores : WorkersOf(c) # {}

ASSUME LimitAssumption ==
    /\ BatchSize \in Nat \ {0}
    /\ RetryAttempts \in Nat \ {0}
    /\ WorkerSleeps \in BOOLEAN
    /\ MaxDocs \in Nat

ASSUME AnswerAssumption ==
    /\ Answers \subseteq Exchange
    /\ \A x \in Answers : PostBatch(x).Err \notin {"canceled", "deadline"}

VARIABLES
    phase,      \* where Run is
    forced,     \* forceCtx is done
    prod,       \* where the producer of each core is
    batch,      \* the batch each producer fills
    queue,      \* the channel of each core: a sequence of batches
    pc,         \* where each worker is
    job,        \* the batch each worker sends
    attempt,    \* the number of the attempt to send it
    stats,      \* the counters of each core (stats.CoreStats)
    settled     \* history: how each document ended

vars == <<phase, forced, prod, batch, queue, pc, job, attempt, stats, settled>>

Phase    == {"running", "stopping", "draining", "forcing", "finished"}
ProdPc   == {"select", "generate", "send", "returned"}
WorkerPc == {"receive", "post", "doomed", "backoff", "sleep", "returned"}
Outcome  == {"sent", "failed", "canceled", "dropped"}

DocSet == {D \in SUBSET Nat : IsFiniteSet(D)}

CoreSnapshot ==
    [generatedDocs : Nat, successfulRequests : Nat, successfulDocs : Nat,
     retryAttempts : Nat, terminalFailures : Nat, droppedBatches : Nat]

(* make(chan Job, workers*2) *)
Capacity(c) == 2 * Cardinality(WorkersOf(c))
Full(c)     == Len(queue[c]) >= Capacity(c)
Stopped     == phase # "running"        \* producerCtx is done
Closed(c)   == prod[c] = "returned"     \* produce closes the channel as it returns

Init ==
    /\ phase = "running"
    /\ forced = FALSE
    /\ prod = [c \in Cores |-> "select"]
    /\ batch = [c \in Cores |-> {}]
    /\ queue = [c \in Cores |-> <<>>]
    /\ pc = [w \in Workers |-> "receive"]
    /\ job = [w \in Workers |-> {}]
    /\ attempt = [w \in Workers |-> 0]
    /\ stats = [c \in Cores |->
                 [generatedDocs |-> 0, successfulRequests |-> 0, successfulDocs |-> 0,
                  retryAttempts |-> 0, terminalFailures |-> 0, droppedBatches |-> 0]]
    /\ settled = [c \in Cores |-> [o \in Outcome |-> {}]]

Settle(c, outcome, docs) ==
    settled' = [settled EXCEPT ![c][outcome] = @ \cup docs]

-----------------------------------------------------------------------------
(* The producer of core c: produce. *)

(* select at the top of the loop, with the context still alive. *)
KeepGoing(c) ==
    /\ prod[c] = "select"
    /\ ~Stopped
    /\ stats[c].generatedDocs < MaxDocs
    /\ prod' = [prod EXCEPT ![c] = "generate"]
    /\ UNCHANGED <<phase, forced, batch, queue, pc, job, attempt, stats, settled>>

(* Append one document; the batch goes out when it is full. *)
Generate(c) ==
    LET doc   == stats[c].generatedDocs + 1
        grown == batch[c] \cup {doc}
    IN  /\ prod[c] = "generate"
        /\ batch' = [batch EXCEPT ![c] = grown]
        /\ stats' = [stats EXCEPT ![c].generatedDocs = doc]
        /\ prod' = [prod EXCEPT ![c] =
                      IF Cardinality(grown) < BatchSize THEN "select" ELSE "send"]
        /\ UNCHANGED <<phase, forced, queue, pc, job, attempt, settled>>

(* SendBatch that forgets batch[:0]. *)
SendBatch_KeepsBatch(c) ==
    /\ prod[c] = "send"
    /\ ~Full(c)
    /\ queue' = [queue EXCEPT ![c] = Append(@, batch[c])]
    /\ prod' = [prod EXCEPT ![c] = "select"]
    /\ UNCHANGED <<phase, forced, batch, pc, job, attempt, stats, settled>>

(* The blocking send of a full batch. *)
SendBatch(c) ==
    /\ prod[c] = "send"
    /\ ~Full(c)
    /\ queue' = [queue EXCEPT ![c] = Append(@, batch[c])]
    /\ batch' = [batch EXCEPT ![c] = {}]
    /\ prod' = [prod EXCEPT ![c] = "select"]
    /\ UNCHANGED <<phase, forced, pc, job, attempt, stats, settled>>

(* The other branch of that select: the batch is kept. *)
SendInterrupted(c) ==
    /\ prod[c] = "send"
    /\ Stopped
    /\ prod' = [prod EXCEPT ![c] = "select"]
    /\ UNCHANGED <<phase, forced, batch, queue, pc, job, attempt, stats, settled>>

(* StopEmpty when only the flush branch returns. *)
StopEmpty_NoReturn(c) ==
    prod[c] = "select" /\ Stopped /\ batch[c] = {} /\ UNCHANGED vars

(* The context is done: return, with no batch to flush, ... *)
StopEmpty(c) ==
    /\ prod[c] = "select"
    /\ Stopped
    /\ batch[c] = {}
    /\ prod' = [prod EXCEPT ![c] = "returned"]
    /\ UNCHANGED <<phase, forced, batch, queue, pc, job, attempt, stats, settled>>

(* ... or after a send that does not block, ... *)
FlushPartial(c) ==
    /\ prod[c] = "select"
    /\ Stopped
    /\ batch[c] # {}
    /\ ~Full(c)
    /\ queue' = [queue EXCEPT ![c] = Append(@, batch[c])]
    /\ batch' = [batch EXCEPT ![c] = {}]
    /\ prod' = [prod EXCEPT ![c] = "returned"]
    /\ UNCHANGED <<phase, forced, pc, job, attempt, stats, settled>>

(* DropPartial that makes room by dropping the oldest batch instead. *)
DropPartial_Oldest(c) ==
    /\ prod[c] = "select" /\ Stopped /\ batch[c] # {} /\ Full(c)
    /\ stats' = [stats EXCEPT ![c].droppedBatches = @ + 1]
    /\ Settle(c, "dropped", Head(queue[c]))
    /\ queue' = [queue EXCEPT ![c] = Append(Tail(@), batch[c])]
    /\ batch' = [batch EXCEPT ![c] = {}]
    /\ prod' = [prod EXCEPT ![c] = "returned"]
    /\ UNCHANGED <<phase, forced, pc, job, attempt>>

(* ... or after dropping the batch, when that send would block. *)
DropPartial(c) ==
    /\ prod[c] = "select"
    /\ Stopped
    /\ batch[c] # {}
    /\ Full(c)
    /\ stats' = [stats EXCEPT ![c].droppedBatches = @ + 1]
    /\ Settle(c, "dropped", batch[c])
    /\ batch' = [batch EXCEPT ![c] = {}]
    /\ prod' = [prod EXCEPT ![c] = "returned"]
    /\ UNCHANGED <<phase, forced, queue, pc, job, attempt>>

Produce(c) ==
    \/ KeepGoing(c) \/ Generate(c) \/ SendBatch(c) \/ SendInterrupted(c)
    \/ StopEmpty(c) \/ FlushPartial(c) \/ DropPartial(c)

-----------------------------------------------------------------------------
(* A worker w of core CoreOf[w]: worker and sendWithRetry. *)

(* StartRequest under a context that is not derived from forceCtx. *)
StartRequest_Detached(w) == pc' = [pc EXCEPT ![w] = "post"]

(* A request made under a context that is already done never leaves the       *)
(* client: it can only be canceled.                                           *)
StartRequest(w) == pc' = [pc EXCEPT ![w] = IF forced THEN "doomed" ELSE "post"]

(* The select may pick the channel although forceCtx is done. *)
ReceiveJob(w) ==
    LET c == CoreOf[w]
    IN  /\ pc[w] = "receive"
        /\ queue[c] # <<>>
        /\ job' = [job EXCEPT ![w] = Head(queue[c])]
        /\ queue' = [queue EXCEPT ![c] = Tail(@)]
        /\ attempt' = [attempt EXCEPT ![w] = 1]
        /\ StartRequest(w)
        /\ UNCHANGED <<phase, forced, prod, batch, stats, settled>>

(* ReturnIdle as soon as the channel is closed. *)
ReturnIdle_Undrained(w) ==
    /\ pc[w] = "receive"
    /\ forced \/ Closed(CoreOf[w])
    /\ pc' = [pc EXCEPT ![w] = "returned"]
    /\ UNCHANGED <<phase, forced, prod, batch, queue, job, attempt, stats, settled>>

(* The channel is closed and drained, or forceCtx is done: return. *)
ReturnIdle(w) ==
    /\ pc[w] = "receive"
    /\ forced \/ (Closed(CoreOf[w]) /\ queue[CoreOf[w]] = <<>>)
    /\ pc' = [pc EXCEPT ![w] = "returned"]
    /\ UNCHANGED <<phase, forced, prod, batch, queue, job, attempt, stats, settled>>

(* sendWithRetry returns: the batch is forgotten whatever became of it. *)
Release(w, outcome) ==
    /\ Settle(CoreOf[w], outcome, job[w])
    /\ job' = [job EXCEPT ![w] = {}]
    /\ attempt' = [attempt EXCEPT ![w] = 0]
    /\ pc' = [pc EXCEPT ![w] = IF WorkerSleeps THEN "sleep" ELSE "receive"]

(* What sendWithRetry does with the result of one PostBatch. *)
Succeed(w, err) ==
    LET c == CoreOf[w]
    IN  /\ ~err.failed
        /\ stats' = [stats EXCEPT ![c].successfulRequests = @ + 1,
                                 ![c].successfulDocs = @ + Cardinality(job[w])]
        /\ Release(w, "sent")

(* GiveUpCanceled that counts a terminal failure. *)
GiveUpCanceled_Counted(w, err) ==
    /\ err.failed
    /\ IsCanceled(err) \/ forced
    /\ Release(w, "canceled")
    /\ stats' = [stats EXCEPT ![CoreOf[w]].terminalFailures = @ + 1]

GiveUpCanceled(w, err) ==
    /\ err.failed
    /\ IsCanceled(err) \/ forced
    /\ Release(w, "canceled")
    /\ UNCHANGED stats

(* GiveUp that looks at the kind of failure only and forgets the context. *)
GiveUp_EvenForced(w, err) ==
    /\ err.failed
    /\ ~IsCanceled(err)
    /\ ~IsRetryable(err) \/ attempt[w] = RetryAttempts
    /\ stats' = [stats EXCEPT ![CoreOf[w]].terminalFailures = @ + 1]
    /\ Release(w, "failed")

GiveUp(w, err) ==
    /\ err.failed
    /\ ~IsCanceled(err) /\ ~forced
    /\ ~IsRetryable(err) \/ attempt[w] = RetryAttempts
    /\ stats' = [stats EXCEPT ![CoreOf[w]].terminalFailures = @ + 1]
    /\ Release(w, "failed")

(* ScheduleRetry without a limit on the attempts. *)
ScheduleRetry_Unlimited(w, err) ==
    /\ err.failed /\ ~IsCanceled(err) /\ ~forced /\ IsRetryable(err)
    /\ stats' = [stats EXCEPT ![CoreOf[w]].retryAttempts = @ + 1]
    /\ pc' = [pc EXCEPT ![w] = "backoff"]
    /\ UNCHANGED <<job, attempt, settled>>

(* The retry is counted before the wait for it begins. *)
ScheduleRetry(w, err) ==
    /\ err.failed
    /\ ~IsCanceled(err) /\ ~forced
    /\ IsRetryable(err) /\ attempt[w] # RetryAttempts
    /\ stats' = [stats EXCEPT ![CoreOf[w]].retryAttempts = @ + 1]
    /\ pc' = [pc EXCEPT ![w] = "backoff"]
    /\ UNCHANGED <<job, attempt, settled>>

AfterPost(w, err) ==
    /\ \/ Succeed(w, err) \/ GiveUpCanceled(w, err)
       \/ GiveUp(w, err) \/ ScheduleRetry(w, err)
    /\ UNCHANGED <<phase, forced, prod, batch, queue>>

(* The exchange ends by itself: a response or a transport error. *)
PostEnds(w) ==
    /\ pc[w] = "post"
    /\ \E x \in Answers : AfterPost(w, PostBatch(x))

(* The context ends the exchange, in Do or while the body is read.            *)
ContextEnds(how) ==
    { [do |-> how, status |-> 0, read |-> "whole", json |-> "zero", fits |-> TRUE],
      [do |-> "answered", status |-> 200, read |-> how, json |-> "zero", fits |-> TRUE] }

RequestTimeout(w) ==
    /\ pc[w] = "post"
    /\ \E x \in ContextEnds("deadline") : AfterPost(w, PostBatch(x))

RequestCanceled(w) ==
    /\ pc[w] \in {"post", "doomed"}
    /\ forced
    /\ \E x \in ContextEnds("canceled") : AfterPost(w, PostBatch(x))

(* retry.Wait: the timer fires and the loop goes round, ... *)
BackoffElapsed(w) ==
    /\ pc[w] = "backoff"
    /\ attempt' = [attempt EXCEPT ![w] = @ + 1]
    /\ StartRequest(w)
    /\ UNCHANGED <<phase, forced, prod, batch, queue, job, stats, settled>>

(* ... or the context is done and the batch is given up. *)
BackoffCanceled(w) ==
    /\ pc[w] = "backoff"
    /\ forced
    /\ Release(w, "canceled")
    /\ UNCHANGED <<phase, forced, prod, batch, queue, stats>>

(* SleepElapsed that ends the worker. *)
SleepElapsed_Returns(w) ==
    /\ pc[w] = "sleep"
    /\ pc' = [pc EXCEPT ![w] = "returned"]
    /\ UNCHANGED <<phase, forced, prod, batch, queue, job, attempt, stats, settled>>

(* The pause after a batch. *)
SleepElapsed(w) ==
    /\ pc[w] = "sleep"
    /\ pc' = [pc EXCEPT ![w] = "receive"]
    /\ UNCHANGED <<phase, forced, prod, batch, queue, job, attempt, stats, settled>>

SleepCanceled(w) ==
    /\ pc[w] = "sleep"
    /\ forced
    /\ pc' = [pc EXCEPT ![w] = "returned"]
    /\ UNCHANGED <<phase, forced, prod, batch, queue, job, attempt, stats, settled>>

(* The steps of a worker that wait for nobody but itself and its context. *)
WorkAlone(w) ==
    \/ ReceiveJob(w) \/ ReturnIdle(w)
    \/ RequestTimeout(w) \/ RequestCanceled(w)
    \/ BackoffElapsed(w) \/ BackoffCanceled(w)
    \/ SleepElapsed(w) \/ SleepCanceled(w)

Work(w) == WorkAlone(w) \/ PostEnds(w)

-----------------------------------------------------------------------------
(* Run. *)

(* The signal arrives: stopProducers. *)
Shutdown ==
    /\ phase = "running"
    /\ phase' = "stopping"
    /\ UNCHANGED <<forced, prod, batch, queue, pc, job, attempt, stats, settled>>

(* ProducersJoined after the first producer. *)
ProducersJoined_First ==
    /\ phase = "stopping"
    /\ \E c \in Cores : prod[c] = "returned"
    /\ phase' = "draining"
    /\ UNCHANGED <<forced, prod, batch, queue, pc, job, attempt, stats, settled>>

(* producersWG.Wait returns and the shutdown timer starts. *)
ProducersJoined ==
    /\ phase = "stopping"
    /\ \A c \in Cores : prod[c] = "returned"
    /\ phase' = "draining"
    /\ UNCHANGED <<forced, prod, batch, queue, pc, job, attempt, stats, settled>>

(* The timer fires first: forceCancel. *)
ShutdownTimeout ==
    /\ phase = "draining"
    /\ phase' = "forcing"
    /\ forced' = TRUE
    /\ UNCHANGED <<prod, batch, queue, pc, job, attempt, stats, settled>>

(* Finish without the second wait for workersDone. *)
Finish_NoSecondWait ==
    /\ \/ phase = "draining" /\ \A w \in Workers : pc[w] = "returned"
       \/ phase = "forcing"
    /\ phase' = "finished"
    /\ UNCHANGED <<forced, prod, batch, queue, pc, job, attempt, stats, settled>>

(* workersDone is closed; the final totals are logged and Run returns. *)
Finish ==
    /\ phase \in {"draining", "forcing"}
    /\ \A w \in Workers : pc[w] = "returned"
    /\ phase' = "finished"
    /\ UNCHANGED <<forced, prod, batch, queue, pc, job, attempt, stats, settled>>

Coordinate == ProducersJoined \/ ShutdownTimeout \/ Finish

-----------------------------------------------------------------------------
Next ==
    \/ \E c \in Cores : Produce(c)
    \/ \E w \in Workers : Work(w)
    \/ Shutdown
    \/ Coordinate

(* The Go scheduler runs every goroutine that can run, a timer that is set    *)
(* fires, and a context that is done ends the request made under it.  Nothing *)
(* makes Solr answer, and nothing makes the user stop the seeder.             *)
Fairness ==
    /\ \A c \in Cores : WF_vars(Produce(c))
    /\ \A w \in Workers : WF_vars(WorkAlone(w))
    /\ WF_vars(Coordinate)

Spec     == Init /\ [][Next]_vars
FairSpec == Spec /\ Fairness

-----------------------------------------------------------------------------
TypeOK ==
    /\ phase \in Phase
    /\ forced \in BOOLEAN
    /\ prod \in [Cores -> ProdPc]
    /\ batch \in [Cores -> DocSet]
    /\ queue \in [Cores -> Seq(DocSet)]
    /\ pc \in [Workers -> WorkerPc]
    /\ job \in [Workers -> DocSet]
    /\ attempt \in [Workers -> 0..RetryAttempts]
    /\ stats \in [Cores -> CoreSnapshot]
    /\ settled \in [Cores -> [Outcome -> DocSet]]

(* Where the documents of core c are: DocsIn a family of sets of documents,   *)
(* the channel's batches, the workers' jobs or the outcomes.                  *)
DocsIn(f) == UNION {f[x] : x \in DOMAIN f}
PairwiseDisjoint(f) == \A x, y \in DOMAIN f : x # y => f[x] \cap f[y] = {}

JobsOf(c)  == [w \in WorkersOf(c) |-> job[w]]
Queued(c)  == DocsIn(queue[c])
Sending(c) == DocsIn(JobsOf(c))
Settled(c) == DocsIn(settled[c])
Taken(c)   == Sending(c) \cup (UNION {settled[c][o] : o \in Outcome \ {"dropped"}})

Accounted(c) ==
    /\ batch[c] \cup Queued(c) \cup Sending(c) \cup Settled(c) = 1..stats[c].generatedDocs
    /\ batch[c] \cap (Queued(c) \cup Sending(c) \cup Settled(c)) = {}
    /\ Queued(c) \cap (Sending(c) \cup Settled(c)) = {}
    /\ Sending(c) \cap Settled(c) = {}
    /\ PairwiseDisjoint(queue[c])
    /\ PairwiseDisjoint(JobsOf(c))
    /\ PairwiseDisjoint(settled[c])

(* No document is lost and none is processed twice: each document a core has  *)
(* generated is in exactly one place (its producer's batch, one batch of the  *)
(* channel, the hands of one worker, or one final outcome), through every     *)
(* interleaving of flush, drop, drain, retry and cancellation                 *)
(* (worker.go:20-63, worker.go:86-125).                                       *)
DocsAccounted == \A c \in Cores : Accounted(c)

(* Every document of D was generated before every document of E. *)
Before(D, E) == \A d \in D, e \in E : d < e

Ordered(c) ==
    /\ Before(Taken(c), Queued(c))
    /\ Before(Taken(c) \cup Queued(c), batch[c] \cup settled[c]["dropped"])
    /\ \A i, j \in DOMAIN queue[c] : i < j => Before(queue[c][i], queue[c][j])
    /\ \A i \in DOMAIN queue[c] :
          \/ Cardinality(queue[c][i]) = BatchSize
          \/ i = Len(queue[c]) /\ Closed(c) /\ queue[c][i] # {}

(* A core's documents are taken in the order they were generated, whichever   *)
(* worker takes them; what the shutdown drops is the newest batch, never one  *)
(* that an earlier batch still waits behind; and only the last batch that     *)
(* ever enters the channel may be short (worker.go:28-37, worker.go:48-61).   *)
OldestFirst == \A c \in Cores : Ordered(c)

(* How many batches n documents came in, of which at most one was short. *)
Batches(n) == (n + BatchSize - 1) \div BatchSize

(* The counters tell what happened: requests and terminal failures count      *)
(* batches, successful documents count documents, at most one batch per core  *)
(* is dropped, a canceled batch counts as neither success nor failure, and    *)
(* no batch is retried more than RetryAttempts - 1 times (stats.go:27-46,     *)
(* worker.go:34-36, worker.go:141-233).                                       *)
StatsExact ==
    \A c \in Cores :
        LET s    == stats[c]
            docs == [o \in Outcome |-> Cardinality(settled[c][o])]
        IN  /\ s.successfulDocs = docs["sent"]
            /\ s.successfulRequests = Batches(docs["sent"])
            /\ s.terminalFailures = Batches(docs["failed"])
            /\ s.droppedBatches = Batches(docs["dropped"])
            /\ s.droppedBatches <= 1
            /\ s.retryAttempts <= (RetryAttempts - 1) * Batches(Cardinality(Taken(c)))

(* What the final totals mean: once Run has returned, nothing is in flight    *)
(* and, unless the shutdown timeout struck, the channels are empty and every  *)
(* generated document was sent, has failed, or was in the one batch dropped   *)
(* (runner.go:152-168).                                                       *)
CleanExit ==
    phase = "finished" =>
        \A c \in Cores :
            LET docs == [o \in Outcome |-> Cardinality(settled[c][o])]
            IN  /\ batch[c] = {} /\ Sending(c) = {}
                /\ ~forced => /\ queue[c] = <<>>
                              /\ docs["canceled"] = 0
                              /\ stats[c].generatedDocs = stats[c].successfulDocs
                                                          + docs["failed"] + docs["dropped"]

(* The totals logged on the way out are final: no goroutine that is left      *)
(* still counts (runner.go:162-168).                                          *)
FinalTotalsStable == [][phase = "finished" => UNCHANGED <<stats, settled, queue>>]_vars

(* The documents a worker of core c has out in a request. *)
OnWire(c) == UNION {job[w] : w \in {v \in WorkersOf(c) : pc[v] = "post"}}

(* What was not out in a request when forceCancel was called is never counted *)
(* as sent: not the batches a worker still takes from the channel, not the    *)
(* one whose backoff ends, not the one whose request fails and could be tried *)
(* again.  What can still be sent only becomes less (worker.go:103-113,       *)
(* worker.go:141-168, backoff.go:36-41).                                      *)
OnlyInFlightIsSent ==
    [][forced => \A c \in Cores :
          settled'[c]["sent"] \cup OnWire(c)' \subseteq settled[c]["sent"] \cup OnWire(c)]_vars

(* After the signal Run returns, even if Solr never answers, the channels are *)
(* full and workers are in the middle of a backoff (runner.go:133-172).       *)
ShutdownCompletes == (phase = "stopping") ~> (phase = "finished")

(* A batch in the channel is taken by a worker, whatever becomes of the       *)
(* batches before it, unless the workers are canceled (worker.go:102-124).    *)
QueuedIsTaken ==
    \A c \in Cores : \A d \in 1..MaxDocs : d \in Queued(c) ~> (d \in Taken(c) \/ forced)
=============================================================================
