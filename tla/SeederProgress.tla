--------------------------- MODULE SeederProgress ---------------------------
(* The pipeline and what is logged of it: logProgress reads the counters of   *)
(* one core after the other while the workers count, and the tail of Run      *)
(* stops the logger, waits for it and logs the final totals.  The Loads of a  *)
(* Snapshot are steps, and so are the two Adds of IncSuccessfulRequest; the   *)
(* other counts are the one Add they are in SeederPipeline.                   *)
EXTENDS SeederPipeline, SequencesExt

CONSTANTS
    Order,      \* the cores in the order they are logged
    DocsOf,     \* bound of the model: how many documents of a core are generated
    MaxTicks    \* bound of the model: how often the ticker fires

ASSUME OrderAssumption ==
    /\ Order \in Seq(Cores)
    /\ \A c \in Cores : \E i \in DOMAIN Order : Order[i] = c
    /\ DocsOf \in [Cores -> 0..MaxDocs]
    /\ MaxTicks \in Nat

VARIABLES
    owed,       \* the documents each worker has still to add to successfulDocs
    logging,    \* logCtx is not done
    ticks,      \* how often the ticker fired
    logger,     \* the core logProgress reads, as a position in Order, or Select or Returned
    line,       \* the values loaded for that core so far
    shown       \* history: the last line of each core

progVars == <<owed, logging, ticks, logger, line, shown>>
allVars  == <<phase, forced, prod, batch, queue, pc, job, attempt, stats, settled,
              owed, logging, ticks, logger, line, shown>>

Select   == 0
Returned == Len(Order) + 1
Reading  == logger \in DOMAIN Order

Counter == {"generatedDocs", "successfulRequests", "successfulDocs", "retryAttempts",
            "terminalFailures", "droppedBatches"}
Field   == Counter \cup {"queueDepth"}

(* Snapshot that loads the documents before the requests. *)
Loads_DocsFirst == <<"generatedDocs", "successfulDocs", "successfulRequests">>

(* The counters Snapshot loads one by one; the others, and len(channel), are  *)
(* read after them in one step, because nothing relates them to each other.   *)
Loads == <<"generatedDocs", "successfulRequests", "successfulDocs">>

(* What a Load of field f finds. *)
Visible(c, f) ==
    CASE f = "queueDepth" -> Len(queue[c])
      [] f = "successfulDocs" ->
           stats[c].successfulDocs - FoldFunctionOnSet(+, 0, owed, WorkersOf(c))
      [] OTHER -> stats[c][f]

ProgInit ==
    /\ Init
    /\ owed = [w \in Workers |-> 0]
    /\ logging = TRUE
    /\ ticks = 0
    /\ logger = Select
    /\ line = <<>>
    /\ shown = [c \in Cores |-> [f \in Field |-> 0]]

-----------------------------------------------------------------------------
ProgProduce(c) ==
    /\ prod[c] = "select" /\ stats[c].generatedDocs = DocsOf[c] => Stopped
    /\ Produce(c)
    /\ UNCHANGED progVars

(* IncSuccessfulRequest adds to successfulDocs in a second step, before its   *)
(* worker goes on.                                                            *)
ProgWork(w) ==
    /\ owed[w] = 0
    /\ Work(w)
    /\ owed' = [owed EXCEPT ![w] =
                  stats'[CoreOf[w]].successfulDocs - stats[CoreOf[w]].successfulDocs]
    /\ UNCHANGED <<logging, ticks, logger, line, shown>>

AddDocs(w) ==
    /\ owed[w] # 0
    /\ owed' = [owed EXCEPT ![w] = 0]
    /\ UNCHANGED <<vars, logging, ticks, logger, line, shown>>

(* The select may take a tick although logCtx is done. *)
Tick ==
    /\ logger = Select
    /\ ticks < MaxTicks
    /\ ticks' = ticks + 1
    /\ logger' = 1
    /\ UNCHANGED <<vars, owed, logging, line, shown>>

LoadNext ==
    /\ Reading
    /\ Len(line) < Len(Loads)
    /\ line' = Append(line, Visible(Order[logger], Loads[Len(line) + 1]))
    /\ UNCHANGED <<vars, owed, logging, ticks, logger, shown>>

(* The rest of Snapshot, logCoreSnapshot, and on to the next core or back to  *)
(* the select.                                                                *)
LogLine ==
    /\ Reading
    /\ Len(line) = Len(Loads)
    /\ LET c == Order[logger]
           Loaded(f) == line[CHOOSE i \in DOMAIN Loads : Loads[i] = f]
       IN  shown' = [shown EXCEPT ![c] =
                       [f \in Field |-> IF f \in ToSet(Loads) THEN Loaded(f) ELSE Visible(c, f)]]
    /\ line' = <<>>
    /\ logger' = IF logger < Len(Order) THEN logger + 1 ELSE Select
    /\ UNCHANGED <<vars, owed, logging, ticks>>

LoggerReturns ==
    /\ logger = Select
    /\ ~logging
    /\ logger' = Returned
    /\ UNCHANGED <<vars, owed, logging, ticks, line, shown>>

LogProgress == Tick \/ LoadNext \/ LogLine \/ LoggerReturns

(* Run up to the wait for the workers: once they are done, the timer of the   *)
(* shutdown is not looked at any more.                                        *)
ProgCoordinate ==
    /\ logging
    /\ Shutdown \/ ProducersJoined \/ ShutdownTimeout
    /\ UNCHANGED progVars

StopLogs ==
    /\ logging
    /\ phase \in {"draining", "forcing"}
    /\ \A w \in Workers : pc[w] = "returned"
    /\ logging' = FALSE
    /\ UNCHANGED <<vars, owed, ticks, logger, line, shown>>

LogAll == shown' = [c \in Cores |-> [f \in Field |-> Visible(c, f)]]

(* LogFinalTotals that does not wait for the logger. *)
LogFinalTotals_NoWait ==
    /\ phase \in {"draining", "forcing"} /\ ~logging
    /\ phase' = "finished"
    /\ LogAll
    /\ UNCHANGED <<forced, prod, batch, queue, pc, job, attempt, stats, settled,
                   owed, logging, ticks, logger, line>>

(* progressWG.Wait returns; nobody else runs while the totals are read.       *)
LogFinalTotals ==
    /\ phase \in {"draining", "forcing"}
    /\ ~logging /\ logger = Returned
    /\ phase' = "finished"
    /\ LogAll
    /\ UNCHANGED <<forced, prod, batch, queue, pc, job, attempt, stats, settled,
                   owed, logging, ticks, logger, line>>

ProgNext ==
    \/ \E c \in Cores : ProgProduce(c)
    \/ \E w \in Workers : ProgWork(w) \/ AddDocs(w)
    \/ LogProgress
    \/ ProgCoordinate \/ StopLogs \/ LogFinalTotals

ProgSpec == ProgInit /\ [][ProgNext]_allVars

-----------------------------------------------------------------------------
(* The lines of a core, the final totals among them, never go back: no        *)
(* counter falls, and what one line counts as sent the next one counts as     *)
(* generated, although its own line may not (runner.go:164-168,               *)
(* stats.go:48-57).                                                           *)
LinesNeverGoBack ==
    [][\A c \in Cores : LET old == shown[c]  new == shown'[c]
                        IN  /\ \A f \in Counter : old[f] <= new[f]
                            /\ old # new => old.successfulDocs <= new.generatedDocs]_allVars

(* A line is torn by no more than what the workers are counting at that       *)
(* moment: it never shows more requests than its documents came in, apart     *)
(* from one for each worker of the core (stats.go:31-34, 48-57).              *)
TornByWorkersOnly ==
    \A c \in Cores :
        shown[c].successfulRequests
            <= Batches(shown[c].successfulDocs) + Cardinality(WorkersOf(c))

(* The last thing Run says of each core is the truth: once it has returned,   *)
(* the last line shows the counters as they are and, unless the shutdown was  *)
(* forced, an empty queue and as many requests as the documents came in       *)
(* (runner.go:152-168).                                                       *)
FinalLineTrue ==
    phase = "finished" =>
        \A c \in Cores :
            /\ \A f \in Counter : shown[c][f] = stats[c][f]
            /\ shown[c].successfulRequests = Batches(shown[c].successfulDocs)
            /\ ~forced => shown[c].queueDepth = 0
=============================================================================
