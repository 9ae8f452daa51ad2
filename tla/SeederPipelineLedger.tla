------------------------ MODULE SeederPipelineLedger ------------------------
(* The pipeline implements the document ledger: the stage of a document is    *)
(* where the pipeline holds it.                                               *)
EXTENDS SeederPipeline

StageOf(c, d) ==
    CASE d > stats[c].generatedDocs    -> "none"
      [] d \in batch[c]                -> "batched"
      [] \E i \in DOMAIN queue[c] : d \in queue[c][i]         -> "queued"
      [] \E w \in Workers : CoreOf[w] = c /\ d \in job[w]     -> "sending"
      [] OTHER -> CHOOSE o \in Outcome : d \in settled[c][o]

Ledger == INSTANCE DocumentLedger
            WITH stage <- [c \in Cores |-> [d \in 1..MaxDocs |-> StageOf(c, d)]]

(* Every step of the pipeline is a step of the ledger or leaves it alone:     *)
(* whatever the interleaving, a document moves forward only, is dropped only  *)
(* while the producers stop, is canceled only after the shutdown timeout, and *)
(* a run that drained cleanly leaves none behind (runner.go:133-172,          *)
(* worker.go:20-63, worker.go:127-235).                                       *)
ImplementsLedger == Ledger!Spec
=============================================================================
