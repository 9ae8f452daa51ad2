-------------------------- MODULE MCSeederTelemetry --------------------------
(* Small instances of the pipeline with telemetry for TLC. *)
EXTENDS SeederTelemetry, SeederPipelineLedger, TLC

CONSTANTS movies, books, w1, w2

OneCore    == {movies}
OneWorker  == {w1}
TwoWorkers == {w1, w2}
AllMovies  == [w \in Workers |-> movies]

(* A success, an overload and a refusal. *)
Response(code) == [do |-> "answered", status |-> code, read |-> "whole",
                   json |-> "zero", fits |-> TRUE]
SolrAnswers    == {Response(200), Response(503), Response(400)}

WorkerSymmetry == Permutations(TwoWorkers)
=============================================================================
