-------------------------- MODULE MCSeederPipeline --------------------------
(* Small instances of the pipeline for TLC. *)
EXTENDS SeederPipelineLedger

CONSTANTS movies, w1

OneCore   == {movies}
OneWorker == {w1}
AllMovies == [w \in Workers |-> movies]

(* A success, an overload, a refusal and a broken connection. *)
Response(code) == [do |-> "answered", status |-> code, read |-> "whole",
                   json |-> "zero", fits |-> TRUE]
Disconnect     == [do |-> "network", status |-> 0, read |-> "whole",
                   json |-> "zero", fits |-> TRUE]
SolrAnswers    == {Response(200), Response(503), Response(400), Disconnect}
=============================================================================
