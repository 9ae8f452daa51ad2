-------------------------- MODULE MCSeederProgress --------------------------
(* A small instance of the pipeline with its progress log for TLC. *)
EXTENDS SeederProgress

CONSTANTS movies, books, w1, w2

TwoCores   == {movies, books}
TwoWorkers == {w1, w2}
OneEach    == [w \in Workers |-> IF w = w1 THEN movies ELSE books]
FewBooks(n) == [c \in Cores |-> IF c = movies THEN MaxDocs ELSE n]
TwoBooks == FewBooks(2)
MoviesThenBooks == <<movies, books>>

(* A success and a refusal. *)
Response(code) == [do |-> "answered", status |-> code, read |-> "whole",
                   json |-> "zero", fits |-> TRUE]
SolrAnswers    == {Response(200), Response(400)}
=============================================================================
