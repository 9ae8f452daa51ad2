----------------------------- MODULE MCCoreInit -----------------------------
(* A small instance of the container's start for TLC. *)
EXTENDS CoreInit

CONSTANTS movies, books

TwoCores        == {movies, books}
MoviesThenBooks == <<movies, books>>

(* The second build has lost a file of the first. *)
TwoImages == {"v1", "v2"}
FewerFiles == [v \in TwoImages |-> IF v = "v1" THEN {"solrconfig", "schema"} ELSE {"solrconfig"}]
=============================================================================
