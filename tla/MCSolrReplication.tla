------------------------- MODULE MCSolrReplication -------------------------
(* A small instance of the leader, a follower and the scripts for TLC. *)
EXTENDS SolrReplication

CONSTANTS master, slave1, movies, books

OneFollower     == {slave1}
MasterFirst     == <<master, slave1>>
MoviesThenBooks == <<movies, books>>
=============================================================================
