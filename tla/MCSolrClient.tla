---------------------------- MODULE MCSolrClient ----------------------------
(* Every exchange PostBatch can meet: all 1000 status codes, and, where no    *)
(* response arrived, one representative of the fields the code never reads.   *)
EXTENDS SolrClientCheck

MCExchanges ==
    [do : {"answered"}, status : 0..999, read : {"whole"}, json : Json, fits : BOOLEAN]
    \cup [do : {"answered"}, status : 0..999, read : ReadOutcome \ {"whole"},
          json : {"zero"}, fits : {TRUE}]
    \cup [do : DoOutcome \ {"answered"}, status : {0}, read : {"whole"},
          json : {"zero"}, fits : {TRUE}]

=============================================================================
