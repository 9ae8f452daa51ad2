--------------------------- MODULE SolrClientCheck ---------------------------
(* One client that posts batch after batch: each call of PostBatch meets an   *)
(* arbitrary exchange, and the caller classifies the error it gets back as    *)
(* sendWithRetry does.                                                        *)
EXTENDS SolrClient

CONSTANT Exchanges      \* the exchanges that may happen

ASSUME ExchangesAssumption == Exchanges \subseteq Exchange

VARIABLES calling,      \* is a call under way?
          exchange,     \* the exchange of the last call
          err           \* the error the last call returned
clientVars == <<calling, exchange, err>>

NoExchange == [do |-> "network", status |-> 0, read |-> "whole", json |-> "zero", fits |-> TRUE]

ClientInit == calling = TRUE /\ exchange = NoExchange /\ err = NoError

(* PostBatch runs to its end. *)
Post(x) == /\ calling
           /\ calling' = FALSE
           /\ exchange' = x
           /\ err' = PostBatch(x)

(* The worker has looked at the error; the next call starts. *)
NextCall == /\ ~calling
            /\ calling' = TRUE
            /\ exchange' = NoExchange
            /\ err' = NoError

ClientNext == (\E x \in Exchanges : Post(x)) \/ NextCall

ClientSpec == ClientInit /\ [][ClientNext]_clientVars

-----------------------------------------------------------------------------
Answered == ~calling /\ exchange.do = "answered" /\ exchange.read = "whole"

(* A batch counts as sent exactly when a whole 2xx response arrived whose     *)
(* document decodes and reports no Solr error: no failure of the transport,   *)
(* of the read or of Solr itself is taken for success (client.go:113-156).    *)
SuccessExact ==
    ~calling => ( ~err.failed <=>
        /\ Answered
        /\ exchange.status \div 100 = 2
        /\ exchange.fits
        /\ exchange.json \in {"zero", "absent"} )

(* The worker retries only what may go better the next time: a transport      *)
(* error that is not a cancellation, or a response that names an overload, a  *)
(* timeout or a server error.  A batch that Solr refused, or whose fate the   *)
(* client has read in full, is never posted again (client.go:113-166).        *)
RetryExact ==
    ~calling => ( IsRetryable(err) <=>
        \/ exchange.do \in {"deadline", "network"}
        \/ Answered /\ (exchange.status \in {408, 429} \/ exchange.status \div 100 > 4) )

(* The three views of one error agree: the metric outcome "canceled", the     *)
(* failure type "canceled" and the worker's own cancellation test hold of the *)
(* same errors, none of which is retried, and no such error is also counted   *)
(* as a terminal failure under another name (client.go:66-93, worker.go:168,  *)
(* worker.go:248-256).                                                        *)
LabelsAgree ==
    err.failed =>
        /\ (requestOutcome(err) = "canceled") <=> (FailureType(err) = "canceled")
        /\ IsCanceled(err) => ~IsRetryable(err)
        /\ IsRetryable(err) => FailureType(err) \in {"timeout", "network", "http_4xx", "http_5xx"}
        /\ FailureType(err) = "http_4xx" /\ IsRetryable(err) => err.StatusCode \in {408, 429}
=============================================================================
