----------------------------- MODULE SolrClient -----------------------------
(* The Solr HTTP client of the seeder (app/internal/seeder/solr/client.go):   *)
(* what PostBatch makes of one HTTP exchange, and how its callers classify    *)
(* the error it returns.                                                      *)
EXTENDS Integers

-----------------------------------------------------------------------------
(* An exchange is everything PostBatch can observe of one request, in the     *)
(* order it observes it.  The later fields matter only when the earlier ones  *)
(* let the code reach them.                                                   *)
(*  - do: how far httpClient.Do got.  "marshal" and "build" stand for a       *)
(*    request that could not be made, "canceled" and "deadline" for the two   *)
(*    ways the context ends it, "network" for every other transport error.    *)
(*  - status: the three digits of the status line.                            *)
(*  - read: reading the first 4096 bytes of the body.                         *)
(*  - json: what those bytes are once decoded; "absent" is a document without *)
(*    a response header, whose status then is Go's zero value.                *)
(*  - fits: the document ends within the first 4096 bytes.                    *)
DoOutcome   == {"answered", "marshal", "build", "canceled", "deadline", "network"}
ReadOutcome == {"whole", "canceled", "deadline", "broken"}
Json        == {"zero", "nonzero", "absent", "malformed"}
Exchange    == [do : DoOutcome, status : 0..999, read : ReadOutcome,
                json : Json, fits : BOOLEAN]

(* ClientError; Err keeps what errors.Is can find in the wrapped chain.  A    *)
(* nil error is the record with failed = FALSE.                               *)
Cause == {"none", "canceled", "deadline", "other"}
Error == [failed : BOOLEAN, StatusCode : 0..999, Retryable : BOOLEAN, Err : Cause]

NoError == [failed |-> FALSE, StatusCode |-> 0, Retryable |-> FALSE, Err |-> "none"]
ClientError(code, retryable, cause) ==
    [failed |-> TRUE, StatusCode |-> code, Retryable |-> retryable, Err |-> cause]

-----------------------------------------------------------------------------
(* Forms of the definitions below with a plausible bug; the runs that check a *)
(* property against them name them.                                           *)
retryableStatus_NoOverload(code) == code = 408 \/ code >= 500
Decodes_NoLimit(x) == x.json # "malformed"
DoError_CanceledRetried(x) ==
    IF x.do \in {"marshal", "build"} THEN ClientError(0, FALSE, "other")
    ELSE ClientError(0, TRUE, IF x.do = "network" THEN "other" ELSE x.do)
retryableStatus(code) == code \in {408, 429} \/ code >= 500

(* A body longer than the read limit is cut, and a cut document no longer     *)
(* decodes.                                                                   *)
Decodes(x) == x.fits /\ x.json # "malformed"

(* The error of a transport that gave no response. *)
DoError(x) ==
    CASE x.do \in {"marshal", "build"} -> ClientError(0, FALSE, "other")
      [] x.do = "canceled"             -> ClientError(0, FALSE, "canceled")
      [] x.do = "deadline"             -> ClientError(0, TRUE, "deadline")
      [] OTHER                         -> ClientError(0, TRUE, "other")

(* The error of a response whose body could not be read: the status is kept,  *)
(* the failure is final.                                                      *)
ReadError(x) ==
    ClientError(x.status, FALSE, IF x.read = "broken" THEN "other" ELSE x.read)

PostBatch(x) ==
    CASE x.do # "answered" -> DoError(x)
      [] x.do = "answered" /\ x.read # "whole" -> ReadError(x)
      [] x.do = "answered" /\ x.read = "whole" /\ x.status \notin 200..299 ->
            ClientError(x.status, retryableStatus(x.status), "none")
      [] x.do = "answered" /\ x.read = "whole" /\ x.status \in 200..299
            /\ (~Decodes(x) \/ x.json = "nonzero") ->
            ClientError(x.status, FALSE, "other")
      [] OTHER -> NoError

-----------------------------------------------------------------------------
(* What the callers of PostBatch ask of its error. *)
IsRetryable(err) == err.failed /\ err.Retryable

IsCanceled(err) == err.failed /\ err.Err = "canceled"

FailureType(err) ==
    CASE ~err.failed            -> "unknown"
      [] IsCanceled(err)        -> "canceled"
      [] err.failed /\ err.Err = "deadline" -> "timeout"
      [] err.failed /\ err.Err \in {"none", "other"} /\ err.StatusCode \in 400..499 -> "http_4xx"
      [] err.failed /\ err.Err \in {"none", "other"} /\ err.StatusCode >= 500 -> "http_5xx"
      [] err.failed /\ err.Err = "other" /\ err.StatusCode < 400 -> "network"
      [] OTHER                  -> "client"

(* requestOutcome that takes a timeout for a cancellation. *)
requestOutcome_AnyContext(err) ==
    CASE ~err.failed -> "success"
      [] err.failed /\ err.Err \in {"canceled", "deadline"} -> "canceled"
      [] OTHER       -> "error"

(* The outcome label of the request-duration histogram (runner/worker.go). *)
requestOutcome(err) ==
    CASE ~err.failed     -> "success"
      [] IsCanceled(err) -> "canceled"
      [] OTHER           -> "error"
=============================================================================
