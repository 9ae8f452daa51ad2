--------------------------- MODULE SendRetryProofs ---------------------------
(* The theorems about what sendWithRetry rests on: the client that posts a    *)
(* batch and classifies what comes back, for any set of exchanges; the        *)
(* configuration that Load accepts, for any environment and any arguments;    *)
(* and the backoff between the attempts, for any width of the integers.       *)
EXTENDS SolrClientCheck, RetryBackoff, SequenceTheorems, WellFoundedInduction, TLAPS

-----------------------------------------------------------------------------
(* The client. *)

(* The error the caller holds is the one PostBatch made of the exchange. *)
ClientInv ==
    /\ calling \in BOOLEAN
    /\ exchange \in Exchange
    /\ err = IF calling THEN NoError ELSE PostBatch(exchange)

LEMMA ClientInduction == ClientSpec => []ClientInv
<1>1. NoExchange \in Exchange
  BY DEF NoExchange, Exchange, DoOutcome, ReadOutcome, Json
<1>2. ClientInit => ClientInv
  BY <1>1 DEF ClientInit, ClientInv
<1>3. ClientInv /\ [ClientNext]_clientVars => ClientInv'
  <2> SUFFICES ASSUME ClientInv, [ClientNext]_clientVars PROVE ClientInv'
    OBVIOUS
  <2>1. ASSUME NEW x \in Exchanges, Post(x) PROVE ClientInv'
    BY <2>1, ExchangesAssumption DEF Post, ClientInv
  <2>2. CASE NextCall
    BY <1>1, <2>2 DEF NextCall, ClientInv
  <2>3. CASE UNCHANGED clientVars
    BY <2>3 DEF clientVars, ClientInv
  <2> QED
    BY <2>1, <2>2, <2>3 DEF ClientNext
<1> QED
  BY <1>2, <1>3, PTL DEF ClientSpec

(* The three classes of status codes the client distinguishes by division. *)
LEMMA StatusClasses ==
    ASSUME NEW code \in 0..999
    PROVE  /\ code \div 100 = 2 <=> code \in 200..299
           /\ code \div 100 > 4 <=> code >= 500
OBVIOUS

(* What PostBatch returns, one case per way an exchange ends.                 *)
LEMMA DoFails ==
    ASSUME NEW x \in Exchange, x.do # "answered"
    PROVE  /\ PostBatch(x) = DoError(x)
           /\ PostBatch(x).failed /\ PostBatch(x).StatusCode = 0
           /\ PostBatch(x).Retryable <=> x.do \in {"deadline", "network"}
           /\ PostBatch(x).Err = IF x.do \in {"canceled", "deadline"} THEN x.do ELSE "other"
<1>1. PostBatch(x) = DoError(x)
  BY DEF PostBatch
<1>2. x.do \in {"marshal", "build", "canceled", "deadline", "network"}
  BY DEF Exchange, DoOutcome
<1> QED
  BY <1>1, <1>2 DEF DoError, ClientError

LEMMA ReadFails ==
    ASSUME NEW x \in Exchange, x.do = "answered", x.read # "whole"
    PROVE  PostBatch(x) = ReadError(x)
BY DEF PostBatch

LEMMA StatusFails ==
    ASSUME NEW x \in Exchange, x.do = "answered", x.read = "whole", x.status \notin 200..299
    PROVE  PostBatch(x) = ClientError(x.status, retryableStatus(x.status), "none")
BY DEF PostBatch

LEMMA DocumentFails ==
    ASSUME NEW x \in Exchange, x.do = "answered", x.read = "whole", x.status \in 200..299,
           ~Decodes(x) \/ x.json = "nonzero"
    PROVE  PostBatch(x) = ClientError(x.status, FALSE, "other")
BY DEF PostBatch

LEMMA NothingFails ==
    ASSUME NEW x \in Exchange, x.do = "answered", x.read = "whole", x.status \in 200..299,
           Decodes(x), x.json # "nonzero"
    PROVE  PostBatch(x) = NoError
BY DEF PostBatch

LEMMA SuccessOf ==
    ASSUME NEW x \in Exchange
    PROVE  ~PostBatch(x).failed <=> /\ x.do = "answered" /\ x.read = "whole"
                                    /\ x.status \div 100 = 2 /\ x.fits
                                    /\ x.json \in {"zero", "absent"}
<1>1. x.status \in 0..999 /\ x.json \in Json
  BY DEF Exchange
<1>2. CASE x.do # "answered"
  BY <1>2, DoFails
<1>3. CASE x.do = "answered" /\ x.read # "whole"
  BY <1>3, ReadFails DEF ReadError, ClientError
<1>4. CASE x.do = "answered" /\ x.read = "whole" /\ x.status \notin 200..299
  BY <1>1, <1>4, StatusFails, StatusClasses DEF ClientError
<1>5. CASE x.do = "answered" /\ x.read = "whole" /\ x.status \in 200..299
  <2>1. CASE ~Decodes(x) \/ x.json = "nonzero"
    BY <1>5, <2>1, DocumentFails DEF ClientError, Decodes
  <2>2. CASE Decodes(x) /\ x.json # "nonzero"
    BY <1>1, <1>5, <2>2, NothingFails, StatusClasses DEF NoError, Decodes, Json
  <2> QED
    BY <2>1, <2>2
<1> QED
  BY <1>2, <1>3, <1>4, <1>5

LEMMA RetryOf ==
    ASSUME NEW x \in Exchange
    PROVE  IsRetryable(PostBatch(x)) <=>
             \/ x.do \in {"deadline", "network"}
             \/ /\ x.do = "answered" /\ x.read = "whole"
                /\ x.status \in {408, 429} \/ x.status \div 100 > 4
<1>1. x.status \in 0..999
  BY DEF Exchange
<1>2. CASE x.do # "answered"
  <2>1. IsRetryable(PostBatch(x)) <=> x.do \in {"deadline", "network"}
    BY <1>2, DoFails DEF IsRetryable
  <2> QED
    BY <1>2, <2>1
<1>3. CASE x.do = "answered" /\ x.read # "whole"
  <2>1. ~IsRetryable(PostBatch(x))
    BY <1>3, ReadFails DEF ReadError, ClientError, IsRetryable
  <2> QED
    BY <1>3, <2>1
<1>4. CASE x.do = "answered" /\ x.read = "whole" /\ x.status \notin 200..299
  <2>1. IsRetryable(PostBatch(x)) <=> retryableStatus(x.status)
    BY <1>4, StatusFails DEF ClientError, IsRetryable
  <2> QED
    BY <1>1, <1>4, <2>1, StatusClasses DEF retryableStatus
<1>5. CASE x.do = "answered" /\ x.read = "whole" /\ x.status \in 200..299
  <2>1. ~IsRetryable(PostBatch(x))
    BY <1>5, DocumentFails, NothingFails DEF ClientError, NoError, IsRetryable
  <2> QED
    BY <1>1, <1>5, <2>1, StatusClasses
<1> QED
  BY <1>2, <1>3, <1>4, <1>5

(* The errors that are retried: none has been canceled, and none is a         *)
(* response below 400.                                                        *)
LEMMA RetriedError ==
    ASSUME NEW x \in Exchange, IsRetryable(PostBatch(x))
    PROVE  LET e == PostBatch(x) IN
           \/ e.Err = "deadline"
           \/ e.Err = "other" /\ e.StatusCode = 0
           \/ e.Err = "none" /\ e.StatusCode \in 0..999
              /\ (e.StatusCode \in {408, 429} \/ e.StatusCode >= 500)
<1>1. x.status \in 0..999
  BY DEF Exchange
<1>2. CASE x.do # "answered"
  <2>1. x.do \in {"deadline", "network"}
    BY <1>2, DoFails DEF IsRetryable
  <2>2. /\ PostBatch(x).StatusCode = 0
        /\ PostBatch(x).Err = IF x.do \in {"canceled", "deadline"} THEN x.do ELSE "other"
    BY <1>2, DoFails
  <2> QED
    BY <2>1, <2>2
<1>3. CASE x.do = "answered" /\ x.read # "whole"
  BY <1>3, ReadFails DEF ReadError, ClientError, IsRetryable
<1>4. CASE x.do = "answered" /\ x.read = "whole" /\ x.status \notin 200..299
  <2>1. PostBatch(x) = ClientError(x.status, retryableStatus(x.status), "none")
    BY <1>4, StatusFails
  <2>2. /\ PostBatch(x).Err = "none" /\ PostBatch(x).StatusCode = x.status
        /\ retryableStatus(x.status)
    BY <2>1 DEF ClientError, IsRetryable
  <2> QED
    BY <1>1, <2>2 DEF retryableStatus
<1>5. CASE x.do = "answered" /\ x.read = "whole" /\ x.status \in 200..299
  BY <1>5, DocumentFails, NothingFails DEF ClientError, NoError, IsRetryable
<1> QED
  BY <1>2, <1>3, <1>4, <1>5

LEMMA LabelsOf ==
    ASSUME NEW x \in Exchange, NEW e, e = PostBatch(x), e.failed
    PROVE  /\ (requestOutcome(e) = "canceled") <=> (FailureType(e) = "canceled")
           /\ IsCanceled(e) => ~IsRetryable(e)
           /\ IsRetryable(e) => FailureType(e) \in {"timeout", "network", "http_4xx", "http_5xx"}
           /\ FailureType(e) = "http_4xx" /\ IsRetryable(e) => e.StatusCode \in {408, 429}
<1>1. requestOutcome(e) = "canceled" <=> e.Err = "canceled"
  BY DEF requestOutcome, IsCanceled
<1>2. FailureType(e) = "canceled" <=> e.Err = "canceled"
  BY DEF FailureType, IsCanceled
<1>3. ASSUME IsRetryable(e)
      PROVE  /\ ~IsCanceled(e)
             /\ FailureType(e) \in {"timeout", "network", "http_4xx", "http_5xx"}
             /\ FailureType(e) = "http_4xx" => e.StatusCode \in {408, 429}
  <2>1. CASE e.Err = "deadline"
    BY <2>1 DEF FailureType, IsCanceled
  <2>2. CASE e.Err = "other" /\ e.StatusCode = 0
    BY <2>2 DEF FailureType, IsCanceled
  <2>3. CASE e.Err = "none" /\ e.StatusCode \in {408, 429}
    BY <2>3 DEF FailureType, IsCanceled
  <2>4. CASE e.Err = "none" /\ e.StatusCode \in 0..999 /\ e.StatusCode >= 500
    <3>1. e.StatusCode \notin 400..499
      BY <2>4
    <3> QED
      BY <2>4, <3>1 DEF FailureType, IsCanceled
  <2> QED
    BY <1>3, <2>1, <2>2, <2>3, <2>4, RetriedError
<1> QED
  BY <1>1, <1>2, <1>3

(* A batch counts as sent exactly for a whole 2xx response that decodes and   *)
(* reports no error (client.go:113-156).                                      *)
THEOREM SuccessIsExact == ClientSpec => []SuccessExact
<1>1. ClientInv => SuccessExact
  BY SuccessOf DEF ClientInv, SuccessExact, Answered
<1> QED
  BY <1>1, ClientInduction, PTL

(* Only a transport error that is no cancellation, and a response that names  *)
(* an overload, a timeout or a server error, is retried (client.go:113-166).  *)
THEOREM RetryIsExact == ClientSpec => []RetryExact
<1>1. ClientInv => RetryExact
  BY RetryOf DEF ClientInv, RetryExact, Answered
<1> QED
  BY <1>1, ClientInduction, PTL

(* The labels of one error agree (client.go:66-93, worker.go:248-256).        *)
THEOREM LabelsDoAgree == ClientSpec => []LabelsAgree
<1>1. ASSUME ClientInv PROVE LabelsAgree
  <2> SUFFICES ASSUME err.failed PROVE LabelsAgree
    BY DEF LabelsAgree
  <2>1. err = PostBatch(exchange) /\ exchange \in Exchange
    BY <1>1 DEF ClientInv, NoError
  <2> QED
    BY <2>1, LabelsOf DEF LabelsAgree
<1> QED
  BY <1>1, ClientInduction, PTL

-----------------------------------------------------------------------------
(* The configuration. *)

(* A configuration gives each setting a value of its kind.  That the texts in  *)
(* the code are strings is beyond the provers, and nothing depends on it.     *)
IsWord(v) == /\ v = [text |-> v.text, padded |-> v.padded, upper |-> v.upper]
             /\ v.padded \in BOOLEAN /\ v.upper \in BOOLEAN
HasValue(c, s) == IF s \in Words THEN IsWord(c[s]) ELSE c[s] \in Value(s)
IsConfig(c) == /\ c = [s \in Setting |-> c[s]]
               /\ \A s \in Setting : HasValue(c, s)

LEMMA Settings ==
    /\ Setting = {"SolrBaseURL", "MoviesCore", "BooksCore", "MovieWorkers", "BookWorkers",
                  "BatchSize", "WorkerSleep", "RequestTimeout", "ShutdownTimeout",
                  "ProgressInterval", "LogLevel", "RetryAttempts", "RetryInitialBackoff",
                  "RetryMaxBackoff", "RetryJitter", "TelemetryEnabled", "OTELServiceName",
                  "OTELExporterURL", "OTELTraceSampleRatio", "MetricsListenAddr"}
    /\ Numbers = {"MovieWorkers", "BookWorkers", "BatchSize", "WorkerSleep", "RequestTimeout",
                  "ShutdownTimeout", "ProgressInterval", "RetryAttempts",
                  "RetryInitialBackoff", "RetryMaxBackoff"}
<1>1. Setting = {"SolrBaseURL", "MoviesCore", "BooksCore", "MovieWorkers", "BookWorkers",
                  "BatchSize", "WorkerSleep", "RequestTimeout", "ShutdownTimeout",
                  "ProgressInterval", "LogLevel", "RetryAttempts", "RetryInitialBackoff",
                  "RetryMaxBackoff", "RetryJitter", "TelemetryEnabled", "OTELServiceName",
                  "OTELExporterURL", "OTELTraceSampleRatio", "MetricsListenAddr"}
  BY DEF Setting, Default
<1>2. Numbers = {"MovieWorkers", "BookWorkers", "BatchSize", "WorkerSleep", "RequestTimeout",
                  "ShutdownTimeout", "ProgressInterval", "RetryAttempts",
                  "RetryInitialBackoff", "RetryMaxBackoff"}
  BY <1>1 DEF Numbers, URLs, Words, Fractions, Switches
<1> QED
  BY <1>1, <1>2

LEMMA Values ==
    /\ \A s \in URLs : Value(s) = URL
    /\ \A s \in Words : Value(s) = Word
    /\ \A s \in Fractions : Value(s) = Fraction
    /\ \A s \in Switches : Value(s) = BOOLEAN
    /\ \A s \in Numbers : Value(s) = Int
<1>1. \A s \in URLs : Value(s) = URL
  BY DEF Value, Numbers, URLs, Words, Fractions, Switches
<1>2. \A s \in Words : Value(s) = Word
  BY DEF Value, Numbers, URLs, Words, Fractions, Switches
<1>3. \A s \in Fractions : Value(s) = Fraction
  BY DEF Value, Numbers, URLs, Words, Fractions, Switches
<1>4. \A s \in Switches : Value(s) = BOOLEAN
  BY DEF Value, Numbers, URLs, Words, Fractions, Switches
<1>5. \A s \in Numbers : Value(s) = Int
  BY DEF Value, Numbers
<1> QED
  BY <1>1, <1>2, <1>3, <1>4, <1>5

LEMMA DefaultIsConfig == IsConfig(Default)
<1>1. Default = [s \in Setting |-> Default[s]]
  BY DEF Setting, Default
<1>2. \A s \in URLs : Default[s] \in URL
  <2>1. Default["SolrBaseURL"] = Good /\ Default["OTELExporterURL"] = Good
    BY DEF Default
  <2>2. Good \in URL
    BY DEF Good, URL
  <2> QED
    BY <2>1, <2>2 DEF URLs
<1>3. \A s \in Words : IsWord(Default[s])
  <2>1. /\ Default["MoviesCore"] = Plain("movies") /\ Default["BooksCore"] = Plain("books")
        /\ Default["LogLevel"] = Plain("info")
        /\ Default["OTELServiceName"] = Plain("solr-seeder")
        /\ Default["MetricsListenAddr"] = Plain(":9464")
    BY DEF Default
  <2>2. \A t : IsWord(Plain(t))
    BY DEF Plain, IsWord
  <2> QED
    BY <2>1, <2>2 DEF Words
<1>4. \A s \in Fractions : Default[s] \in Fraction
  <2>1. /\ Default["RetryJitter"] = Parts(Scale \div 5)
        /\ Default["OTELTraceSampleRatio"] = Parts(Scale \div 10)
    BY DEF Default
  <2>2. \A n \in Int : Parts(n) \in Fraction
    BY DEF Parts, Fraction
  <2>3. Scale \div 5 \in Int /\ Scale \div 10 \in Int
    BY InputAssumption
  <2> QED
    BY <2>1, <2>2, <2>3 DEF Fractions
<1>5. \A s \in Switches : Default[s] \in BOOLEAN
  <2>1. Default["TelemetryEnabled"] = TRUE
    BY DEF Default
  <2> QED
    BY <2>1 DEF Switches
<1>6. \A s \in Numbers : Default[s] \in Int
  BY Settings DEF Default
<1>7. \A s \in Setting : s \in URLs \cup Words \cup Fractions \cup Switches \cup Numbers
  BY DEF Numbers
<1> QED
  BY <1>1, <1>2, <1>3, <1>4, <1>5, <1>6, <1>7, Values DEF IsConfig, HasValue

(* The fields of a normal form. *)
Cleaned(c, s) ==
    IF s = "SolrBaseURL" THEN [c[s] EXCEPT !.slashes = 0]
    ELSE IF s = "OTELExporterURL"
      THEN [c[s] EXCEPT !.padded = c[s].padded /\ ~c.TelemetryEnabled]
    ELSE IF s = "LogLevel" THEN [c[s] EXCEPT !.upper = FALSE]
    ELSE IF s \in Words THEN [c[s] EXCEPT !.padded = FALSE]
    ELSE c[s]

LEMMA NormalIs ==
    ASSUME NEW c, c = [s \in Setting |-> c[s]]
    PROVE  Normal(c) = [s \in Setting |-> Cleaned(c, s)]
<1> DEFINE d == Normal(c)
<1>1. d = [s \in Setting |-> d[s]]
  BY DEF Normal
<1>2. /\ d["SolrBaseURL"] = Cleaned(c, "SolrBaseURL")
      /\ d["OTELExporterURL"] = Cleaned(c, "OTELExporterURL")
      /\ d["LogLevel"] = Cleaned(c, "LogLevel")
  BY Settings DEF Normal, Cleaned, Words
<1>3. \A s \in Words \ {"LogLevel"} : d[s] = Cleaned(c, s)
  BY Settings DEF Normal, Cleaned, Words
<1>4. \A s \in Setting : s \notin Words /\ s \notin URLs => d[s] = Cleaned(c, s)
  BY DEF Normal, Cleaned, Words, URLs
<1> HIDE DEF d
<1>5. \A s \in Setting : d[s] = Cleaned(c, s)
  BY <1>2, <1>3, <1>4 DEF URLs
<1> QED
  BY <1>1, <1>5 DEF d

LEMMA NormalIsConfig ==
    ASSUME NEW c, IsConfig(c)
    PROVE  IsConfig(Normal(c))
<1>1. Normal(c) = [s \in Setting |-> Cleaned(c, s)]
  BY NormalIs DEF IsConfig
<1>2. ASSUME NEW s \in Words PROVE IsWord(Cleaned(c, s))
  <2>1. s \in Setting /\ IsWord(c[s]) /\ s # "SolrBaseURL" /\ s # "OTELExporterURL"
    BY Settings DEF Words, IsConfig, HasValue
  <2>2. CASE s = "LogLevel"
    BY <2>1, <2>2 DEF Cleaned, IsWord
  <2>3. CASE s # "LogLevel"
    BY <2>1, <2>3 DEF Cleaned, IsWord
  <2> QED
    BY <2>2, <2>3
<1>3. ASSUME NEW s \in Setting, s \notin Words PROVE Cleaned(c, s) \in Value(s)
  <2>1. c[s] \in Value(s)
    BY <1>3 DEF IsConfig, HasValue
  <2>2. CASE s = "SolrBaseURL"
    <3>1. \A u \in URL : [u EXCEPT !.slashes = 0] \in URL
      BY DEF URL
    <3> QED
      BY <2>1, <2>2, <3>1, Values DEF Cleaned, URLs
  <2>3. CASE s = "OTELExporterURL"
    <3>1. c[s] \in URL /\ (c[s].padded /\ ~c.TelemetryEnabled) \in BOOLEAN
      BY <2>1, <2>3, Values DEF URLs
    <3>2. [c[s] EXCEPT !.padded = c[s].padded /\ ~c.TelemetryEnabled] \in URL
      BY <3>1 DEF URL
    <3> QED
      BY <2>3, <3>2, Values DEF Cleaned, URLs
  <2>4. CASE s \notin URLs
    BY <1>3, <2>1, <2>4 DEF Cleaned, Words, URLs
  <2> QED
    BY <2>2, <2>3, <2>4 DEF URLs
<1> QED
  BY <1>1, <1>2, <1>3 DEF IsConfig, HasValue

(* A normal form is its own normal form, and as valid as what it comes from. *)
LEMMA NormalIsNormal ==
    ASSUME NEW c, IsConfig(c)
    PROVE  Normal(Normal(c)) = Normal(c)
<1> DEFINE d == Normal(c)
<1>1. d = [s \in Setting |-> Cleaned(c, s)] /\ IsConfig(d)
  BY NormalIs, NormalIsConfig DEF IsConfig
<1>2. Normal(d) = [s \in Setting |-> Cleaned(d, s)]
  BY <1>1, NormalIs DEF IsConfig
<1> HIDE DEF d
<1>3. d.TelemetryEnabled = c.TelemetryEnabled
  BY <1>1, Settings DEF Cleaned, Words
<1>4. ASSUME NEW s \in Setting PROVE Cleaned(d, s) = d[s]
  <2>1. d[s] = Cleaned(c, s) /\ HasValue(c, s)
    BY <1>1 DEF IsConfig
  <2>2. CASE s = "SolrBaseURL"
    <3>1. c[s] \in URL
      BY <2>1, <2>2, Values DEF URLs, HasValue, Words
    <3> QED
      BY <2>1, <2>2, <3>1 DEF Cleaned, URL
  <2>3. CASE s = "OTELExporterURL"
    <3>1. c[s] \in URL
      BY <2>1, <2>3, Values DEF URLs, HasValue, Words
    <3>2. d[s] = [c[s] EXCEPT !.padded = c[s].padded /\ ~c.TelemetryEnabled]
      BY <2>1, <2>3 DEF Cleaned
    <3>3. d[s] \in URL /\ d[s].padded = (c[s].padded /\ ~c.TelemetryEnabled)
      BY <3>1, <3>2 DEF URL
    <3>4. (d[s].padded /\ ~d.TelemetryEnabled) = d[s].padded
      BY <1>3, <3>3, Zenon
    <3>5. Cleaned(d, s) = [d[s] EXCEPT !.padded = d[s].padded /\ ~d.TelemetryEnabled]
      BY <2>3 DEF Cleaned
    <3>6. Cleaned(d, s) = [d[s] EXCEPT !.padded = d[s].padded]
      BY <3>4, <3>5
    <3> QED
      BY <3>3, <3>6 DEF URL
  <2>4. CASE s = "LogLevel"
    BY <2>1, <2>4 DEF Cleaned, Words, IsWord, HasValue
  <2>5. CASE s \in Words /\ s # "LogLevel"
    BY <2>1, <2>5 DEF Cleaned, Words, IsWord, HasValue
  <2>6. CASE s \notin Words /\ s \notin URLs
    BY <2>1, <2>6 DEF Cleaned, Words, URLs
  <2> QED
    BY <2>2, <2>3, <2>4, <2>5, <2>6 DEF URLs
<1>5. Normal(d) = [s \in Setting |-> d[s]]
  BY <1>2, <1>4
<1> QED
  BY <1>1, <1>5 DEF d, IsConfig

LEMMA NormalIsValid ==
    ASSUME NEW c, IsConfig(c), Valid(c)
    PROVE  Valid(Normal(c)) /\ Normal(c).SolrBaseURL = Good
<1> DEFINE d == Normal(c)
<1>1. d = [s \in Setting |-> Cleaned(c, s)] /\ IsConfig(d)
  BY NormalIs, NormalIsConfig DEF IsConfig
<1> HIDE DEF d
<1>2. \A s \in Setting : s \notin Words /\ s \notin URLs => d[s] = c[s]
  BY <1>1 DEF Cleaned, Words, URLs
<1>3. \A s \in Words : IsWord(c[s]) /\ d[s].text = c[s].text
  <2>1. \A s \in Words : s \in Setting /\ IsWord(c[s])
    BY Settings DEF Words, IsConfig, HasValue
  <2>2. \A s \in Words : d[s] = Cleaned(c, s)
    BY <1>1, <2>1
  <2> QED
    BY <2>1, <2>2 DEF Cleaned, Words, IsWord
<1>4. d.SolrBaseURL = Good
  <2>1. c["SolrBaseURL"] \in URL /\ c["SolrBaseURL"].sort = "good" /\ ~c["SolrBaseURL"].padded
    BY Settings, Values DEF IsConfig, HasValue, Valid, URLs, Words
  <2>2. d["SolrBaseURL"] = [c["SolrBaseURL"] EXCEPT !.slashes = 0]
    BY <1>1, Settings DEF Cleaned
  <2>3. c["SolrBaseURL"].padded = FALSE
    BY <2>1 DEF URL
  <2> QED
    BY <2>1, <2>2, <2>3 DEF URL, Good
<1>5. d.LogLevel.padded = c.LogLevel.padded
  <2>1. IsWord(c["LogLevel"])
    BY <1>3 DEF Words
  <2>2. d["LogLevel"] = [c["LogLevel"] EXCEPT !.upper = FALSE]
    BY <1>1, Settings DEF Cleaned
  <2> QED
    BY <2>1, <2>2 DEF IsWord
<1>6. d.OTELExporterURL.sort = c.OTELExporterURL.sort
  <2>1. c["OTELExporterURL"] \in URL
    BY Settings, Values DEF IsConfig, HasValue, URLs, Words
  <2>2. d["OTELExporterURL"] = [c["OTELExporterURL"] EXCEPT
                                  !.padded = c["OTELExporterURL"].padded /\ ~c.TelemetryEnabled]
    BY <1>1, Settings DEF Cleaned
  <2> QED
    BY <2>1, <2>2 DEF URL
<1>7. /\ d.MovieWorkers = c.MovieWorkers /\ d.BookWorkers = c.BookWorkers
      /\ d.BatchSize = c.BatchSize /\ d.WorkerSleep = c.WorkerSleep
      /\ d.RequestTimeout = c.RequestTimeout /\ d.ShutdownTimeout = c.ShutdownTimeout
      /\ d.ProgressInterval = c.ProgressInterval /\ d.RetryAttempts = c.RetryAttempts
      /\ d.RetryInitialBackoff = c.RetryInitialBackoff
      /\ d.RetryMaxBackoff = c.RetryMaxBackoff
      /\ d.TelemetryEnabled = c.TelemetryEnabled
      /\ \A s \in Fractions : d[s] = c[s]
  BY <1>2, Settings DEF Words, URLs, Fractions
<1>8. /\ d.MoviesCore.text = c.MoviesCore.text /\ d.BooksCore.text = c.BooksCore.text
      /\ d.LogLevel.text = c.LogLevel.text
      /\ d.OTELServiceName.text = c.OTELServiceName.text
      /\ d.MetricsListenAddr.text = c.MetricsListenAddr.text
  BY <1>3 DEF Words
<1>9. d.SolrBaseURL.sort = "good" /\ ~d.SolrBaseURL.padded
  BY <1>4 DEF Good
<1>10. Valid(d)
  BY <1>5, <1>6, <1>7, <1>8, <1>9 DEF Valid, ValidCore
<1> QED
  BY <1>4, <1>10 DEF d

(* What Load accepts. *)
AcceptedConfig(c) == IsConfig(c) /\ Valid(c) /\ Normal(c) = c /\ c.SolrBaseURL = Good

LEMMA AcceptedNormal ==
    ASSUME NEW c, IsConfig(c), Valid(c)
    PROVE  AcceptedConfig(Normal(c))
BY NormalIsConfig, NormalIsNormal, NormalIsValid DEF AcceptedConfig

LEMMA GreatestIn ==
    ASSUME NEW k \in Nat, NEW D, D \subseteq 1..k, D # {}
    PROVE  \E m \in D : \A d \in D : d <= m
<1> DEFINE E == {e \in Nat : \A d \in D : d <= e}
<1>1. k \in E
  OBVIOUS
<1>2. PICK m \in E : \A e \in E : <<e, m>> \notin OpToRel(<, Nat)
  BY <1>1, WFMin, NatLessThanWellFounded, Zenon
<1>3. \A e \in E : ~(e < m)
  BY <1>2, Zenon DEF OpToRel
<1>4. m \in D
  <2>1. SUFFICES ASSUME m \notin D PROVE FALSE
    OBVIOUS
  <2>2. PICK d \in D : d <= m
    OBVIOUS
  <2>3. m - 1 \in E
    BY <2>1, <2>2
  <2> QED
    BY <1>3, <2>3
<1> QED
  BY <1>4

(* The value of the setting s after k arguments: what the last of them that   *)
(* sets it says, or else what the environment gives.                          *)
Latest(S) == CHOOSE i \in S : \A j \in S : j <= i
Setters(k, s) == {i \in 1..k : input.args[i][1] = s}
AskedBy(k, s) == IF Setters(k, s) # {} THEN Given(input.args[Latest(Setters(k, s))])
                 ELSE FromEnv(s, input.env[s])

(* The first k arguments are behind and the others lie ahead, unless the next *)
(* one ended the parsing.                                                     *)
Ahead(k) ==
    \/ /\ args \in Seq({input.args[i] : i \in DOMAIN input.args})
       /\ Len(args) = Len(input.args) - k
       /\ \A i \in 1..Len(args) : args[i] = input.args[i + k]
    \/ args = <<>> /\ k < Len(input.args) /\ input.args[k + 1] = <<"positional">>

Parsed(k, c) == /\ k \in 0..Len(input.args)
                /\ \A i \in 1..k : Sets(input.args[i])
                /\ c = [s \in Setting |-> AskedBy(k, s)]
                /\ Ahead(k)

(* Everything that counts has been parsed and was found valid. *)
Accepted(k, c) == args = <<>> /\ Parsed(k, c) /\ Valid(c) /\ config = Normal(c)

LoadInv ==
    /\ input \in Inputs
    /\ at \in {"environment", "arguments", "accepted", "rejected"}
    /\ at = "environment" => args = input.args
    /\ at = "arguments" => \E k \in Nat : Parsed(k, config)
    /\ at = "accepted" => \E k \in Nat : \E c : Accepted(k, c)

LEMMA LatestIs ==
    ASSUME NEW S, S \subseteq Nat, NEW m \in S, \A j \in S : j <= m
    PROVE  Latest(S) = m
<1>1. \A i \in S : (\A j \in S : j <= i) => i = m
  BY SMT
<1>2. \E i \in S : \A j \in S : j <= i
  OBVIOUS
<1>3. Latest(S) \in S /\ \A j \in S : j <= Latest(S)
  BY <1>2, Zenon DEF Latest
<1> QED
  BY <1>1, <1>3

LEMMA InputIs ==
    ASSUME input \in Inputs
    PROVE  /\ input.args \in Seq({input.args[i] : i \in DOMAIN input.args})
           /\ Len(input.args) \in Nat /\ DOMAIN input.args = 1..Len(input.args)
           /\ \A i \in 1..Len(input.args) : IsArgument(input.args[i])
           /\ \A s \in Setting : IsText(s, input.env[s])
<1>1. /\ input.args \in Seq({input.args[i] : i \in DOMAIN input.args})
      /\ \A i \in DOMAIN input.args : IsArgument(input.args[i])
      /\ \A s \in Setting : IsText(s, input.env[s])
  BY InputAssumption
<1> DEFINE A == input.args
           R == {input.args[i] : i \in DOMAIN input.args}
<1>2. A \in Seq(R)
  BY <1>1
<1> HIDE DEF A, R
<1>3. Len(A) \in Nat /\ DOMAIN A = 1..Len(A)
  BY <1>2
<1> QED
  BY <1>1, <1>3 DEF A

(* The first argument that has not been parsed yet. *)
LEMMA ArgumentsAhead ==
    ASSUME input \in Inputs, NEW k \in 0..Len(input.args), Ahead(k), args # <<>>
    PROVE  /\ k + 1 \in 0..Len(input.args) /\ k + 1 \in 1..Len(input.args)
           /\ Head(args) = input.args[k + 1]
           /\ Tail(args) \in Seq({input.args[i] : i \in DOMAIN input.args})
           /\ Len(Tail(args)) = Len(input.args) - (k + 1)
           /\ \A i \in 1..Len(Tail(args)) : Tail(args)[i] = input.args[i + (k + 1)]
<1> DEFINE A == input.args
           R == {input.args[i] : i \in DOMAIN input.args}
           t == Tail(args)
<1>1. Len(A) \in Nat
  BY InputIs
<1>2. /\ args \in Seq(R) /\ args # <<>>
      /\ Len(args) = Len(A) - k
      /\ \A i \in 1..Len(args) : args[i] = A[i + k]
  BY DEF Ahead
<1> HIDE DEF A, R
<1>3. Len(args) \in Nat /\ Len(args) > 0 /\ Head(args) = args[1]
  BY <1>2, EmptySeq
<1>4. t \in Seq(R) /\ Len(t) = Len(args) - 1 /\ \A i \in 1..Len(t) : t[i] = args[i + 1]
  BY <1>2, HeadTailProperties
<1> HIDE DEF t
<1>5. k \in Nat /\ k <= Len(A)
  BY <1>1 DEF A
<1>6. \A i \in 1..Len(t) : i + 1 \in 1..Len(args) /\ (i + 1) + k = i + (k + 1)
  BY <1>3, <1>4, <1>5
<1>7. \A i \in 1..Len(t) : t[i] = A[i + (k + 1)]
  BY <1>2, <1>4, <1>6
<1>8. 1 \in 1..Len(args) /\ 1 + k = k + 1
  BY <1>3, <1>5
<1>9. Head(args) = A[k + 1]
  BY <1>2, <1>3, <1>8
<1>10. k + 1 \in 0..Len(A) /\ k + 1 \in 1..Len(A) /\ Len(t) = Len(A) - (k + 1)
  BY <1>1, <1>2, <1>3, <1>4, <1>5
<1> QED
  BY <1>4, <1>7, <1>9, <1>10 DEF A, R, t

(* One more argument sets what it names and leaves the rest. *)
LEMMA OneMoreArgument ==
    ASSUME NEW k \in Nat, NEW s
    PROVE  AskedBy(k + 1, s) = IF input.args[k + 1][1] = s THEN Given(input.args[k + 1])
                               ELSE AskedBy(k, s)
<1>1. CASE input.args[k + 1][1] = s
  <2>1. Setters(k + 1, s) \subseteq Nat /\ k + 1 \in Setters(k + 1, s)
        /\ \A j \in Setters(k + 1, s) : j <= k + 1
    BY <1>1 DEF Setters
  <2>2. Latest(Setters(k + 1, s)) = k + 1
    BY <2>1, LatestIs
  <2> QED
    BY <1>1, <2>1, <2>2 DEF AskedBy
<1>2. CASE input.args[k + 1][1] # s
  <2>1. 1..(k + 1) = (1..k) \cup {k + 1}
    OBVIOUS
  <2>2. Setters(k + 1, s) = Setters(k, s)
    BY <1>2, <2>1 DEF Setters
  <2> QED
    BY <1>2, <2>2 DEF AskedBy
<1> QED
  BY <1>1, <1>2

(* Whatever was asked for is a value of its setting. *)
LEMMA AskedIsConfig ==
    ASSUME input \in Inputs, NEW k, NEW c, Parsed(k, c)
    PROVE  IsConfig(c)
<1>1. \A v \in Word : IsWord(v)
  BY DEF Word, IsWord
<1>2. ASSUME NEW s \in Setting, NEW t, IsText(s, t), t[1] = "is"
      PROVE  t[2] \in Value(s)
  BY <1>2 DEF IsText
<1>3. ASSUME NEW s \in Setting PROVE HasValue(c, s)
  <2>1. c[s] = AskedBy(k, s)
    BY DEF Parsed
  <2>2. CASE Setters(k, s) # {}
    <3> DEFINE n == Latest(Setters(k, s))
               arg == input.args[n]
    <3>1. n \in Setters(k, s)
      <4>1. k \in Nat
        BY InputIs DEF Parsed
      <4>2. \E i \in Setters(k, s) : \A j \in Setters(k, s) : j <= i
        <5>1. Setters(k, s) \subseteq 1..k
          BY DEF Setters
        <5> QED
          BY <2>2, <4>1, <5>1, GreatestIn
      <4> QED
        BY <4>2, Zenon DEF Latest
    <3> HIDE DEF n
    <3>2. n \in 1..k /\ arg[1] = s /\ Sets(arg) /\ IsArgument(arg)
      <4>1. n \in 1..k /\ arg[1] = s
        BY <3>1 DEF Setters
      <4>2. n \in 1..Len(input.args)
        BY <4>1, InputIs DEF Parsed
      <4> QED
        BY <4>1, <4>2, InputIs DEF Parsed
    <3>3. c[s] = Given(arg)
      BY <2>1, <2>2 DEF AskedBy, n
    <3> HIDE DEF arg
    <3>4. Len(arg) = 2 /\ IsText(s, arg[2])
      BY <3>2 DEF Sets, IsArgument
    <3>5. CASE arg[2][1] = "is"
      <4>1. c[s] \in Value(s)
        BY <1>2, <3>3, <3>4, <3>5 DEF Given
      <4> QED
        BY <1>1, <4>1, Values DEF HasValue
    <3>6. CASE arg[2][1] # "is"
      <4>1. s \in Switches /\ c[s] = TRUE
        BY <3>2, <3>3, <3>6 DEF Sets, Given
      <4> QED
        BY <4>1, Values DEF HasValue, Words, Switches
    <3> QED
      BY <3>5, <3>6
  <2>3. CASE Setters(k, s) = {}
    <3>1. c[s] = FromEnv(s, input.env[s]) /\ IsText(s, input.env[s])
      BY <2>1, <2>3, InputIs DEF AskedBy
    <3>2. CASE c[s] = Default[s]
      BY <3>2, DefaultIsConfig DEF IsConfig, HasValue
    <3>3. CASE c[s] # Default[s]
      <4>1. c[s] \in Value(s)
        BY <1>2, <3>1, <3>3 DEF FromEnv
      <4> QED
        BY <1>1, <4>1, Values DEF HasValue
    <3> QED
      BY <3>2, <3>3
  <2> QED
    BY <2>2, <2>3
<1> QED
  BY <1>3 DEF IsConfig, Parsed

LEMMA LoadInit == Init => LoadInv
BY DEF Init, ConfigInit, LoadInv

LEMMA LoadReads ==
    ASSUME LoadInv, ReadEnvironment
    PROVE  LoadInv'
<1>1. /\ input \in Inputs /\ input' = input /\ args' = args /\ args = input.args
      /\ at' = "arguments" /\ config' = [s \in Setting |-> FromEnv(s, input.env[s])]
  BY DEF LoadInv, ReadEnvironment
<1>2. \A s : Setters(0, s) = {}
  BY DEF Setters
<1>3. config' = [s \in Setting |-> AskedBy(0, s)]
  BY <1>1, <1>2 DEF AskedBy
<1>4. Ahead(0)
  <2> DEFINE A == input.args
  <2>1. A \in Seq({input.args[i] : i \in DOMAIN input.args}) /\ Len(A) \in Nat
    BY <1>1, InputIs
  <2>2. Len(A) = Len(A) - 0 /\ \A i \in 1..Len(A) : A[i] = A[i + 0]
    BY <2>1
  <2> QED
    BY <1>1, <2>1, <2>2 DEF Ahead
<1>5. Parsed(0, config')
  BY <1>1, <1>3, <1>4, InputIs DEF Parsed
<1>6. Parsed(0, config)'
  BY <1>1, <1>5 DEF Parsed, AskedBy, Setters, Ahead
<1> QED
  BY <1>1, <1>6 DEF LoadInv

LEMMA LoadParses ==
    ASSUME LoadInv, ParseArgument
    PROVE  LoadInv'
<1>1. /\ input \in Inputs /\ input' = input /\ at = "arguments" /\ args # <<>>
  BY DEF LoadInv, ParseArgument
<1>2. PICK k \in Nat : Parsed(k, config)
  BY <1>1 DEF LoadInv
<1> DEFINE arg == Head(args)
<1>3. /\ k + 1 \in 0..Len(input.args) /\ k + 1 \in 1..Len(input.args)
      /\ arg = input.args[k + 1]
      /\ Tail(args) \in Seq({input.args[i] : i \in DOMAIN input.args})
      /\ Len(Tail(args)) = Len(input.args) - (k + 1)
      /\ \A i \in 1..Len(Tail(args)) : Tail(args)[i] = input.args[i + (k + 1)]
  BY <1>1, <1>2, ArgumentsAhead DEF Parsed
<1>4. IsArgument(arg)
  BY <1>1, <1>3, InputIs
<1>5. /\ config' = IF Sets(arg) THEN [config EXCEPT ![arg[1]] = Given(arg)] ELSE config
      /\ at' = IF Sets(arg) \/ arg = <<"positional">> THEN at ELSE "rejected"
      /\ args' = IF arg = <<"positional">> THEN <<>> ELSE Tail(args)
  BY DEF ParseArgument
<1> HIDE DEF arg
<1>6. CASE Sets(arg)
  <2>1. arg # <<"positional">> /\ arg # <<"unknown">> /\ arg[1] \in Setting
    BY <1>4, <1>6 DEF Sets, IsArgument
  <2>2. config' = [s \in Setting |-> AskedBy(k + 1, s)]
    <3>1. config = [s \in Setting |-> AskedBy(k, s)]
      BY <1>2 DEF Parsed
    <3>2. \A s : AskedBy(k + 1, s) = IF arg[1] = s THEN Given(arg) ELSE AskedBy(k, s)
      BY <1>3, OneMoreArgument
    <3>3. config' = [config EXCEPT ![arg[1]] = Given(arg)]
      BY <1>5, <1>6
    <3> QED
      BY <2>1, <3>1, <3>2, <3>3
  <2>3. \A i \in 1..(k + 1) : Sets(input.args[i])
    <3>1. \A i \in 1..(k + 1) : i \in 1..k \/ i = k + 1
      OBVIOUS
    <3> QED
      BY <1>2, <1>3, <1>6, <3>1 DEF Parsed
  <2>4. args' = Tail(args) /\ at' = "arguments"
    BY <1>1, <1>5, <1>6, <2>1
  <2>5. Parsed(k + 1, config)'
    BY <1>1, <1>3, <2>2, <2>3, <2>4 DEF Parsed, Ahead, AskedBy, Setters
  <2>6. k + 1 \in Nat
    OBVIOUS
  <2> QED
    BY <1>1, <2>4, <2>5, <2>6 DEF LoadInv
<1>7. CASE ~Sets(arg) /\ arg = <<"positional">>
  <2>1. config' = config /\ at' = "arguments" /\ args' = <<>>
    BY <1>1, <1>5, <1>7
  <2>2. k \in 0..Len(input.args) /\ k < Len(input.args)
    <3>1. Len(input.args) \in Nat
      BY <1>1, InputIs
    <3> QED
      BY <1>3, <3>1
  <2>3. Parsed(k, config)'
    BY <1>1, <1>2, <1>3, <1>7, <2>1, <2>2 DEF Parsed, Ahead, AskedBy, Setters
  <2> QED
    BY <1>1, <2>1, <2>3 DEF LoadInv
<1>8. CASE ~Sets(arg) /\ arg # <<"positional">>
  BY <1>1, <1>5, <1>8 DEF LoadInv
<1> QED
  BY <1>6, <1>7, <1>8

LEMMA LoadValidates ==
    ASSUME LoadInv, Validate
    PROVE  LoadInv'
<1>1. /\ input \in Inputs /\ input' = input /\ args' = args /\ args = <<>> /\ at = "arguments"
  BY DEF LoadInv, Validate
<1>2. PICK k \in Nat : Parsed(k, config)
  BY <1>1 DEF LoadInv
<1>3. CASE Valid(config) /\ at' = "accepted" /\ config' = Normal(config)
  <2>1. PICK c : c = config
    OBVIOUS
  <2>2. Parsed(k, c)'
    BY <1>1, <1>2, <2>1 DEF Parsed, Ahead, AskedBy, Setters
  <2>3. Accepted(k, c)'
    BY <1>1, <1>3, <2>1, <2>2 DEF Accepted
  <2> QED
    BY <1>1, <1>3, <2>3 DEF LoadInv
<1>4. CASE at' = "rejected"
  BY <1>1, <1>4 DEF LoadInv
<1> QED
  BY <1>3, <1>4 DEF Validate

LEMMA LoadNext == LoadInv /\ [Next]_vars => LoadInv'
<1> SUFFICES ASSUME LoadInv, [Next]_vars PROVE LoadInv'
  OBVIOUS
<1>1. CASE Load
  BY <1>1, LoadReads, LoadParses, LoadValidates DEF Load
<1>2. CASE UNCHANGED configVars
  <2>1. UNCHANGED <<input, at, args, config>>
    BY <1>2 DEF configVars
  <2>2. \A k, c : Parsed(k, c)' <=> Parsed(k, c)
    BY <2>1 DEF Parsed, Ahead, AskedBy, Setters
  <2>3. \A k : Parsed(k, config)' <=> Parsed(k, config)
    BY <2>1 DEF Parsed, Ahead, AskedBy, Setters
  <2>4. \A k, c : Accepted(k, c)' <=> Accepted(k, c)
    BY <2>1, <2>2 DEF Accepted
  <2> QED
    BY <2>1, <2>3, <2>4 DEF LoadInv
<1> QED
  BY <1>1, <1>2 DEF Next, BackOff, vars, configVars

LEMMA AcceptedIs ==
    ASSUME LoadInv, at = "accepted"
    PROVE  AcceptedConfig(config)
<1>1. PICK k \in Nat : \E c : Accepted(k, c)
  BY DEF LoadInv
<1>2. PICK c : Accepted(k, c)
  BY <1>1
<1>3. IsConfig(c)
  BY <1>2, AskedIsConfig DEF LoadInv, Accepted
<1> QED
  BY <1>2, <1>3, AcceptedNormal DEF Accepted

(* Whatever the environment and the arguments are: a configuration that is    *)
(* accepted has what the program takes for granted, and is in the form that   *)
(* validate would accept again and not change.                                *)
THEOREM AcceptedIsUsable == Spec => []AcceptedUsable
<1>1. LoadInv => AcceptedUsable
  <2> SUFFICES ASSUME LoadInv, at = "accepted" PROVE AcceptedUsable
    BY DEF AcceptedUsable
  <2>1. IsConfig(config) /\ Valid(config) /\ Normal(config) = config
        /\ config.SolrBaseURL = Good
    BY AcceptedIs DEF AcceptedConfig
  <2>2. \A s \in Numbers : config[s] \in Int
    <3>1. \A s \in Numbers : s \in Setting /\ s \notin Words
      BY Settings DEF Words
    <3> QED
      BY <2>1, <3>1, Values DEF IsConfig, HasValue
  <2>3. /\ config.MovieWorkers \in Int /\ config.BookWorkers \in Int
        /\ config.BatchSize \in Int /\ config.RetryAttempts \in Int
        /\ config.ProgressInterval \in Int
        /\ config.RequestTimeout \in Int /\ config.ShutdownTimeout \in Int
        /\ config.RetryInitialBackoff \in Int /\ config.RetryMaxBackoff \in Int
    BY <2>2, Settings
  <2>4. /\ config.MovieWorkers >= 1 /\ config.BookWorkers >= 1
        /\ 1 <= config.BatchSize /\ config.BatchSize <= 100 /\ config.RetryAttempts >= 1
        /\ config.ProgressInterval > 0
        /\ config.RequestTimeout > 0 /\ config.ShutdownTimeout >= config.RequestTimeout
        /\ config.RetryInitialBackoff > 0
        /\ config.RetryMaxBackoff >= config.RetryInitialBackoff
    <3>1. Valid(config)
      BY <2>1
    <3> QED
      BY <3>1 DEF Valid
  <2>5. \A s \in {"MovieWorkers", "BookWorkers", "BatchSize", "RetryAttempts"} :
           config[s] \in Nat \ {0}
    BY <2>3, <2>4
  <2>6. /\ config.BatchSize <= 100
        /\ config.ProgressInterval > 0
        /\ 0 < config.RequestTimeout /\ 0 < config.ShutdownTimeout
        /\ config.RequestTimeout <= config.ShutdownTimeout
        /\ 0 < config.RetryInitialBackoff
        /\ config.RetryInitialBackoff <= config.RetryMaxBackoff
    BY <2>3, <2>4
  <2>7. \A s \in {"MoviesCore", "BooksCore"} :
           config[s].text \notin {"", "a/b"} /\ ~config[s].padded
    <3>1. config = [s \in Setting |-> Cleaned(config, s)]
      BY <2>1, NormalIs DEF IsConfig
    <3>2. \A s \in {"MoviesCore", "BooksCore"} :
             config[s] = [config[s] EXCEPT !.padded = FALSE] /\ IsWord(config[s])
      BY <2>1, <3>1, Settings DEF Cleaned, Words, IsConfig, HasValue
    <3>3. \A s \in {"MoviesCore", "BooksCore"} : ~config[s].padded
      BY <3>2 DEF IsWord
    <3> QED
      BY <2>1, <3>3 DEF Valid, ValidCore
  <2>8. SlogLevel(config) = config.LogLevel.text
    BY <2>1 DEF SlogLevel, Valid, Levels
  <2> QED
    BY <2>1, <2>5, <2>6, <2>7, <2>8 DEF AcceptedUsable
<1> QED
  BY <1>1, LoadInit, LoadNext, PTL DEF Spec

(* Every setting that is accepted has the value that was asked for, up to its *)
(* normal form, and no flag that cannot be read is passed over.               *)
THEOREM AskedForIsKept == Spec => []AskedIsKept
<1>1. LoadInv => AskedIsKept
  <2> SUFFICES ASSUME LoadInv, at = "accepted" PROVE AskedIsKept
    BY DEF AskedIsKept
  <2>1. PICK k \in Nat : \E c : Accepted(k, c)
    BY DEF LoadInv
  <2>2. PICK c : Accepted(k, c)
    BY <2>1
  <2>3. /\ input \in Inputs /\ Len(input.args) \in Nat
        /\ DOMAIN input.args = 1..Len(input.args)
        /\ \A s \in Setting : IsText(s, input.env[s])
    BY InputIs DEF LoadInv
  <2>4. /\ k \in 0..Len(input.args)
        /\ \A i \in 1..k : Sets(input.args[i])
        /\ k = Len(input.args) \/ input.args[k + 1] = <<"positional">>
    <3>1. Len(args) = 0 /\ args = <<>>
      BY <2>2 DEF Accepted
    <3> QED
      BY <2>2, <2>3, <3>1 DEF Accepted, Parsed, Ahead
  <2>5. Flags = 1..k
    <3>1. \A i \in 1..k : input.args[i] # <<"positional">>
      BY <2>4 DEF Sets
    <3>2. 1..k \subseteq Flags
      BY <2>3, <2>4, <3>1 DEF Flags
    <3>3. ASSUME NEW i \in Flags PROVE i \in 1..k
      <4>1. i \in 1..Len(input.args) /\ \A j \in 1..i : input.args[j] # <<"positional">>
        BY <2>3 DEF Flags
      <4>2. i <= k
        <5> SUFFICES ASSUME k < i PROVE FALSE
          BY <2>3, <2>4, <4>1
        <5>1. k + 1 \in 1..i /\ k # Len(input.args)
          BY <2>3, <2>4, <4>1
        <5> QED
          BY <2>4, <4>1, <5>1
      <4> QED
        BY <2>3, <4>1, <4>2
    <3> QED
      BY <3>2, <3>3
  <2>6. ASSUME NEW s \in Setting PROVE Asked(s) = AskedBy(k, s)
    <3> DEFINE S == {i \in Flags : input.args[i][1] = s}
    <3>1. S = Setters(k, s)
      BY <2>5 DEF Setters
    <3>2. PICK text : text = input.env[s]
      OBVIOUS
    <3>3. CASE S # {}
      <4>1. Asked(s) = Given(input.args[Latest(S)])
        BY <3>3 DEF Asked, Latest
      <4> QED
        BY <3>1, <3>3, <4>1 DEF AskedBy
    <3>4. CASE S = {}
      <4>1. Asked(s) = IF text \in {<<"unset">>, <<"garbage">>} \/ Blank(s, text[2])
                         THEN Default[s] ELSE text[2]
        BY <3>2, <3>4 DEF Asked
      <4>2. IsText(s, text)
        BY <2>3, <3>2
      <4>3. text = <<"unset">> \/ text = <<"garbage">> => Asked(s) = FromEnv(s, text)
        BY <4>1 DEF FromEnv
      <4>4. text # <<"unset">> /\ text # <<"garbage">> => text[1] = "is"
        BY <4>2 DEF IsText
      <4>5. Asked(s) = FromEnv(s, text)
        BY <4>1, <4>3, <4>4 DEF FromEnv
      <4> QED
        BY <3>1, <3>2, <3>4, <4>5 DEF AskedBy
    <3> QED
      BY <3>3, <3>4
  <2>7. [s \in Setting |-> Asked(s)] = c
    BY <2>2, <2>6 DEF Accepted, Parsed
  <2> QED
    BY <2>2, <2>4, <2>5, <2>7 DEF AskedIsKept, Accepted
<1> QED
  BY <1>1, LoadInit, LoadNext, PTL DEF Spec

-----------------------------------------------------------------------------
(* Recursion on the natural numbers.  The library's theorems about it take an *)
(* operator; here the step is a function, and induction is that every set of  *)
(* numbers that has one has a least one.                                      *)

LEMMA Induction ==
    ASSUME NEW S, 0 \in S, \A n \in Nat : n \in S => n + 1 \in S
    PROVE  Nat \subseteq S
<1> DEFINE T == Nat \ S
<1> SUFFICES ASSUME T # {} PROVE FALSE
  OBVIOUS
<1>1. PICK m \in T : \A n \in T : <<n, m>> \notin OpToRel(<, Nat)
  BY WFMin, NatLessThanWellFounded
<1>2. \A n \in T : ~(n < m)
  BY <1>1, Zenon DEF OpToRel
<1>3. m \in Nat /\ m # 0
  OBVIOUS
<1>4. m - 1 \in Nat /\ m - 1 \in S
  BY <1>2, <1>3
<1>5. (m - 1) + 1 = m
  BY <1>3
<1>6. m \in S
  BY <1>4, <1>5
<1> QED
  BY <1>6

(* Functions that start with v and go on with G agree as far as they go. *)
Recurs(v, G, m, g) == g[0] = v /\ \A n \in 0..(m - 1) : g[n + 1] = G[n][g[n]]

LEMMA RecursAgree ==
    \A m \in Nat : \A v, G, g, h :
        Recurs(v, G, m, g) /\ Recurs(v, G, m, h) => \A n \in 0..m : g[n] = h[n]
<1> SUFFICES ASSUME NEW m \in Nat, NEW v, NEW G, NEW g, NEW h,
                    Recurs(v, G, m, g), Recurs(v, G, m, h)
             PROVE  \A n \in 0..m : g[n] = h[n]
  OBVIOUS
<1> DEFINE S == {n \in Nat : n <= m => g[n] = h[n]}
<1>1. 0 \in S
  BY DEF Recurs
<1>2. ASSUME NEW n \in Nat, n \in S PROVE n + 1 \in S
  <2> SUFFICES ASSUME n + 1 <= m PROVE g[n + 1] = h[n + 1]
    OBVIOUS
  <2>1. n \in 0..(m - 1) /\ n <= m
    OBVIOUS
  <2>2. g[n + 1] = G[n][g[n]] /\ h[n + 1] = G[n][h[n]]
    BY <2>1 DEF Recurs
  <2>3. g[n] = h[n]
    BY <1>2, <2>1
  <2> QED
    BY <2>2, <2>3
<1> HIDE DEF S
<1>3. Nat \subseteq S
  BY <1>1, <1>2, Induction
<1> QED
  BY <1>3 DEF S

LEMMA Recursion ==
    ASSUME NEW v \in Nat, NEW G \in [Nat -> [Nat -> Nat]]
    PROVE  \E f \in [Nat -> Nat] : f[0] = v /\ \A n \in Nat : f[n + 1] = G[n][f[n]]
<1> DEFINE A(m) == {g \in [0..m -> Nat] : Recurs(v, G, m, g)}
           S == {m \in Nat : A(m) # {}}
<1>1. 0 \in S
  <2>1. Recurs(v, G, 0, [n \in 0..0 |-> v])
    BY DEF Recurs
  <2>2. [n \in 0..0 |-> v] \in [0..0 -> Nat]
    OBVIOUS
  <2>3. [n \in 0..0 |-> v] \in A(0)
    BY <2>1, <2>2
  <2> QED
    BY <2>3
<1>2. ASSUME NEW m \in Nat, m \in S PROVE m + 1 \in S
  <2>1. PICK g \in [0..m -> Nat] : Recurs(v, G, m, g)
    BY <1>2
  <2> DEFINE h == [n \in 0..(m + 1) |-> IF n = m + 1 THEN G[m][g[m]] ELSE g[n]]
  <2>2. m \in 0..m /\ g[m] \in Nat /\ G[m][g[m]] \in Nat
    BY <2>1
  <2>3. h \in [0..(m + 1) -> Nat]
    <3>1. \A n \in 0..(m + 1) : n # m + 1 => n \in 0..m
      OBVIOUS
    <3> QED
      BY <2>2, <3>1
  <2>4. h[0] = v
    BY <2>1 DEF Recurs
  <2>5. ASSUME NEW n \in 0..((m + 1) - 1) PROVE h[n + 1] = G[n][h[n]]
    <3>1. n \in Nat /\ n <= m /\ n # m + 1 /\ n + 1 \in 0..(m + 1) /\ n \in 0..(m + 1)
      OBVIOUS
    <3>2. h[n] = g[n]
      BY <3>1
    <3>3. CASE n = m
      BY <3>1, <3>2, <3>3
    <3>4. CASE n # m
      <4>1. n \in 0..(m - 1) /\ n + 1 # m + 1
        BY <3>1, <3>4
      <4>2. h[n + 1] = g[n + 1]
        BY <3>1, <4>1
      <4> QED
        BY <2>1, <3>2, <4>1, <4>2 DEF Recurs
    <3> QED
      BY <3>3, <3>4
  <2> HIDE DEF h
  <2>6. Recurs(v, G, m + 1, h)
    BY <2>4, <2>5 DEF Recurs
  <2>7. h \in A(m + 1)
    BY <2>3, <2>6
  <2> HIDE DEF A
  <2>8. m + 1 \in Nat /\ A(m + 1) # {}
    BY <2>7
  <2> QED
    BY <2>8
<1> HIDE DEF S
<1>3. Nat \subseteq S
  BY <1>1, <1>2, Induction
<1> DEFINE c == [m \in Nat |-> CHOOSE g : g \in A(m)]
<1>4. ASSUME NEW m \in Nat PROVE c[m] \in [0..m -> Nat] /\ Recurs(v, G, m, c[m])
  <2>1. \E g : g \in A(m)
    BY <1>3 DEF S
  <2>2. (CHOOSE g : g \in A(m)) \in A(m)
    <3> HIDE DEF A
    <3> QED
      BY <2>1, Zenon
  <2>3. c[m] = CHOOSE g : g \in A(m)
    OBVIOUS
  <2>4. c[m] \in A(m)
    BY <2>2, <2>3
  <2> HIDE DEF c
  <2> QED
    BY <2>4
<1> HIDE DEF A, c
<1>5. \A m \in Nat : c[m] \in [0..m -> Nat] /\ Recurs(v, G, m, c[m])
  BY <1>4
<1> DEFINE f == [n \in Nat |-> c[n][n]]
<1>6. f \in [Nat -> Nat]
  <2>1. ASSUME NEW n \in Nat PROVE c[n][n] \in Nat
    <3>1. PICK p : p = c[n]
      OBVIOUS
    <3>2. p \in [0..n -> Nat]
      BY <1>5, <3>1
    <3>3. p[n] \in Nat
      BY <3>2
    <3> QED
      BY <3>1, <3>3
  <2> QED
    BY <2>1
<1>7. f[0] = v
  <2>1. Recurs(v, G, 0, c[0]) /\ f[0] = c[0][0]
    BY <1>4
  <2> QED
    BY <2>1 DEF Recurs
<1>8. ASSUME NEW n \in Nat PROVE f[n + 1] = G[n][f[n]]
  <2>1. PICK p, q : p = c[n] /\ q = c[n + 1]
    OBVIOUS
  <2>2. n + 1 \in Nat
    OBVIOUS
  <2>3. Recurs(v, G, n, c[n])
    BY <1>5, Zenon
  <2>4. Recurs(v, G, n + 1, c[n + 1])
    BY <1>5, <2>2, Zenon
  <2>5. Recurs(v, G, n, p) /\ Recurs(v, G, n + 1, q)
    BY <2>1, <2>3, <2>4
  <2>6. /\ q[0] = v /\ \A i \in 0..((n + 1) - 1) : q[i + 1] = G[i][q[i]]
    BY <2>5 DEF Recurs
  <2>7. n \in 0..((n + 1) - 1) /\ \A i \in 0..(n - 1) : i \in 0..((n + 1) - 1)
    OBVIOUS
  <2>8. q[n + 1] = G[n][q[n]]
    BY <2>6, <2>7
  <2>9. Recurs(v, G, n, q)
    BY <2>6, <2>7 DEF Recurs
  <2>10. p[n] = q[n]
    <3>1. \A i \in 0..n : p[i] = q[i]
      BY <2>5, <2>9, RecursAgree, SMT
    <3>2. n \in 0..n
      OBVIOUS
    <3> QED
      BY <3>1, <3>2, Zenon
  <2>11. f[n] = p[n]
    BY <2>1
  <2>12. f[n + 1] = q[n + 1]
    BY <2>2, <2>1
  <2> HIDE DEF f
  <2> QED
    BY <2>10, <2>8, <2>11, <2>12
<1> HIDE DEF f
<1> QED
  BY <1>6, <1>7, <1>8

-----------------------------------------------------------------------------
(* The backoff. *)

LEMMA PowerRecurs == Power[0] = 1 /\ \A n \in Nat : Power[n + 1] = 2 * Power[n]
<1> DEFINE Is(f) == f = [n \in Nat |-> IF n = 0 THEN 1 ELSE 2 * f[n - 1]]
<1>1. PICK G \in [Nat -> [Nat -> Nat]] : \A n, x \in Nat : G[n][x] = 2 * x
  <2>1. [n \in Nat |-> [x \in Nat |-> 2 * x]] \in [Nat -> [Nat -> Nat]]
    OBVIOUS
  <2> QED
    BY <2>1
<1>2. PICK f \in [Nat -> Nat] : f[0] = 1 /\ \A n \in Nat : f[n + 1] = G[n][f[n]]
  <2>1. 1 \in Nat
    OBVIOUS
  <2> QED
    BY <2>1, Recursion
<1>3. \A n \in Nat : f[n + 1] = 2 * f[n]
  BY <1>1, <1>2
<1>4. ASSUME NEW n \in Nat PROVE f[n] = IF n = 0 THEN 1 ELSE 2 * f[n - 1]
  <2>1. CASE n = 0
    BY <1>2, <2>1
  <2>2. CASE n # 0
    <3>1. n - 1 \in Nat /\ (n - 1) + 1 = n
      BY <2>2
    <3> QED
      BY <1>3, <2>2, <3>1
  <2> QED
    BY <2>1, <2>2
<1>5. Is(f)
  BY <1>2, <1>4
<1>6. Is(Power)
  <2>1. Power = CHOOSE g : Is(g)
    BY DEF Power
  <2> HIDE DEF Is
  <2> QED
    BY <1>5, <2>1, Zenon
<1>7. \A n \in Nat : Power[n] = IF n = 0 THEN 1 ELSE 2 * Power[n - 1]
  BY <1>6
<1>8. \A n \in Nat : n + 1 \in Nat /\ n + 1 # 0 /\ (n + 1) - 1 = n
  OBVIOUS
<1> QED
  BY <1>7, <1>8

LEMMA PowerIs == \A n \in Nat : Power[n] \in Nat /\ Power[n] >= 1
<1> DEFINE S == {n \in Nat : Power[n] \in Nat /\ Power[n] >= 1}
<1>1. 0 \in S
  BY PowerRecurs
<1>2. ASSUME NEW n \in Nat, n \in S PROVE n + 1 \in S
  BY PowerRecurs, <1>2
<1> HIDE DEF S
<1>3. Nat \subseteq S
  BY <1>1, <1>2, Induction
<1> QED
  BY <1>3 DEF S

-----------------------------------------------------------------------------
LEMMA BackoffSettings ==
    ASSUME NEW c, IsConfig(c), Valid(c)
    PROVE  /\ c.RetryInitialBackoff \in Nat /\ c.RetryInitialBackoff >= 1
           /\ c.RetryMaxBackoff \in Nat /\ c.RetryInitialBackoff <= c.RetryMaxBackoff
           /\ c.RetryAttempts \in Nat /\ c.RetryAttempts >= 1
           /\ c.RetryJitter \in Fraction
           /\ ~Below(c.RetryJitter, 0) /\ ~Above(c.RetryJitter, Scale)
<1>1. /\ c["RetryInitialBackoff"] \in Int /\ c["RetryMaxBackoff"] \in Int
      /\ c["RetryAttempts"] \in Int
  BY Settings, Values DEF IsConfig, HasValue, Words
<1>2. c["RetryJitter"] \in Fraction
  BY Settings, Values DEF IsConfig, HasValue, Words, Fractions
<1>3. /\ c.RetryInitialBackoff > 0 /\ c.RetryMaxBackoff >= c.RetryInitialBackoff
      /\ c.RetryAttempts >= 1
  BY DEF Valid
<1>4. \A s \in Fractions : ~Below(c[s], 0) /\ ~Above(c[s], Scale)
  BY DEF Valid
<1>5. ~Below(c.RetryJitter, 0) /\ ~Above(c.RetryJitter, Scale)
  BY <1>4 DEF Fractions
<1>6. /\ c.RetryInitialBackoff \in Nat /\ c.RetryInitialBackoff >= 1
      /\ c.RetryMaxBackoff \in Nat /\ c.RetryInitialBackoff <= c.RetryMaxBackoff
      /\ c.RetryAttempts \in Nat /\ c.RetryAttempts >= 1
  BY <1>1, <1>3
<1> QED
  BY <1>2, <1>5, <1>6

(* The closed form of the code doubles and stops at the maximum. *)
LEMMA CappedIs ==
    ASSUME NEW c, IsConfig(c), Valid(c)
    PROVE  /\ Capped(1, c) = c.RetryInitialBackoff
           /\ \A n \in Nat \ {0} :
                 /\ Capped(n, c) \in 1..c.RetryMaxBackoff
                 /\ Capped(n, c) <= c.RetryInitialBackoff * Power[n - 1]
                 /\ Capped(n + 1, c) = IF 2 * Capped(n, c) < c.RetryMaxBackoff
                                         THEN 2 * Capped(n, c) ELSE c.RetryMaxBackoff
<1>1. PICK I, M : I = c.RetryInitialBackoff /\ M = c.RetryMaxBackoff
  OBVIOUS
<1>2. I \in Nat /\ M \in Nat /\ I >= 1 /\ I <= M
  BY <1>1, BackoffSettings
<1>3. \A n \in Nat \ {0} : Capped(n, c) = IF I * Power[n - 1] > M THEN M ELSE I * Power[n - 1]
  BY <1>1 DEF Capped
<1>4. Capped(1, c) = c.RetryInitialBackoff
  <2>1. Power[1 - 1] = 1
    BY PowerRecurs
  <2>2. Capped(1, c) = IF I * Power[1 - 1] > M THEN M ELSE I * Power[1 - 1]
    BY <1>3
  <2> QED
    BY <1>1, <1>2, <2>1, <2>2
<1>5. ASSUME NEW n \in Nat \ {0}
      PROVE  /\ Capped(n, c) \in 1..M
             /\ Capped(n, c) <= I * Power[n - 1]
             /\ Capped(n + 1, c) = IF 2 * Capped(n, c) < M THEN 2 * Capped(n, c) ELSE M
  <2>1. n - 1 \in Nat /\ n + 1 \in Nat \ {0} /\ (n - 1) + 1 = n /\ (n + 1) - 1 = n
    OBVIOUS
  <2>2. PICK p : p = Power[n - 1]
    OBVIOUS
  <2>3. p \in Nat /\ p >= 1
    BY <2>1, <2>2, PowerIs
  <2>4. Power[n] = 2 * p
    BY <2>1, <2>2, PowerRecurs
  <2>5. PICK raw : raw = I * p
    OBVIOUS
  <2>6. raw \in Nat /\ raw >= 1 /\ I * (2 * p) = 2 * raw
    BY <1>2, <2>3, <2>5
  <2>7. Capped(n, c) = IF raw > M THEN M ELSE raw
    BY <1>3, <2>2, <2>5
  <2>8. Capped(n + 1, c) = IF 2 * raw > M THEN M ELSE 2 * raw
    BY <1>3, <2>1, <2>4, <2>6
  <2>9. I * Power[n - 1] = raw
    BY <2>2, <2>5
  <2> QED
    BY <1>2, <2>6, <2>7, <2>8, <2>9
<1> QED
  BY <1>1, <1>4, <1>5

LEMMA DoublingIs ==
    ASSUME IsConfig(config), Valid(config)
    PROVE  \A n \in 1..config.RetryAttempts : Doubling[n] = Capped(n, config)
<1>1. PICK I, M, R : /\ I = config.RetryInitialBackoff /\ M = config.RetryMaxBackoff
                     /\ R = config.RetryAttempts
  OBVIOUS
<1>2. I \in Nat /\ M \in Nat /\ I >= 1 /\ I <= M /\ R \in Nat /\ R >= 1
  BY <1>1, BackoffSettings
<1> DEFINE Is(f) == f = [n \in 1..R |-> IF n = 1 THEN I ELSE IF 2 * f[n - 1] < M
                                                         THEN 2 * f[n - 1] ELSE M]
           w == [n \in 1..R |-> Capped(n, config)]
<1>3. /\ Capped(1, config) = I
      /\ \A n \in Nat \ {0} : /\ Capped(n, config) \in 1..M
                              /\ Capped(n + 1, config) = IF 2 * Capped(n, config) < M
                                                           THEN 2 * Capped(n, config) ELSE M
  BY <1>1, CappedIs
<1>4. Is(w)
  <2>1. ASSUME NEW n \in 1..R
        PROVE  Capped(n, config) = IF n = 1 THEN I ELSE IF 2 * w[n - 1] < M
                                                    THEN 2 * w[n - 1] ELSE M
    <3>1. CASE n = 1
      BY <1>3, <3>1
    <3>2. CASE n # 1
      <4>1. n - 1 \in 1..R /\ n - 1 \in Nat \ {0} /\ (n - 1) + 1 = n
        BY <1>2, <3>2
      <4>2. w[n - 1] = Capped(n - 1, config)
        BY <4>1
      <4> HIDE DEF w
      <4>3. Capped(n, config) = IF 2 * Capped(n - 1, config) < M
                                  THEN 2 * Capped(n - 1, config) ELSE M
        <5>1. Capped((n - 1) + 1, config) = IF 2 * Capped(n - 1, config) < M
                                  THEN 2 * Capped(n - 1, config) ELSE M
          BY <1>3, <4>1
        <5> QED
          BY <4>1, <5>1
      <4> QED
        BY <3>2, <4>2, <4>3
    <3> QED
      BY <3>1, <3>2
  <2> QED
    BY <2>1
<1>5. Is(Doubling)
  <2>1. Doubling = CHOOSE f : Is(f)
    BY <1>1 DEF Doubling
  <2> HIDE DEF Is, w
  <2> QED
    BY <1>4, <2>1, Zenon
<1>6. \A n \in 1..R : Doubling[n] = IF n = 1 THEN I ELSE IF 2 * Doubling[n - 1] < M
                                                    THEN 2 * Doubling[n - 1] ELSE M
  BY <1>5
<1> HIDE DEF Is, w
<1> DEFINE S == {n \in Nat : n + 1 <= R => Doubling[n + 1] = Capped(n + 1, config)}
<1>7. 0 \in S
  <2>1. 1 \in 1..R
    BY <1>2
  <2> QED
    BY <1>3, <1>6, <2>1
<1>8. ASSUME NEW n \in Nat, n \in S PROVE n + 1 \in S
  <2> SUFFICES ASSUME (n + 1) + 1 <= R
               PROVE  Doubling[(n + 1) + 1] = Capped((n + 1) + 1, config)
    OBVIOUS
  <2>1. /\ (n + 1) + 1 \in 1..R /\ (n + 1) + 1 # 1 /\ ((n + 1) + 1) - 1 = n + 1
        /\ n + 1 \in Nat \ {0}
    BY <1>2
  <2>2. Doubling[n + 1] = Capped(n + 1, config)
    BY <1>2, <1>8
  <2>3. Doubling[(n + 1) + 1] = IF 2 * Doubling[n + 1] < M THEN 2 * Doubling[n + 1] ELSE M
    BY <1>6, <2>1
  <2>4. Capped((n + 1) + 1, config) = IF 2 * Capped(n + 1, config) < M
                                        THEN 2 * Capped(n + 1, config) ELSE M
    BY <1>3, <2>1
  <2> QED
    BY <2>2, <2>3, <2>4
<1> HIDE DEF S
<1>9. Nat \subseteq S
  BY <1>7, <1>8, Induction
<1>10. ASSUME NEW n \in 1..R PROVE Doubling[n] = Capped(n, config)
  <2>1. n - 1 \in Nat /\ (n - 1) + 1 = n /\ n <= R
    BY <1>2
  <2>2. n - 1 \in S
    BY <1>9, <2>1
  <2> QED
    BY <2>1, <2>2 DEF S
<1> QED
  BY <1>1, <1>10

(* The fraction that is waited around a backoff. *)
Jitter(c) == IF c.RetryJitter.nan THEN 0 ELSE c.RetryJitter.n

LEMMA Cancel ==
    ASSUME NEW s \in Nat, s >= 1, NEW a \in Int, NEW b \in Int
    PROVE  /\ s * a <= s * b => a <= b
           /\ s * a < s * b => a < b
OBVIOUS

LEMMA JitteredAround ==
    ASSUME NEW b \in Nat, NEW j \in Nat, j <= Scale, NEW r \in 0..(Scale - 1)
    PROVE  LET d == Jittered(b, j, r)
           IN  /\ d \in Nat
               /\ Scale * (d + 1) > b * (Scale - j)
               /\ Scale * d <= b * (Scale + j)
<1>1. PICK S : S = Scale
  OBVIOUS
<1>2. S \in Nat /\ S >= 1 /\ r \in Nat /\ r <= S - 1 /\ j <= S
  BY <1>1, InputAssumption
<1>3. PICK q : q = S * S
  OBVIOUS
<1>4. q \in Nat /\ q >= 1
  BY <1>2, <1>3
<1>5. PICK x : x = S * S + 2 * j * r - j * S
  OBVIOUS
<1>6. x \in Int /\ S * (S - j) <= x /\ x <= S * (S + j)
  <2>1. j * r \in Nat /\ j * r <= j * S /\ j * S \in Nat
    BY <1>2
  <2>2. S * (S - j) = S * S - j * S /\ S * (S + j) = S * S + j * S
    BY <1>2
  <2>3. 2 * j * r = 2 * (j * r)
    BY <1>2
  <2> QED
    BY <1>2, <1>3, <1>4, <1>5, <2>1, <2>2, <2>3
<1>7. PICK y : y = b * x
  OBVIOUS
<1>8. y \in Int /\ b * (S * (S - j)) <= y /\ y <= b * (S * (S + j))
  <2>1. S * (S - j) \in Int /\ S * (S + j) \in Int
    BY <1>2
  <2>2. \A u, v \in Int : u <= v => b * u <= b * v
    OBVIOUS
  <2> QED
    BY <1>6, <1>7, <2>1, <2>2
<1>9. y >= 0
  <2>1. b * (S * (S - j)) >= 0
    BY <1>2
  <2>2. b * (S * (S - j)) \in Int
    BY <1>2
  <2> QED
    BY <1>8, <2>1, <2>2
<1>10. PICK d : d = y \div q
  OBVIOUS
<1>11. d \in Int /\ q * d <= y /\ y < q * (d + 1)
  BY <1>4, <1>8, <1>10
<1>12. d \in Nat
  <2> SUFFICES ASSUME d < 0 PROVE FALSE
    BY <1>11
  <2>1. -(d + 1) \in Nat /\ q * (d + 1) = -(q * (-(d + 1)))
    BY <1>4, <1>11
  <2>2. q * (-(d + 1)) \in Nat
    BY <1>4, <2>1
  <2> QED
    BY <1>8, <1>9, <1>11, <2>1, <2>2
<1>13. S * (d + 1) > b * (S - j)
  <2>1. q * (d + 1) = S * (S * (d + 1)) /\ b * (S * (S - j)) = S * (b * (S - j))
    BY <1>2, <1>3, <1>12
  <2>2. S * (b * (S - j)) < S * (S * (d + 1))
    <3>1. b * (S * (S - j)) \in Int /\ q * (d + 1) \in Int
      BY <1>2, <1>4, <1>12
    <3> QED
      BY <1>8, <1>11, <2>1, <3>1
  <2>3. b * (S - j) \in Int /\ S * (d + 1) \in Int
    BY <1>2, <1>12
  <2> QED
    BY <1>2, <2>2, <2>3, Cancel
<1>14. S * d <= b * (S + j)
  <2>1. q * d = S * (S * d) /\ b * (S * (S + j)) = S * (b * (S + j))
    BY <1>2, <1>3, <1>12
  <2>2. S * (S * d) <= S * (b * (S + j))
    <3>1. b * (S * (S + j)) \in Int /\ q * d \in Int
      BY <1>2, <1>4, <1>12
    <3> QED
      BY <1>8, <1>11, <2>1, <3>1
  <2>3. b * (S + j) \in Int /\ S * d \in Int
    BY <1>2, <1>12
  <2> QED
    BY <1>2, <2>2, <2>3, Cancel
<1>15. Jittered(b, j, r) = d
  BY <1>1, <1>3, <1>5, <1>7, <1>10 DEF Jittered
<1> QED
  BY <1>1, <1>12, <1>13, <1>14, <1>15

LEMMA DurationIs ==
    ASSUME NEW c, IsConfig(c), Valid(c), 2 * c.RetryMaxBackoff <= MaxInt,
           NEW n \in Nat \ {0}, NEW d \in Duration(n, c)
    PROVE  /\ d \in Nat
           /\ Scale * (d + 1) > Capped(n, c) * (Scale - Jitter(c))
           /\ Scale * d <= Capped(n, c) * (Scale + Jitter(c))
           /\ d <= 2 * Capped(n, c)
<1>1. PICK b, j, M : b = Capped(n, c) /\ j = Jitter(c) /\ M = c.RetryMaxBackoff
  OBVIOUS
<1>2. M \in Nat /\ b \in 1..M /\ MaxInt \in Nat /\ 2 * M <= MaxInt
  BY <1>1, BackoffSettings, CappedIs, WidthAssumption
<1>3. /\ c.RetryJitter \in Fraction
      /\ ~Below(c.RetryJitter, 0) /\ ~Above(c.RetryJitter, Scale)
  BY BackoffSettings
<1>4. Scale \in Nat /\ Scale >= 1
  BY InputAssumption
<1>5. j \in Nat /\ j <= Scale /\ (Above(c.RetryJitter, 0) => j = c.RetryJitter.n)
  BY <1>1, <1>3, <1>4 DEF Jitter, Fraction, Below, Above
<1>6. PICK r \in 0..(Scale - 1) :
         d \in Converted(AtLeastZero(IF Above(c.RetryJitter, 0)
                                       THEN Jittered(b, c.RetryJitter.n, r) ELSE b))
  BY <1>1 DEF Duration
<1>7. PICK e : e = IF Above(c.RetryJitter, 0) THEN Jittered(b, j, r) ELSE b
  OBVIOUS
<1>8. e \in Nat /\ Scale * (e + 1) > b * (Scale - j) /\ Scale * e <= b * (Scale + j)
  <2>1. CASE Above(c.RetryJitter, 0)
    <3>1. e = Jittered(b, j, r)
      BY <1>7, <2>1
    <3> QED
      BY <1>2, <1>5, <3>1, JitteredAround
  <2>2. CASE ~Above(c.RetryJitter, 0)
    <3>1. e = b /\ b \in Nat
      BY <1>2, <1>7, <2>2
    <3>2. Scale * (b + 1) > b * (Scale - j) /\ Scale * b <= b * (Scale + j)
      <4>1. b * j \in Nat /\ b * (Scale - j) = Scale * b - b * j /\ b * (Scale + j) = Scale * b + b * j
        BY <1>4, <1>5, <3>1
      <4>2. Scale * (b + 1) = Scale * b + Scale /\ Scale * b \in Nat
        BY <1>4, <3>1
      <4> QED
        BY <1>4, <4>1, <4>2
    <3> QED
      BY <3>1, <3>2
  <2> QED
    BY <2>1, <2>2
<1>9. e <= 2 * b
  <2>1. b * (Scale + j) <= Scale * (2 * b) /\ b * (Scale + j) \in Int
    <3>1. b * j <= b * Scale /\ b * j \in Nat /\ b * Scale \in Nat
      BY <1>2, <1>4, <1>5
    <3>2. b * (Scale + j) = b * Scale + b * j /\ Scale * (2 * b) = 2 * (b * Scale)
      BY <1>2, <1>4, <1>5
    <3> QED
      BY <3>1, <3>2
  <2>2. Scale * e <= Scale * (2 * b)
    <3>1. Scale * e \in Int /\ Scale * (2 * b) \in Int
      BY <1>2, <1>4, <1>8
    <3> QED
      BY <1>8, <2>1, <3>1
  <2>3. 2 * b \in Int
    BY <1>2
  <2> QED
    BY <1>4, <1>8, <2>2, <2>3, Cancel
<1>10. d = e
  <2>1. d \in Converted(e)
    <3>1. AtLeastZero(e) = e
      BY <1>8 DEF AtLeastZero
    <3> QED
      BY <1>5, <1>6, <1>7, <3>1
  <2>2. e <= MaxInt
    BY <1>2, <1>8, <1>9
  <2> QED
    BY <2>1, <2>2 DEF Converted
<1> QED
  BY <1>1, <1>8, <1>9, <1>10

-----------------------------------------------------------------------------
(* The waits of a batch: retries happen under an accepted configuration, and  *)
(* the last two waits are values that Duration returned for their attempts.   *)
Total(n, t) ==
    /\ t \in Nat
    /\ t <= 2 * (n * config.RetryMaxBackoff)
    /\ t <= 2 * (config.RetryInitialBackoff * (Power[n] - 1))

Waits ==
    /\ attempt \in Nat \ {0}
    /\ attempt = 1 => waited = 0 /\ total = 0
    /\ attempt > 1 => at = "accepted" /\ attempt <= config.RetryAttempts
    /\ attempt > 1 => waited \in Duration(attempt - 1, config)
    /\ attempt > 2 => before \in Duration(attempt - 2, config)
    /\ Fits => Total(attempt - 1, total)

WaitInv == LoadInv /\ Waits

LEMMA WaitsLoad == Waits /\ Load /\ UNCHANGED waitVars => Waits'
<1> SUFFICES ASSUME Waits, Load, UNCHANGED waitVars PROVE Waits'
  OBVIOUS
<1>1. at # "accepted"
  BY DEF Load, ReadEnvironment, ParseArgument, Validate
<1>2. attempt = 1 /\ waited = 0 /\ total = 0
  BY <1>1 DEF Waits
<1>3. attempt' = 1 /\ waited' = 0 /\ total' = 0
  BY <1>2 DEF waitVars
<1>4. ~Fits'
  BY <1>3 DEF Fits
<1> QED
  BY <1>3, <1>4 DEF Waits

LEMMA WaitsBackOff == LoadInv /\ Waits /\ BackOff => Waits'
<1> SUFFICES ASSUME LoadInv, Waits, BackOff PROVE Waits'
  OBVIOUS
<1>1. /\ at = "accepted" /\ config' = config /\ at' = at /\ attempt \in Nat \ {0}
      /\ attempt' = attempt + 1 /\ before' = waited /\ waited' \in Duration(attempt, config)
      /\ total' = total + IF waited' > 0 THEN waited' ELSE 0
      /\ attempt < config.RetryAttempts
  BY DEF BackOff, Waits, configVars
<1>2. IsConfig(config) /\ Valid(config)
  BY <1>1, AcceptedIs DEF AcceptedConfig
<1>3. config.RetryAttempts \in Nat
  BY <1>2, BackoffSettings
<1>4. /\ attempt' \in Nat \ {0} /\ attempt' > 1 /\ attempt' <= config.RetryAttempts
      /\ attempt' - 1 = attempt /\ attempt' - 2 = attempt - 1
  BY <1>1, <1>3
<1>5. waited' \in Duration(attempt' - 1, config')
  BY <1>1, <1>4
<1>6. attempt' > 2 => before' \in Duration(attempt' - 2, config')
  <2> SUFFICES ASSUME attempt' > 2 PROVE before' \in Duration(attempt' - 2, config')
    OBVIOUS
  <2>1. attempt > 1
    BY <1>1
  <2>2. waited \in Duration(attempt - 1, config)
    BY <2>1 DEF Waits
  <2> QED
    BY <1>1, <1>4, <2>2
<1>7. ASSUME Fits' PROVE Total(attempt - 1, total)'
  <2>1. 2 * config.RetryMaxBackoff <= MaxInt
    BY <1>1, <1>7 DEF Fits
  <2>2. PICK I, M, p, n, d, b, t :
           /\ I = config.RetryInitialBackoff /\ M = config.RetryMaxBackoff
           /\ n = attempt - 1 /\ p = Power[n] /\ d = waited' /\ b = Capped(attempt, config)
           /\ t = total
    OBVIOUS
  <2>3. I \in Nat /\ I >= 1 /\ M \in Nat
    BY <1>2, <2>2, BackoffSettings
  <2>4. n \in Nat /\ n + 1 = attempt
    BY <1>1, <2>2
  <2>5. p \in Nat /\ p >= 1 /\ Power[n + 1] = 2 * p
    BY <2>2, <2>4, PowerIs, PowerRecurs
  <2>6. b \in 1..M /\ b <= I * p
    BY <1>1, <1>2, <2>2, CappedIs
  <2>7. d \in Nat /\ d <= 2 * b
    BY <1>1, <1>2, <2>1, <2>2, DurationIs
  <2>8. t \in Nat /\ t <= 2 * (n * M) /\ t <= 2 * (I * (p - 1))
    <3>1. CASE attempt = 1
      <4>1. t = 0 /\ n = 0 /\ p = 1
        BY <2>2, <3>1, PowerRecurs DEF Waits
      <4>2. n * M = 0 /\ I * (p - 1) = 0
        BY <2>3, <4>1
      <4> QED
        BY <4>1, <4>2
    <3>2. CASE attempt # 1
      <4>1. Fits
        BY <1>1, <2>1, <3>2 DEF Fits
      <4> QED
        BY <2>2, <4>1 DEF Waits, Total
    <3> QED
      BY <3>1, <3>2
  <2>9. total' = t + d
    BY <1>1, <2>2, <2>7
  <2>10. t + d <= 2 * ((n + 1) * M)
    <3>1. (n + 1) * M = n * M + M /\ n * M \in Nat
      BY <2>3, <2>4
    <3> QED
      BY <2>3, <2>6, <2>7, <2>8, <3>1
  <2>11. t + d <= 2 * (I * (2 * p - 1))
    <3>1. I * (2 * p - 1) = I * (p - 1) + I * p /\ I * p \in Nat /\ I * (p - 1) \in Nat
      BY <2>3, <2>5
    <3> QED
      BY <2>6, <2>7, <2>8, <3>1
  <2>12. t + d \in Nat
    BY <2>7, <2>8
  <2>13. attempt' - 1 = n + 1
    BY <1>4, <2>4
  <2>14. /\ total' \in Nat
         /\ total' <= 2 * ((attempt' - 1) * config'.RetryMaxBackoff)
    BY <1>1, <2>2, <2>9, <2>10, <2>12, <2>13
  <2>15. total' <= 2 * (config'.RetryInitialBackoff * (Power[attempt' - 1] - 1))
    BY <1>1, <2>2, <2>5, <2>9, <2>11, <2>13
  <2> QED
    BY <2>14, <2>15 DEF Total
<1> QED
  BY <1>1, <1>4, <1>5, <1>6, <1>7 DEF Waits

LEMMA WaitInvInit == Init => WaitInv
<1> SUFFICES ASSUME Init PROVE WaitInv
  OBVIOUS
<1>1. LoadInv
  BY LoadInit
<1>2. attempt = 1 /\ waited = 0 /\ total = 0 /\ ~Fits
  BY DEF Init, Fits
<1> QED
  BY <1>1, <1>2 DEF WaitInv, Waits

LEMMA WaitInvNext == WaitInv /\ [Next]_vars => WaitInv'
<1> SUFFICES ASSUME WaitInv, [Next]_vars PROVE WaitInv'
  OBVIOUS
<1>1. LoadInv'
  BY LoadNext DEF WaitInv
<1>2. CASE Load /\ UNCHANGED waitVars
  BY <1>1, <1>2, WaitsLoad DEF WaitInv
<1>3. CASE BackOff
  BY <1>1, <1>3, WaitsBackOff DEF WaitInv
<1>4. CASE UNCHANGED vars
  <2>1. Waits'
    BY <1>4 DEF vars, WaitInv, Waits, Fits, Total
  <2> QED
    BY <1>1, <2>1 DEF WaitInv
<1> QED
  BY <1>2, <1>3, <1>4 DEF Next

(* What the properties are about: attempts after the first, under a maximum   *)
(* that leaves room for the jitter.                                           *)
LEMMA FitsIs ==
    ASSUME WaitInv, Fits
    PROVE  /\ IsConfig(config) /\ Valid(config) /\ 2 * config.RetryMaxBackoff <= MaxInt
           /\ attempt \in Nat /\ attempt - 1 \in Nat \ {0}
           /\ attempt - 1 \in 1..config.RetryAttempts
           /\ waited \in Duration(attempt - 1, config)
<1>1. /\ attempt > 1 /\ 2 * config.RetryMaxBackoff <= MaxInt
  BY DEF Fits
<1>2. /\ attempt \in Nat \ {0} /\ at = "accepted" /\ attempt <= config.RetryAttempts
      /\ waited \in Duration(attempt - 1, config)
  BY <1>1 DEF WaitInv, Waits
<1>3. IsConfig(config) /\ Valid(config)
  BY <1>2, AcceptedIs DEF AcceptedConfig, WaitInv
<1>4. config.RetryAttempts \in Nat
  BY <1>3, BackoffSettings
<1> QED
  BY <1>1, <1>2, <1>3, <1>4

(* Each wait lies within the jitter around the initial backoff, doubled for    *)
(* each retry and cut off at the maximum, whatever the random number is.      *)
THEOREM WaitsStayAroundDoubling == Spec => []WaitsAroundDoubling
<1>1. WaitInv => WaitsAroundDoubling
  <2> SUFFICES ASSUME WaitInv, Fits PROVE WaitsAroundDoubling
    BY DEF WaitsAroundDoubling
  <2>1. Doubling[attempt - 1] = Capped(attempt - 1, config)
    BY FitsIs, DoublingIs
  <2>2. /\ waited \in Nat
        /\ Scale * (waited + 1) > Capped(attempt - 1, config) * (Scale - Jitter(config))
        /\ Scale * waited <= Capped(attempt - 1, config) * (Scale + Jitter(config))
    BY FitsIs, DurationIs
  <2> QED
    BY <2>1, <2>2 DEF WaitsAroundDoubling, Jitter
<1> QED
  BY <1>1, WaitInvInit, WaitInvNext, PTL DEF Spec

(* Below the maximum a wait is never shorter than the one before it, when the *)
(* jitter is at most a third.                                                 *)
THEOREM WaitsNeverShorten == Spec => []NeverShortensBelowMax
<1>1. WaitInv => NeverShortensBelowMax
  <2> SUFFICES ASSUME WaitInv, Fits, attempt > 2,
                      ~Above([config.RetryJitter EXCEPT !.n = 3 * @], Scale),
                      2 * Doubling[attempt - 2] <= config.RetryMaxBackoff
               PROVE  waited >= before
    BY DEF NeverShortensBelowMax
  <2>1. /\ IsConfig(config) /\ Valid(config) /\ 2 * config.RetryMaxBackoff <= MaxInt
        /\ attempt \in Nat /\ attempt - 1 \in 1..config.RetryAttempts
        /\ waited \in Duration(attempt - 1, config)
    BY FitsIs
  <2>2. /\ config.RetryAttempts \in Nat /\ config.RetryMaxBackoff \in Nat
        /\ config.RetryJitter \in Fraction
    BY <2>1, BackoffSettings
  <2>3. /\ attempt - 2 \in Nat \ {0} /\ attempt - 1 = (attempt - 2) + 1
        /\ attempt - 1 \in Nat \ {0} /\ attempt - 2 \in 1..config.RetryAttempts
    BY <2>1, <2>2
  <2>4. before \in Duration(attempt - 2, config)
    BY DEF WaitInv, Waits
  <2>5. PICK b, j, w, v, M : /\ b = Capped(attempt - 2, config) /\ j = Jitter(config)
                             /\ w = waited /\ v = before /\ M = config.RetryMaxBackoff
    OBVIOUS
  <2>6. Doubling[attempt - 2] = b
    BY <2>1, <2>3, <2>5, DoublingIs
  <2>7. b \in 1..M /\ Capped(attempt - 1, config) = 2 * b /\ M \in Nat
    <3>1. /\ b \in 1..M /\ M \in Nat
      BY <2>1, <2>2, <2>3, <2>5, CappedIs
    <3>2. Capped((attempt - 2) + 1, config) = IF 2 * b < M THEN 2 * b ELSE M
      BY <2>1, <2>3, <2>5, CappedIs
    <3> QED
      BY <2>3, <2>5, <2>6, <3>1, <3>2
  <2>8. j \in Nat /\ 3 * j <= Scale /\ Scale \in Nat /\ Scale >= 1
    <3>1. ~Below(config.RetryJitter, 0)
      BY <2>1, BackoffSettings
    <3>2. config.RetryJitter.nan = TRUE \/ config.RetryJitter.nan = FALSE
      BY <2>2 DEF Fraction
    <3>3. Scale \in Nat /\ Scale >= 1
      BY InputAssumption
    <3>4. CASE config.RetryJitter.nan
      BY <2>5, <3>3, <3>4 DEF Jitter
    <3>5. CASE ~config.RetryJitter.nan
      <4>1. config.RetryJitter.n \in Int /\ j = config.RetryJitter.n
        BY <2>2, <2>5, <3>5 DEF Fraction, Jitter
      <4>2. config.RetryJitter.n >= 0
        BY <3>1, <3>5, <4>1 DEF Below
      <4>3. LET f == [config.RetryJitter EXCEPT !.n = 3 * @]
            IN  f.n = 3 * config.RetryJitter.n /\ f.nan = config.RetryJitter.nan
        BY <2>2 DEF Fraction
      <4>4. 3 * config.RetryJitter.n <= Scale
        BY <3>3, <3>5, <4>1, <4>3 DEF Above
      <4> QED
        BY <3>3, <4>1, <4>2, <4>4
    <3> QED
      BY <3>2, <3>4, <3>5
  <2>9. w \in Nat /\ Scale * (w + 1) > (2 * b) * (Scale - j)
    BY <2>1, <2>3, <2>5, <2>7, DurationIs
  <2>10. v \in Nat /\ Scale * v <= b * (Scale + j)
    BY <2>1, <2>3, <2>4, <2>5, DurationIs
  <2>11. (2 * b) * (Scale - j) >= b * (Scale + j)
    <3>1. /\ (2 * b) * (Scale - j) = b * (2 * Scale - 2 * j)
          /\ 2 * Scale - 2 * j >= Scale + j
      BY <2>7, <2>8
    <3>2. \A x, y \in Int : x <= y => b * x <= b * y
      BY <2>7
    <3> QED
      BY <2>8, <3>1, <3>2
  <2>12. Scale * v < Scale * (w + 1)
    <3>1. /\ (2 * b) * (Scale - j) \in Int /\ b * (Scale + j) \in Int
          /\ Scale * v \in Int /\ Scale * (w + 1) \in Int
      BY <2>7, <2>8, <2>9, <2>10
    <3> QED
      BY <2>9, <2>10, <2>11, <3>1
  <2>13. v < w + 1
    BY <2>8, <2>9, <2>10, <2>12, Cancel
  <2> QED
    BY <2>5, <2>9, <2>10, <2>13
<1> QED
  BY <1>1, WaitInvInit, WaitInvNext, PTL DEF Spec

(* All waits of a batch together are bounded, by the maximum for each retry   *)
(* and by the full doubling.                                                  *)
THEOREM TotalIsBounded == Spec => []TotalBounded
<1>1. WaitInv => TotalBounded
  <2> SUFFICES ASSUME WaitInv, Fits PROVE TotalBounded
    BY DEF TotalBounded
  <2>1. /\ IsConfig(config) /\ Valid(config) /\ attempt \in Nat /\ attempt - 1 \in Nat
    BY FitsIs
  <2>2. /\ config.RetryMaxBackoff \in Nat /\ config.RetryInitialBackoff \in Nat
        /\ Power[attempt - 1] \in Nat
    BY <2>1, BackoffSettings, PowerIs
  <2>3. /\ total \in Nat
        /\ total <= 2 * ((attempt - 1) * config.RetryMaxBackoff)
        /\ total <= 2 * (config.RetryInitialBackoff * (Power[attempt - 1] - 1))
    BY DEF WaitInv, Waits, Total
  <2>4. \A x, y \in Int : 2 * (x * y) = 2 * x * y
    OBVIOUS
  <2> QED
    BY <2>1, <2>2, <2>3, <2>4 DEF TotalBounded
<1> QED
  BY <1>1, WaitInvInit, WaitInvNext, PTL DEF Spec
=============================================================================
