--------------------------- MODULE MCRetryBackoff ---------------------------
(* Starts of the seeder for TLC.                                              *)
EXTENDS RetryBackoff, TLC

(* Texts on both sides of every check of a setting. *)
SomeValues(s) ==
    CASE s \in URLs      -> [sort : {"empty", "malformed", "foreign", "hostless", "good"},
                             slashes : {0, 2}, padded : BOOLEAN]
      [] s = "LogLevel"  -> [text : {"", "debug", "info", "bogus"}, padded : BOOLEAN,
                             upper : BOOLEAN]
      [] s \in Words     -> [text : {"", "a/b", "movies"}, padded : BOOLEAN, upper : {FALSE}]
      [] s \in Fractions -> {Parts(n) : n \in {-1, 0, Scale, Scale + 1}}
                            \cup {[nan |-> TRUE, n |-> 0]}
      [] s \in Switches  -> BOOLEAN
      [] s = "BatchSize" -> {0, 1, 100, 101}
      [] OTHER           -> {-1, 0, 1}
SomeTexts(s) == {t \in {<<"unset">>, <<"garbage">>} \cup {<<"is", v>> : v \in SomeValues(s)} :
                   IsText(s, t)}

Unset == [s \in Setting |-> <<"unset">>]
Env(f) == f @@ Unset

(* One attempt, unless the attempts are the setting looked at. *)
Once(s, text) == Env((s :> text) @@ ("RetryAttempts" :> <<"is", 1>>))

FlagsOf(s) == {<<s, t>> : t \in SomeTexts(s)} \cup {<<"unknown">>, <<"positional">>}

(* Each setting alone, given by the environment and by up to two arguments. *)
OneSetting ==
    UNION { [env : {Once(s, t) : t \in SomeTexts(s)},
             args : {<<>>} \cup {<<f>> : f \in FlagsOf(s)}]
            \cup [env : {Once(s, <<"unset">>)}, args : {<<f, g>> : f, g \in FlagsOf(s)}]
          : s \in Setting }

(* Two settings whose checks depend on each other. *)
Related == { <<"RequestTimeout", "ShutdownTimeout">>, <<"TelemetryEnabled", "OTELExporterURL">>,
             <<"TelemetryEnabled", "OTELServiceName">>, <<"TelemetryEnabled", "MetricsListenAddr">>,
             <<"MoviesCore", "BooksCore">> }
TwoSettings ==
    UNION { { [env |-> Once(p[1], t), args |-> << <<p[2], u>> >>] :
              t \in SomeTexts(p[1]), u \in SomeTexts(p[2]) } : p \in Related }

(* Limits on both sides of half the largest duration, powers of two and       *)
(* others, with every jitter.                                                 *)
Limits == {1, 2, 3, 5, 20, 50, 51, 100}
Waits ==
    { [env |-> Env(("RetryInitialBackoff" :> <<"is", initial>>) @@ ("RetryMaxBackoff" :> <<"is", max>>)
                   @@ ("RetryJitter" :> <<"is", jitter>>) @@ ("RetryAttempts" :> <<"is", n>>)),
       args |-> <<>>] :
      initial, max \in Limits, n \in {2, 5},
      jitter \in {Parts(j) : j \in 0..Scale} \cup {[nan |-> TRUE, n |-> 0]} }

Starts == OneSetting \cup TwoSettings \cup Waits
=============================================================================
