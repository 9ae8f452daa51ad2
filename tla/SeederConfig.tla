---------------------------- MODULE SeederConfig ----------------------------
(* config.Load: the environment gives each setting its value or its default,  *)
(* the arguments override it one after another, and validate accepts the      *)
(* result and brings it into normal form, or rejects it.                      *)
(*                                                                            *)
(* A text is what the parsers make of it: unset, unparsable or a value.       *)
(* Durations count quarters of a second, fractions are multiples of 1/Scale   *)
(* or NaN; a word keeps what trimming and lower-casing change, a URL what     *)
(* validate asks of it, where padding stands in front.                        *)
EXTENDS Integers, Sequences

CONSTANTS
    Scale,      \* denominator of the fractions
    Inputs      \* the environments and argument lists the program is started with

Word == [text : STRING, padded : BOOLEAN, upper : BOOLEAN]
URL  == [sort : {"empty", "malformed", "foreign", "hostless", "good"},
         slashes : Nat, padded : BOOLEAN]
Fraction == [nan : BOOLEAN, n : Int]

Plain(t)    == [text |-> t, padded |-> FALSE, upper |-> FALSE]
Good        == [sort |-> "good", slashes |-> 0, padded |-> FALSE]
Parts(n)    == [nan |-> FALSE, n |-> n]
Below(f, n) == ~f.nan /\ f.n < n
Above(f, n) == ~f.nan /\ f.n > n

Default ==
    [SolrBaseURL |-> Good, MoviesCore |-> Plain("movies"), BooksCore |-> Plain("books"),
     MovieWorkers |-> 10, BookWorkers |-> 10, BatchSize |-> 10, WorkerSleep |-> 1,
     RequestTimeout |-> 20, ShutdownTimeout |-> 80, ProgressInterval |-> 40,
     LogLevel |-> Plain("info"), RetryAttempts |-> 5, RetryInitialBackoff |-> 2,
     RetryMaxBackoff |-> 20, RetryJitter |-> Parts(Scale \div 5), TelemetryEnabled |-> TRUE,
     OTELServiceName |-> Plain("solr-seeder"), OTELExporterURL |-> Good,
     OTELTraceSampleRatio |-> Parts(Scale \div 10), MetricsListenAddr |-> Plain(":9464")]

Setting == DOMAIN Default
URLs    == {"SolrBaseURL", "OTELExporterURL"}
Words   == {"MoviesCore", "BooksCore", "LogLevel", "OTELServiceName", "MetricsListenAddr"}
Fractions == {"RetryJitter", "OTELTraceSampleRatio"}
Switches  == {"TelemetryEnabled"}
Numbers   == Setting \ (URLs \cup Words \cup Fractions \cup Switches)

Value(s) == CASE s \in URLs -> URL      [] s \in Words -> Word
              [] s \in Fractions -> Fraction [] s \in Switches -> BOOLEAN
              [] s \in Numbers -> Int
(* t is a text for the setting s; every string is a word or a URL. *)
IsText(s, t) == \/ t = <<"unset">>
                \/ t = <<"garbage">> /\ s \notin Words \cup URLs
                \/ Len(t) = 2 /\ t[1] = "is" /\ t[2] \in Value(s)

(* An argument sets a flag, names none, or is not a flag at all. *)
IsArgument(arg) == \/ arg \in {<<"unknown">>, <<"positional">>}
                   \/ Len(arg) = 2 /\ arg[1] \in Setting /\ IsText(arg[1], arg[2])

ASSUME InputAssumption ==
    /\ Scale \in Nat \ {0}
    /\ \A in \in Inputs : /\ \A s \in Setting : IsText(s, in.env[s])
                          /\ in.args \in Seq({in.args[i] : i \in DOMAIN in.args})
                          /\ \A i \in DOMAIN in.args : IsArgument(in.args[i])

VARIABLES
    input,      \* what the program was started with
    at,         \* "environment", "arguments", "accepted" or "rejected"
    args,       \* the arguments not parsed yet
    config      \* cfg

configVars == <<input, at, args, config>>

ConfigInit ==
    /\ input \in Inputs
    /\ at = "environment"
    /\ args = input.args
    /\ config = Default

-----------------------------------------------------------------------------
Blank(s, v) == \/ s \in Words /\ v.text = ""
               \/ s \in URLs /\ v.sort = "empty"

(* envString, envInt, envDuration, envFloat, envBool: what is not usable is   *)
(* the default.                                                               *)
FromEnv(s, text) ==
    IF text[1] = "is" /\ ~Blank(s, text[2]) THEN text[2] ELSE Default[s]

ReadEnvironment ==
    /\ at = "environment"
    /\ config' = [s \in Setting |-> FromEnv(s, input.env[s])]
    /\ at' = "arguments"
    /\ UNCHANGED <<input, args>>

(* The value an argument gives its flag; a switch needs none to be on. *)
Sets(arg)  == /\ Len(arg) = 2
              /\ arg[2][1] = "is" \/ (arg[1] \in Switches /\ arg[2] = <<"unset">>)
Given(arg) == IF arg[2][1] = "is" THEN arg[2][2] ELSE TRUE

(* ParseArgument that goes on behind an argument that is not a flag. *)
ParseArgument_SkipsPositional ==
    /\ at = "arguments" /\ args # <<>>
    /\ LET arg == Head(args)
       IN  /\ config' = IF Sets(arg) THEN [config EXCEPT ![arg[1]] = Given(arg)] ELSE config
           /\ at' = IF Sets(arg) \/ arg = <<"positional">> THEN at ELSE "rejected"
    /\ args' = Tail(args)
    /\ UNCHANGED input

(* flag.Parse: a flag that does not parse, or has no value, is an error,      *)
(* unlike a variable of the environment; the first argument that is no flag   *)
(* ends the parsing, and what follows it is not looked at.                    *)
ParseArgument ==
    /\ at = "arguments" /\ args # <<>>
    /\ LET arg == Head(args)
       IN  /\ config' = IF Sets(arg) THEN [config EXCEPT ![arg[1]] = Given(arg)] ELSE config
           /\ at' = IF Sets(arg) \/ arg = <<"positional">> THEN at ELSE "rejected"
           /\ args' = IF arg = <<"positional">> THEN <<>> ELSE Tail(args)
    /\ UNCHANGED input

Levels == {"debug", "info", "warn", "error"}

(* Every name with a slash in it is the text "a/b". *)
ValidCore(w) == w.text \notin {"", "a/b"}

(* Valid without the check of the progress interval. *)
Valid_AnyInterval(c) ==
    /\ c.SolrBaseURL.sort = "good" /\ ~c.SolrBaseURL.padded
    /\ ValidCore(c.MoviesCore) /\ ValidCore(c.BooksCore)
    /\ c.MovieWorkers >= 1 /\ c.BookWorkers >= 1
    /\ 1 <= c.BatchSize /\ c.BatchSize <= 100
    /\ c.WorkerSleep >= 0
    /\ c.RequestTimeout > 0 /\ c.ShutdownTimeout >= c.RequestTimeout
    /\ c.LogLevel.text \in Levels /\ ~c.LogLevel.padded
    /\ c.RetryAttempts >= 1
    /\ c.RetryInitialBackoff > 0 /\ c.RetryMaxBackoff >= c.RetryInitialBackoff
    /\ \A s \in Fractions : ~Below(c[s], 0) /\ ~Above(c[s], Scale)
    /\ c.TelemetryEnabled => /\ c.OTELServiceName.text # "" /\ c.MetricsListenAddr.text # ""
                             /\ c.OTELExporterURL.sort = "good"

(* The checks of validate, made on what the user wrote: the base URL parses   *)
(* and names a host, ... *)
Valid(c) ==
    /\ c.SolrBaseURL.sort = "good" /\ ~c.SolrBaseURL.padded
    /\ ValidCore(c.MoviesCore) /\ ValidCore(c.BooksCore)
    /\ c.MovieWorkers >= 1 /\ c.BookWorkers >= 1
    /\ 1 <= c.BatchSize /\ c.BatchSize <= 100
    /\ c.WorkerSleep >= 0
    /\ c.RequestTimeout > 0 /\ c.ShutdownTimeout >= c.RequestTimeout
    /\ c.ProgressInterval > 0
    /\ c.LogLevel.text \in Levels /\ ~c.LogLevel.padded
    /\ c.RetryAttempts >= 1
    /\ c.RetryInitialBackoff > 0 /\ c.RetryMaxBackoff >= c.RetryInitialBackoff
    /\ \A s \in Fractions : ~Below(c[s], 0) /\ ~Above(c[s], Scale)
    /\ c.TelemetryEnabled => /\ c.OTELServiceName.text # "" /\ c.MetricsListenAddr.text # ""
                             /\ c.OTELExporterURL.sort = "good"

(* TrimSpace, ToLower, TrimRight "/"; the exporter's URL is cleaned only when *)
(* it is used.                                                                *)
Normal(c) ==
    [c EXCEPT !.SolrBaseURL.slashes = 0,
              !.OTELExporterURL.padded = @ /\ ~c.TelemetryEnabled,
              !.LogLevel.upper = FALSE,
              !.MoviesCore.padded = FALSE, !.BooksCore.padded = FALSE,
              !.OTELServiceName.padded = FALSE, !.MetricsListenAddr.padded = FALSE]

Validate ==
    /\ at = "arguments" /\ args = <<>>
    /\ \/ Valid(config) /\ at' = "accepted" /\ config' = Normal(config)
       \/ ~Valid(config) /\ at' = "rejected" /\ UNCHANGED config
    /\ UNCHANGED <<input, args>>

Load == ReadEnvironment \/ ParseArgument \/ Validate

LoadSpec == ConfigInit /\ [][Load]_configVars

(* The level the logger gets. *)
SlogLevel(c) == IF c.LogLevel.text \in Levels \ {"info"} THEN c.LogLevel.text ELSE "info"

-----------------------------------------------------------------------------
(* What is accepted satisfies what the rest of the program takes for granted  *)
(* without looking again: the channels and pools are not empty (runner.go:44, *)
(* 101), a batch is posted at least once (worker.go:141), no ticker and no    *)
(* deadline is set to nothing (runner.go:187, worker.go:142, main.go:34),     *)
(* the drain outlasts a request, the names make URLs and labels, the logger   *)
(* has the level that was asked for; and validate would accept it again and   *)
(* change nothing, although it checks before it trims (config.go:118-230).    *)
AcceptedUsable ==
    at = "accepted" =>
        /\ \A s \in {"MovieWorkers", "BookWorkers", "BatchSize", "RetryAttempts"} :
              config[s] \in Nat \ {0}
        /\ config.BatchSize <= 100
        /\ config.ProgressInterval > 0
        /\ 0 < config.RequestTimeout /\ 0 < config.ShutdownTimeout
        /\ config.RequestTimeout <= config.ShutdownTimeout
        /\ 0 < config.RetryInitialBackoff
        /\ config.RetryInitialBackoff <= config.RetryMaxBackoff
        /\ \A s \in {"MoviesCore", "BooksCore"} :
              config[s].text \notin {"", "a/b"} /\ ~config[s].padded
        /\ config.SolrBaseURL = Good
        /\ SlogLevel(config) = config.LogLevel.text
        /\ Valid(config) /\ Normal(config) = config

(* The arguments the flag package looks at. *)
Flags ==
    LET Stops(i) == \A j \in 1..i : input.args[j] # <<"positional">>
    IN  {i \in DOMAIN input.args : Stops(i)}

(* The value that was asked for: the last flag that sets it, or else what the *)
(* environment says, or else the default.                                     *)
Asked(s) ==
    LET setting == {i \in Flags : input.args[i][1] = s}
        text    == input.env[s]
    IN  IF setting # {}
          THEN Given(input.args[CHOOSE i \in setting : \A j \in setting : j <= i])
        ELSE IF text \in {<<"unset">>, <<"garbage">>} \/ Blank(s, text[2])
          THEN Default[s]
        ELSE text[2]

(* Each accepted setting has the value that was asked for, up to its normal   *)
(* form, whatever else was given; a flag that cannot be read is refused and   *)
(* never replaced by a default (config.go:60-116).                            *)
AskedIsKept ==
    at = "accepted" => /\ \A i \in Flags : Sets(input.args[i])
                       /\ config = Normal([s \in Setting |-> Asked(s)])

(* What validate says it refuses: "OTEL trace sample ratio must be between 0  *)
(* and 1" (config.go:202).                                                    *)
RatioInRange ==
    at = "accepted" => LET ratio == config.OTELTraceSampleRatio
                       IN  ~ratio.nan /\ 0 <= ratio.n /\ ratio.n <= Scale
=============================================================================
