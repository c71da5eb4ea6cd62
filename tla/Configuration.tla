--------------------------- MODULE Configuration ---------------------------
(***************************************************************************)
(* From the environment to a service: config.New (config/config.go and     *)
(* config_modes.go), which main calls, and buildRequestHandler, which      *)
(* Watchdog.Start calls with its result (pkg/watchdog.go).                 *)
(*                                                                         *)
(* The text of a variable is abstracted to what the parsers tell apart:    *)
(* unset, empty, an integer, a duration with a unit, another word.  Int    *)
(* and time.Duration have the same width; one second is Second units.      *)
(***************************************************************************)
EXTENDS Integers

CONSTANTS
  Envs,            \* the environments to explore
  Modulus,         \* 2^64
  Second,          \* time.Second
  DefaultTimeout,  \* thirty seconds
  DefaultPort,     \* 8080
  MaxTokenSize     \* bufio.MaxScanTokenSize

\* Int and Duration hold the integers from Smallest to Largest.
Largest == Modulus \div 2 - 1
Smallest == -(Modulus \div 2)
Wrap(n) == ((n - Smallest) % Modulus) + Smallest

\* A duration that does not fit is an error to time.ParseDuration, as a word is.
Text == [kind : {"unset", "empty", "int", "word"}, n : Int]
        \cup [kind : {"duration"}, n : Smallest..Largest]
Words == {"unset", "empty", "given"}
URLs == Words \cup {"malformed"}
Modes == {"streaming", "serializing", "http", "static", "inproc", "afterburn"}

\* Of function_process and static_path nothing matters but whether they are there;
\* an upstream URL is also parsed.
Env == [write_timeout : Text, read_timeout : Text, exec_timeout : Text,
        healthcheck_interval : Text, port : Text, max_inflight : Text, log_buffer_size : Text,
        fprocess : Words, function_process : Words,
        upstream_url : URLs, http_upstream_url : URLs, static_path : Words,
        mode : Modes \cup {"", "other"}]

ASSUME ConfigurationAssumption ==
  /\ Envs \subseteq Env
  /\ Modulus \in Nat \ {0} /\ Modulus % 2 = 0
  /\ Second \in 1..Largest
  /\ DefaultTimeout \in 1..Largest /\ DefaultPort \in 1..Largest
  /\ MaxTokenSize \in 0..Largest

VARIABLES
  env,     \* the environment; never changed
  stage,   \* start, loaded, serving or exited
  config   \* WatchdogConfig, the zero value before New

vars == <<env, stage, config>>

\* The zero value of WatchdogConfig.
Zero == [mode |-> "", process |-> "empty", upstream |-> "empty", staticPath |-> "empty",
         writeTimeout |-> 0, readTimeout |-> 0, execTimeout |-> 0, healthcheckInterval |-> 0,
         port |-> 0, maxInflight |-> 0, logBufferSize |-> 0]

Init == env \in Envs /\ stage = "start" /\ config = Zero

-----------------------------------------------------------------------------
(* The parsers. *)

\* strconv.Atoi: out of range it is an error, and the nearest value.
AtoiOK(t) == t.kind = "int" /\ t.n \in Smallest..Largest
Atoi(t) ==
  IF t.kind # "int" THEN 0 ELSE
  CASE t.n > Largest     -> Largest
    [] t.n < Smallest    -> Smallest
    [] OTHER             -> t.n

\* time.ParseDuration takes no number without a unit, except the 0 that Atoi takes.
ParseDurationOK(t) == t.kind = "duration"

\* Mutant: as getInt does, what cannot be parsed is 0.
ParseOrZero(t, fallback) ==
  CASE AtoiOK(t) /\ t.n >= 0 -> Wrap(t.n * Second)
    [] OTHER                 -> IF ParseDurationOK(t) THEN t.n ELSE 0

\* Mutant: the product is not of the width of a Duration.
ParseUnwrapped(t, fallback) ==
  CASE AtoiOK(t) /\ t.n >= 0 -> t.n * Second
    [] OTHER                 -> IF ParseDurationOK(t) THEN t.n ELSE fallback

ParseIntOrDurationValue(t, fallback) ==
  CASE AtoiOK(t) /\ t.n >= 0 -> Wrap(t.n * Second)
    [] OTHER                 -> IF ParseDurationOK(t) THEN t.n ELSE fallback

GetDuration(t, default) ==
  IF t.kind = "unset" THEN default ELSE ParseIntOrDurationValue(t, default)

\* The error of Atoi is ignored: the default is for an unset variable only.
GetInt(t, default) == IF t.kind = "unset" THEN default ELSE Atoi(t)

\* The second of two names for a variable wins if it is set, even if it is empty.
Alias(first, second) ==
  CASE second # "unset"                      -> second
    [] second = "unset" /\ first # "unset"   -> first
    [] OTHER                                 -> "empty"

WatchdogModeConst(mode) == IF mode = "" THEN "streaming" ELSE mode

-----------------------------------------------------------------------------
(* The steps of main. *)

Loaded ==
  LET write == GetDuration(env.write_timeout, DefaultTimeout) IN
  [mode |-> WatchdogModeConst(env.mode),
   process |-> Alias(env.fprocess, env.function_process),
   upstream |-> Alias(env.upstream_url, env.http_upstream_url),
   staticPath |-> IF env.static_path = "unset" THEN "given" ELSE env.static_path,
   writeTimeout |-> write,
   readTimeout |-> GetDuration(env.read_timeout, DefaultTimeout),
   execTimeout |-> GetDuration(env.exec_timeout, DefaultTimeout),
   healthcheckInterval |-> GetDuration(env.healthcheck_interval, write),
   port |-> GetInt(env.port, DefaultPort),
   maxInflight |-> GetInt(env.max_inflight, 0),
   logBufferSize |-> GetInt(env.log_buffer_size, MaxTokenSize)]

\* Mutant: the modes that need no process are the other two.
NeedsProcessButHTTP(mode) == mode \notin {"http", "static"}

NeedsProcess(mode) == mode \notin {"static", "inproc"}

\* The errors of New, each of which ends main with status 1.
Invalid(c) ==
  \/ env.log_buffer_size.kind # "unset" /\ ~AtoiOK(env.log_buffer_size)
  \/ c.writeTimeout = 0
  \/ c.process = "empty" /\ NeedsProcess(c.mode)

New ==
  /\ stage = "start"
  /\ IF Invalid(Loaded)
       THEN stage' = "exited" /\ UNCHANGED config
       ELSE stage' = "loaded" /\ config' = Loaded
  /\ UNCHANGED env

\* A panic for a mode without a handler, log.Fatal for one that lacks its option.
BuildRequestHandler ==
  /\ stage = "loaded"
  /\ stage' = IF \/ config.mode \in {"afterburn", "other"}
                 \/ config.mode = "http" /\ config.upstream \in {"empty", "malformed"}
                 \/ config.mode = "static" /\ config.staticPath = "empty"
              THEN "exited" ELSE "serving"
  /\ UNCHANGED <<env, config>>

Next == New \/ BuildRequestHandler

Spec == Init /\ [][Next]_vars

-----------------------------------------------------------------------------
(* Properties. *)

Durations == {"writeTimeout", "readTimeout", "execTimeout", "healthcheckInterval"}
Ints == {"port", "maxInflight", "logBufferSize"}

\* Every variable has its type; numbers fit their width.
TypeOK ==
  /\ env \in Env
  /\ stage \in {"start", "loaded", "serving", "exited"}
  /\ \A f \in Durations \cup Ints : config[f] \in Smallest..Largest
  /\ config.mode \in Modes \cup {"", "other"}
  /\ \A f \in {"process", "upstream", "staticPath"} : config[f] \in URLs \ {"unset"}

\* What a text says, in unbounded arithmetic, of a duration that may be given in
\* seconds; overflow is the one thing that New does not keep.
Says(t, d) == (t.kind = "int" /\ t.n >= 0 /\ d = t.n * Second) \/ (t.kind = "duration" /\ d = t.n)
Overflows(t) == t.kind = "int" /\ t.n * Second > Largest

\* The variable that a duration comes from; an interval that is not set, or not
\* well written, is the write timeout.
Origin(f) ==
  CASE f = "writeTimeout" -> {env.write_timeout}
    [] f = "readTimeout"  -> {env.read_timeout}
    [] f = "execTimeout"  -> {env.exec_timeout}
    [] f = "healthcheckInterval" -> {env.healthcheck_interval, env.write_timeout}

\* A service whose timeout is zero or negative, which turns the timeout off and
\* for the interval makes shutdown hang (Lifecycle), was asked for that in the
\* environment: it is never the result of a variable that is missing or malformed.
\* Excepted is a number of seconds that overflows, which may come out as anything.
NoLimitOnlyIfAsked ==
  stage = "serving" =>
    \A f \in Durations : config[f] <= 0 =>
      \E t \in Origin(f) : Says(t, config[f]) \/ Overflows(t)

\* What starts to serve has the process, upstream or static path its mode serves with,
\* whichever of New and the handlers' constructors checks it.  Nothing is said of the
\* handler of mode=inproc: the program that embeds the watchdog sets it, nobody checks
\* it, and the stock main leaves it nil.
ServesOnlyWhatItCan ==
  stage = "serving" =>
    /\ config.mode \in Modes \ {"afterburn"}
    /\ config.mode \in {"streaming", "serializing", "http"} => config.process = "given"
    /\ config.mode = "http" => config.upstream = "given"
    /\ config.mode = "static" => config.staticPath = "given"

\* The comment on getInt: a variable that is missing or malformed has its default.
\* Violated: the error of Atoi is dropped, and the port is 0, any free port.
MalformedPortIsDefault ==
  stage = "serving" /\ env.port.kind \in {"unset", "empty", "word"} => config.port = DefaultPort

=============================================================================
