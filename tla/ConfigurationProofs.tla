------------------------ MODULE ConfigurationProofs ------------------------
(***************************************************************************)
(* Proofs about Configuration for every environment, every number in it    *)
(* and every width of the integers.                                        *)
(*                                                                         *)
(* ConfigInv says where the configuration comes from: once New returns it  *)
(* is what New makes of the environment, and it has passed every check     *)
(* that the service has gone through so far.                               *)
(***************************************************************************)
EXTENDS Configuration, TLAPS

\* The checks of the handlers' constructors.
Buildable(c) ==
  /\ c.mode \notin {"afterburn", "other"}
  /\ c.mode = "http" => c.upstream \notin {"empty", "malformed"}
  /\ c.mode = "static" => c.staticPath # "empty"

ConfigInv ==
  /\ env \in Envs
  /\ stage \in {"start", "loaded", "serving", "exited"}
  /\ config \in {Zero, Loaded}
  /\ stage \in {"loaded", "serving"} => config = Loaded /\ ~Invalid(Loaded)
  /\ stage = "serving" => Buildable(config)

\* The assumption, for the provers: half of the width on either side of zero.
LEMMA Width ==
  /\ Modulus \in Nat \ {0} /\ Modulus \div 2 \in Nat /\ 2 * (Modulus \div 2) = Modulus
  /\ Smallest \in Int /\ Largest \in Int /\ Smallest <= 0 /\ Largest > 0
  /\ Largest - Smallest + 1 = Modulus
<1>1. Modulus \in Nat \ {0} /\ Modulus % 2 = 0 /\ Second \in 1..Largest
  BY ConfigurationAssumption
<1>2. Modulus \div 2 \in Nat /\ 2 * (Modulus \div 2) = Modulus
  BY <1>1
<1>3. QED
  BY <1>1, <1>2 DEF Largest, Smallest

\* Wrap stays within the width, and changes nothing that fits it.
LEMMA WrapFits ==
  ASSUME NEW n \in Int
  PROVE  /\ Wrap(n) \in Smallest..Largest
         /\ n \in Smallest..Largest => Wrap(n) = n
<1> DEFINE m == n - Smallest
<1>1. m \in Int /\ Modulus \in Int /\ Modulus > 0
  BY Width
<1> HIDE DEF m
<1>2. m % Modulus \in 0..(Modulus - 1)
  BY <1>1
<1>3. m \in 0..(Modulus - 1) => m % Modulus = m
  BY <1>1
<1>4. QED
  BY <1>1, <1>2, <1>3, Width DEF m, Wrap

\* A duration of the configuration fits the width whatever the text says, and is
\* the default, or what the text says of it, or the rest of an overflow.
LEMMA DurationSays ==
  ASSUME NEW t \in Text, NEW default \in Smallest..Largest
  PROVE  /\ GetDuration(t, default) \in Smallest..Largest
         /\ \/ GetDuration(t, default) = default
            \/ Says(t, GetDuration(t, default)) \/ Overflows(t)
<1>1. /\ t.n \in Int /\ t.kind \in {"unset", "empty", "int", "word", "duration"}
      /\ t.kind = "duration" => t.n \in Smallest..Largest
  BY DEF Text
<1>2. Smallest \in Int /\ Largest \in Int /\ Smallest <= 0
  BY Width
<1>3. CASE t.kind = "int" /\ AtoiOK(t) /\ t.n >= 0
  <2>1. Second \in Nat /\ t.n \in Nat
    BY <1>1, <1>2, <1>3, ConfigurationAssumption
  <2>2. t.n * Second \in Nat
    BY <2>1
  <2>3. GetDuration(t, default) = Wrap(t.n * Second)
    BY <1>3 DEF GetDuration, ParseIntOrDurationValue
  <2>4. t.n * Second \in Smallest..Largest \/ t.n * Second > Largest
    BY <1>2, <2>2
  <2>5. GetDuration(t, default) \in Smallest..Largest
        /\ (t.n * Second \in Smallest..Largest => GetDuration(t, default) = t.n * Second)
    BY <2>2, <2>3, WrapFits
  <2>6. QED
    BY <1>3, <2>4, <2>5 DEF Says, Overflows
<1>4. CASE t.kind = "duration"
  <2>1. GetDuration(t, default) = t.n
    BY <1>4 DEF GetDuration, ParseIntOrDurationValue, AtoiOK, ParseDurationOK
  <2>2. QED
    BY <1>1, <1>4, <2>1 DEF Says
<1>5. CASE ~(AtoiOK(t) /\ t.n >= 0) /\ t.kind # "duration"
  BY <1>5 DEF GetDuration, ParseIntOrDurationValue, ParseDurationOK
<1>6. QED
  BY <1>3, <1>4, <1>5 DEF AtoiOK

\* An integer of the configuration fits the width.
LEMMA IntFits ==
  ASSUME NEW t \in Text, NEW default \in Smallest..Largest
  PROVE  GetInt(t, default) \in Smallest..Largest
<1>1. t.n \in Int
  BY DEF Text
<1>2. Smallest \in Int /\ Largest \in Int /\ Smallest <= Largest
  BY Width
<1>3. Atoi(t) \in Smallest..Largest
  BY <1>1, <1>2, Width DEF Atoi
<1>4. QED
  BY <1>3 DEF GetInt

\* What the assumption says of the environment.
LEMMA EnvType ==
  ASSUME env \in Envs
  PROVE  /\ env \in Env
         /\ env.write_timeout \in Text /\ env.read_timeout \in Text
         /\ env.exec_timeout \in Text /\ env.healthcheck_interval \in Text
         /\ env.port \in Text /\ env.max_inflight \in Text /\ env.log_buffer_size \in Text
         /\ env.fprocess \in Words /\ env.function_process \in Words
         /\ env.upstream_url \in URLs /\ env.http_upstream_url \in URLs
         /\ env.static_path \in Words /\ env.mode \in Modes \cup {"", "other"}
<1>1. env \in Env
  BY ConfigurationAssumption
<1>2. QED
  BY <1>1 DEF Env

\* What New makes of an environment has the types of WatchdogConfig.
LEMMA LoadedType ==
  ASSUME env \in Envs
  PROVE  /\ Loaded.writeTimeout \in Smallest..Largest
         /\ Loaded.readTimeout \in Smallest..Largest
         /\ Loaded.execTimeout \in Smallest..Largest
         /\ Loaded.healthcheckInterval \in Smallest..Largest
         /\ Loaded.port \in Smallest..Largest /\ Loaded.maxInflight \in Smallest..Largest
         /\ Loaded.logBufferSize \in Smallest..Largest
         /\ Loaded.mode \in Modes \cup {"other"}
         /\ Loaded.process \in {"empty", "given"}
         /\ Loaded.upstream \in {"empty", "given", "malformed"}
         /\ Loaded.staticPath \in {"empty", "given"}
<1>1. /\ DefaultTimeout \in Smallest..Largest /\ DefaultPort \in Smallest..Largest
      /\ MaxTokenSize \in Smallest..Largest /\ 0 \in Smallest..Largest
  BY Width, ConfigurationAssumption
<1>2. Loaded.writeTimeout \in Smallest..Largest
  BY <1>1, EnvType, DurationSays DEF Loaded
<1>3. Loaded.readTimeout \in Smallest..Largest /\ Loaded.execTimeout \in Smallest..Largest
  BY <1>1, EnvType, DurationSays DEF Loaded
<1>4. Loaded.healthcheckInterval \in Smallest..Largest
  BY <1>2, EnvType, DurationSays DEF Loaded
<1>5. /\ Loaded.port \in Smallest..Largest /\ Loaded.maxInflight \in Smallest..Largest
      /\ Loaded.logBufferSize \in Smallest..Largest
  BY <1>1, EnvType, IntFits DEF Loaded
<1>6. /\ Loaded.mode \in Modes \cup {"other"}
      /\ Loaded.process \in {"empty", "given"}
      /\ Loaded.upstream \in {"empty", "given", "malformed"}
      /\ Loaded.staticPath \in {"empty", "given"}
  BY EnvType DEF Loaded, WatchdogModeConst, Alias, Words, URLs, Modes
<1>7. QED
  BY <1>2, <1>3, <1>4, <1>5, <1>6

\* The inductive invariant holds of every behaviour.
LEMMA Invariance == Spec => []ConfigInv
<1>1. Init => ConfigInv
  BY DEF Init, ConfigInv
<1>2. ConfigInv /\ [Next]_vars => ConfigInv'
  <2> SUFFICES ASSUME ConfigInv, [Next]_vars PROVE ConfigInv'
    OBVIOUS
  <2>1. ASSUME env' = env PROVE Loaded' = Loaded /\ (Invalid(Loaded)' <=> Invalid(Loaded))
    BY <2>1 DEF Loaded, Invalid
  <2>2. CASE New
    BY <2>1, <2>2 DEF New, ConfigInv
  <2>3. CASE BuildRequestHandler
    BY <2>1, <2>3 DEF BuildRequestHandler, ConfigInv, Buildable
  <2>4. CASE UNCHANGED vars
    BY <2>1, <2>4 DEF vars, ConfigInv, Buildable
  <2>5. QED
    BY <2>2, <2>3, <2>4 DEF Next
<1>3. QED
  BY <1>1, <1>2, PTL DEF Spec

\* Whatever the environment says, every number of the configuration has the width
\* of its type, and every option is one that the modes know.
THEOREM TypeCorrect == Spec => []TypeOK
<1>1. ConfigInv => TypeOK
  <2> SUFFICES ASSUME ConfigInv PROVE TypeOK
    OBVIOUS
  <2>1. env \in Envs /\ stage \in {"start", "loaded", "serving", "exited"}
        /\ config \in {Zero, Loaded} /\ env \in Env
    BY EnvType DEF ConfigInv
  <2>2. CASE config = Loaded
    BY <2>1, <2>2, LoadedType DEF TypeOK, Durations, Ints, URLs, Words
  <2>3. CASE config = Zero
    <3>1. 0 \in Smallest..Largest
      BY Width
    <3>2. /\ config.writeTimeout = 0 /\ config.readTimeout = 0 /\ config.execTimeout = 0
          /\ config.healthcheckInterval = 0 /\ config.port = 0 /\ config.maxInflight = 0
          /\ config.logBufferSize = 0
      BY <2>3 DEF Zero
    <3>3. /\ config.mode = "" /\ config.process = "empty" /\ config.upstream = "empty"
          /\ config.staticPath = "empty"
      BY <2>3 DEF Zero
    <3>4. QED
      BY <2>1, <3>1, <3>2, <3>3 DEF TypeOK, Durations, Ints, URLs, Words
  <2>4. QED
    BY <2>1, <2>2, <2>3
<1>2. QED
  BY <1>1, Invariance, PTL

\* No service is without a limit for a variable that is missing or malformed: it
\* was asked for, or the seconds overflowed.
THEOREM NoLimitAsked == Spec => []NoLimitOnlyIfAsked
<1>1. ConfigInv => NoLimitOnlyIfAsked
  <2> SUFFICES ASSUME ConfigInv, stage = "serving", NEW f \in Durations, config[f] <= 0
               PROVE  \E t \in Origin(f) : Says(t, config[f]) \/ Overflows(t)
    BY DEF NoLimitOnlyIfAsked
  <2>1. config = Loaded /\ env \in Envs
    BY DEF ConfigInv
  <2>2. DefaultTimeout \in Smallest..Largest /\ ~(DefaultTimeout <= 0)
    BY Width, ConfigurationAssumption
  <2>3. ASSUME config.writeTimeout <= 0
        PROVE  Says(env.write_timeout, config.writeTimeout) \/ Overflows(env.write_timeout)
    BY <2>1, <2>2, <2>3, EnvType, DurationSays DEF Loaded
  <2>4. CASE f = "writeTimeout"
    BY <2>3, <2>4 DEF Origin
  <2>5. CASE f = "readTimeout"
    BY <2>1, <2>2, <2>5, EnvType, DurationSays DEF Loaded, Origin
  <2>6. CASE f = "execTimeout"
    BY <2>1, <2>2, <2>6, EnvType, DurationSays DEF Loaded, Origin
  <2>7. CASE f = "healthcheckInterval"
    <3>1. config.writeTimeout \in Smallest..Largest
      BY <2>1, LoadedType
    <3>2. config.healthcheckInterval = GetDuration(env.healthcheck_interval, config.writeTimeout)
      BY <2>1 DEF Loaded
    <3>3. Origin(f) = {env.healthcheck_interval, env.write_timeout}
      BY <2>7 DEF Origin
    <3>4. config[f] = config.healthcheckInterval
      BY <2>7
    <3>5. \/ config[f] = config.writeTimeout
          \/ Says(env.healthcheck_interval, config[f]) \/ Overflows(env.healthcheck_interval)
      BY <2>1, <3>1, <3>2, <3>4, EnvType, DurationSays
    <3>6. CASE config[f] = config.writeTimeout
      BY <2>3, <3>3, <3>6
    <3>7. QED
      BY <3>3, <3>5, <3>6
  <2>8. QED
    BY <2>4, <2>5, <2>6, <2>7 DEF Durations
<1>2. QED
  BY <1>1, Invariance, PTL

\* No service lacks the process, upstream or static path that its mode serves with, in
\* any environment.  Nothing is said of the handler of mode=inproc, which the program
\* that embeds the watchdog sets and the stock main leaves nil.
THEOREM Serves == Spec => []ServesOnlyWhatItCan
<1>1. ConfigInv => ServesOnlyWhatItCan
  <2> SUFFICES ASSUME ConfigInv, stage = "serving" PROVE ServesOnlyWhatItCan
    BY DEF ServesOnlyWhatItCan
  <2>1. config = Loaded /\ ~Invalid(Loaded) /\ env \in Envs /\ Buildable(config)
    BY DEF ConfigInv
  <2>2. /\ config.mode \in Modes \cup {"other"}
        /\ config.process \in {"empty", "given"}
        /\ config.upstream \in {"empty", "given", "malformed"}
        /\ config.staticPath \in {"empty", "given"}
    BY <2>1, LoadedType
  <2>3. config.process = "empty" => ~NeedsProcess(config.mode)
    BY <2>1 DEF Invalid
  <2>4. QED
    BY <2>1, <2>2, <2>3 DEF ServesOnlyWhatItCan, Buildable, NeedsProcess, Modes
<1>2. QED
  BY <1>1, Invariance, PTL

=============================================================================
