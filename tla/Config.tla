------------------------------- MODULE Config -------------------------------
(***************************************************************************)
(* How the server and the agent arrive at their settings: defaults, then   *)
(* the JSON file, then the flags of the command line, then the             *)
(* environment.                                                            *)
(*                                                                         *)
(* A source is a function whose domain is the settings it gives.  A launch *)
(* is what a process finds when it starts: the flag -c and the variable    *)
(* CONFIG, the files they may name, the flags that were passed and the     *)
(* variables that are set.  Text matters as far as it is empty (Blank) or  *)
(* cannot be parsed (Bad); an interval in a file is a number and a unit.   *)
(***************************************************************************)
EXTENDS Integers

CONSTANTS
  Blank,        \* the empty string
  Bad,          \* text that cannot be parsed, or a file that cannot be read
  DefaultPath   \* ./tmp/data

ASSUME TextAssumption == Blank # Bad /\ DefaultPath # Blank

Nothing == [s \in {} |-> Blank]

\* What both programs know; the address is left out, nothing depends on it.
ServerDefaults ==
  [storeInterval |-> 300, path |-> DefaultPath, restore |-> FALSE, dsn |-> Blank,
   cryptoKey |-> Blank, auditFile |-> Blank, auditUrl |-> Blank, subnet |-> Blank,
   grpc |-> Blank, cert |-> Blank, grpcKey |-> Blank]

AgentDefaults ==
  [reportInterval |-> 10, pollInterval |-> 2, rateLimit |-> 1, cryptoKey |-> Blank,
   grpc |-> Blank, cert |-> Blank]

-----------------------------------------------------------------------------
\* CONFIG wins over -c and -config, unless it is empty.
ConfigPath(l) == IF l.configEnv # Blank THEN l.configEnv ELSE l.configFlag

File(l) == IF ConfigPath(l) = Blank THEN Nothing ELSE l.files[ConfigPath(l)]

\* Only the file gives intervals as text, "10s", "300ms" or "10".
Intervals == {"storeInterval", "reportInterval", "pollInterval"}

\* int(d / time.Second) drops what is less than a second.
ParseIntervalSeconds(text) ==
  IF text.unit = "ms"
  THEN IF text.n >= 0 THEN text.n \div 1000 ELSE -((-text.n) \div 1000)
  ELSE text.n

FromFile(given) ==
  [s \in DOMAIN given |->
     IF s \in Intervals THEN ParseIntervalSeconds(given[s]) ELSE given[s]]

\* Assign, Bindings.Apply and env.Parse: what is given replaces what was there.
Overlay(cfg, given) ==
  [s \in DOMAIN cfg |-> IF s \in DOMAIN given THEN given[s] ELSE cfg[s]]

\* Mutant of NonBlank: a variable that is set to nothing counts.
AnySet(env) == env

\* env.Parse takes a variable that is set to nothing for one that is not set.
NonBlank(env) == [v \in {x \in DOMAIN env : env[x] # Blank} |-> env[v]]

\* STORE_FILE, which may be empty, counts if FILE_STORAGE_PATH is not set at all.
ApplyStoreFile(cfg, env) ==
  IF "path" \notin DOMAIN env /\ "storeFile" \in DOMAIN env
  THEN [cfg EXCEPT !.path = env.storeFile]
  ELSE cfg

\* Mutant of Merged: the environment before the flags.
MergedFlagsLast(defaults, l) ==
  Overlay(Overlay(Overlay(defaults, FromFile(File(l))), NonBlank(l.env)), l.flags)

Merged(defaults, l) ==
  Overlay(Overlay(Overlay(defaults, FromFile(File(l))), l.flags), NonBlank(l.env))

ServerConfig(l) == ApplyStoreFile(Merged(ServerDefaults, l), l.env)

AgentConfig(l) == Merged(AgentDefaults, l)

\* Mutant of LoadFails: the error of env.Parse is ignored.
LoadIgnoresEnv(l) ==
  \/ \E s \in DOMAIN l.flags : l.flags[s] = Bad
  \/ File(l) = Bad
  \/ \E s \in DOMAIN File(l) : File(l)[s] = Bad

\* An unknown flag, a number that is none, a file that is not there or not JSON.
LoadFails(l) ==
  \/ \E s \in DOMAIN l.flags : l.flags[s] = Bad
  \/ File(l) = Bad
  \/ \E s \in DOMAIN File(l) : File(l)[s] = Bad
  \/ \E v \in DOMAIN l.env : l.env[v] = Bad

-----------------------------------------------------------------------------
(* The order of precedence, said of one setting instead of all sources *)

\* From the weakest to the strongest.
Sources(defaults, l) == <<defaults, FromFile(File(l)), l.flags, l.env>>

\* What the strongest source that gives s says; an empty variable gives nothing.
Given(defaults, l, s) ==
  LET sources == Sources(defaults, l)
      giving  == {i \in 1 .. 4 : s \in DOMAIN sources[i]
                                  /\ (i = 4 => sources[i][s] # Blank)}
  IN  sources[CHOOSE i \in giving : \A j \in giving : j <= i][s]
=============================================================================
