------------------------------ MODULE Settings -------------------------------
(***************************************************************************)
(* What minet makes of appsettings.json: LoadServerConfig (IServer.cpp)    *)
(* and LoadLoggerConfig (Log.cpp), and the capacity a worker's queue gets  *)
(* (Worker.h).  A JSON object is a function from its keys to their values; *)
(* WrongType is a value of a type that nobody asked for, on which          *)
(* json::value throws.                                                     *)
(***************************************************************************)
EXTENDS Integers, Sequences

CONSTANTS
    WrongType,
    Missing,    \* stands for a file that cannot be read
    NoJson,     \* stands for a file that is no JSON
    Width       \* the bits of an int

Empty == <<>>   \* the empty object
NoText == ""     \* the empty string

TwoTo[k \in Nat] == IF k = 0 THEN 1 ELSE 2 * TwoTo[k - 1]

\* The number of values of an int, and the largest port.
Word == TwoTo[Width]
MaxPort == 65535

\* What a server gets that is not told.
DefaultPort == 5000
DefaultCapacity == 1024

\* A port is an int, and the shifts of MakePowerOfTwo reach every bit of one.
ASSUME SettingsAssumption ==
    /\ Width \in 1 .. 32 /\ 2 * MaxPort < Word
    /\ Empty \notin {WrongType, Missing, NoJson}

\* json::value(key, default).
Value(object, key, default) == IF key \in DOMAIN object THEN object[key] ELSE default

\* An integer of JSON as an unsigned and as an int.
ToUnsigned(n) == n % Word
ToInt(n) == ((n + Word \div 2) % Word) - Word \div 2

------------------------------------------------------------------------------
(* The server *)

Port(config) == ToInt(Value(config, "port", DefaultPort))

ServerConfigThrows(config) ==
    \/ config = WrongType
    \/ \E key \in {"name", "threads", "capacity", "port"} : Value(config, key, Empty) = WrongType
    \/ Port(config) <= 0 \/ Port(config) > MaxPort

\* `processors` is what std::thread::hardware_concurrency returns, which may be 0.
LoadServerConfig(config, processors) ==
    LET threads  == ToUnsigned(Value(config, "threads", 0))
        capacity == ToUnsigned(Value(config, "capacity", 0))
    IN  [name     |-> Value(config, "name", "Basic"),
         threads  |-> IF threads = 0 THEN processors ELSE threads,
         capacity |-> IF capacity = 0 THEN DefaultCapacity ELSE capacity,
         port     |-> Port(config) % (MaxPort + 1)]

\* A number as the set of its bits, and back.
Bits(x) == {k \in 0 .. Width - 1 : (x \div TwoTo[k]) % 2 = 1}

Number(bits) ==
    LET Below[k \in 0 .. Width] ==
            IF k = 0 THEN 0 ELSE Below[k - 1] + (IF k - 1 \in bits THEN TwoTo[k - 1] ELSE 0)
    IN  Below[Width]

\* x |= x >> shift
Fill(bits, shift) == bits \cup {k \in 0 .. Width - 1 : k + shift \in bits}

FillAll(bits) == Fill(Fill(Fill(Fill(Fill(bits, 1), 2), 4), 8), 16)

\* Variant of MakePowerOfTwo: the first step is missing.
MakePowerOfTwoNext(x) == IF x = 0 THEN 1 ELSE Number(FillAll(Bits(x))) + 1

\* detail::MakePowerOfTwo.  The shift by 32 finds nothing: a capacity comes out
\* of an unsigned.
MakePowerOfTwo(x) == IF x = 0 THEN 1 ELSE Number(FillAll(Bits(x - 1))) + 1

------------------------------------------------------------------------------
(* Logging *)

\* ParseLogLevel, which ignores case.  "warn" is no level.
ParseLogLevel(level) ==
    CASE level \in {"debug", "Debug"} -> "Debug"
      [] level \in {"warning", "Warning"} -> "Warning"
      [] level \in {"error", "Error"} -> "Error"
      [] OTHER -> "Invalid"

SinkThrows(sink) == sink = WrongType \/ \E key \in {"pattern", "file"} : Value(sink, key, Empty) = WrongType

SpecificationThrows(config) ==
    \/ config = WrongType
    \/ Value(config, "pattern", Empty) = WrongType
    \/ LET sinks == Value(config, "sinks", Empty) IN
          sinks = WrongType \/ \E i \in DOMAIN sinks : SinkThrows(sinks[i])
    \/ "level" \in DOMAIN config /\ (config.level = WrongType \/ ParseLogLevel(config.level) = "Invalid")

LoggerConfigThrows(config) ==
    \/ SpecificationThrows(config)
    \/ LET loggers == Value(config, "loggers", Empty) IN
          loggers = WrongType \/ \E name \in DOMAIN loggers : SpecificationThrows(loggers[name])

\* A sink without a file is left out, one without a pattern has its logger's.
Sinks(sinks, pattern) ==
    LET Used[n \in 0 .. Len(sinks)] ==
            IF n = 0 THEN <<>>
            ELSE IF Value(sinks[n], "file", NoText) = NoText THEN Used[n - 1]
            ELSE Append(Used[n - 1], [file |-> sinks[n].file, pattern |-> Value(sinks[n], "pattern", pattern)])
    IN  Used[Len(sinks)]

\* _ParseLoggerSpecification: level and pattern come from the parent when they
\* are not given, sinks do not.
ParseSpecification(config, parent) ==
    LET pattern == Value(config, "pattern", parent.pattern) IN
    [level   |-> IF "level" \in DOMAIN config THEN ParseLogLevel(config.level) ELSE parent.level,
     pattern |-> pattern,
     sinks   |-> Sinks(Value(config, "sinks", Empty), pattern)]

NoParent == [level |-> "Debug", pattern |-> NoText, sinks |-> <<>>]

LoadLoggerConfig(config) ==
    LET default == ParseSpecification(config, NoParent)
        loggers == Value(config, "loggers", Empty)
    IN  [default |-> default,
         specifications |-> [name \in DOMAIN loggers |-> ParseSpecification(loggers[name], default)]]

==============================================================================
