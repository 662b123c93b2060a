--------------------------- MODULE WebHostBuilder ----------------------------
(***************************************************************************)
(* minet/src/core/WebHostBuilder.cpp: settings, the server and the loggers *)
(* they ask for, the registration of handlers, and the host, which then    *)
(* dispatches (module Dispatcher).  All of it happens in one thread, and   *)
(* the calls may come in any order; a wrong one ends the process.          *)
(***************************************************************************)
EXTENDS Dispatcher, Settings

CONSTANTS
    Disks,      \* what may be on the disk: a content for each of Files
    Machines,   \* what the process may run on
    Loggers     \* the names the program asks GetLogger for

\* The second one is what "appsettings.json" becomes when MINET_CORE_ENV is set.
Files == {"appsettings.json", "appsettings.env.json", "other.json"}

IsArray(a) == a # WrongType => Len(a) \in Nat /\ DOMAIN a = 1 .. Len(a)

\* The values in a file have the types that are asked for, or WrongType.
Typed(content) ==
    LET serverSection  == Value(content, "server", Empty)
        loggingSection == Value(content, "logging", Empty)
        loggers        == Value(loggingSection, "loggers", Empty)
    IN  /\ serverSection # WrongType =>
               \A key \in {"threads", "capacity", "port"} : Value(serverSection, key, 0) \in Int \cup {WrongType}
        /\ loggingSection # WrongType => IsArray(Value(loggingSection, "sinks", Empty))
        /\ loggingSection # WrongType /\ loggers # WrongType =>
               \A name \in DOMAIN loggers :
                   loggers[name] # WrongType => IsArray(Value(loggers[name], "sinks", Empty))

ASSUME DisksAssumption ==
    \A d \in Disks, f \in Files : d[f] \in {WrongType, Missing, NoJson} \/ Typed(d[f])

\* What std::thread::hardware_concurrency() says, which may be 0; how many threads
\* can be started; how many slots of a queue there is memory for.
ASSUME MachinesAssumption == Machines \subseteq [processors : Nat, threads : Nat, memory : Nat]

VARIABLES
    disk,       \* the settings files
    env,        \* whether MINET_CORE_ENV is set
    machine,    \* what the process runs on
    stage,      \* how far the builder is
    exit,       \* how the process ended: "no", the code of exit, "threw" or "aborted"
    path,       \* _appSettingsPath
    serverConfig, \* the singletons of the container
    loggerConfig,
    server,     \* the server: its kind, its port and its pool
    cache,      \* LoggerFactory::_loggers
    registry,   \* the names spdlog knows
    denied,     \* history: the logger that could not be made; <<>> if none
    uses        \* the logger of each part

environment == <<disk, env, machine>>
logging == <<cache, registry, denied>>
builder == <<stage, exit, path, serverConfig, loggerConfig, server, logging, uses>>

hostVars == <<environment, builder, dispatcherVars>>

\* ILoggerFactory::GetDummyLogger.
Dummy == [name |-> NoText, level |-> "Disabled", sinks |-> <<>>]

\* spdlog has a logger of its own, without a name.
Init ==
    /\ disk \in Disks
    /\ env \in BOOLEAN
    /\ machine \in Machines
    /\ stage = "new" /\ exit = "no" /\ path = NoText
    /\ serverConfig = Empty /\ loggerConfig = Empty
    /\ server = Empty
    /\ cache = Empty /\ registry = {NoText} /\ denied = <<>>
    /\ uses = [part \in {"server", "dispatcher", "host"} |-> Dummy]
    /\ DispatcherInit

Exits(code) ==
    /\ exit' = code /\ stage' = "ended"

------------------------------------------------------------------------------
(* Loggers *)

\* The specification LoggerFactory::GetLogger gives a logger it has to create.
SpecificationOf(name) ==
    LET spec == IF name \in DOMAIN loggerConfig.specifications THEN loggerConfig.specifications[name]
                ELSE loggerConfig.default
    IN  [name |-> name, level |-> spec.level, sinks |-> spec.sinks]

\* Logger::_Init throws if a file cannot be opened, or if spdlog knows the name.
InitThrows(name) ==
    \/ \E i \in DOMAIN SpecificationOf(name).sinks : SpecificationOf(name).sinks[i].file = "denied"
    \/ name \in registry

\* Variant of GetLoggers: the new loggers are not stored.
GetLoggersUncached(names) ==
    /\ registry' = registry \cup names
    /\ UNCHANGED <<cache, denied>>

\* Those of `names` that are not in the cache are created and registered.
GetLoggers(names) ==
    /\ cache' = [n \in DOMAIN cache \cup names |-> IF n \in DOMAIN cache THEN cache[n] ELSE SpecificationOf(n)]
    /\ registry' = registry \cup names
    /\ UNCHANGED denied

\* One of `names` cannot be made.
GetLoggersThrows(names) == \E n \in names \ DOMAIN cache : InitThrows(n)

Denied(names) ==
    /\ \E n \in names \ DOMAIN cache : InitThrows(n) /\ denied' = <<n>>
    /\ Exits("threw")
    /\ UNCHANGED <<cache, registry>>

LoggerNamed(n) == IF n \in DOMAIN cache THEN cache[n] ELSE SpecificationOf(n)

------------------------------------------------------------------------------
(* UseAppSettings *)

UseAppSettings ==
    /\ stage = "new"
    /\ \E p \in {NoText, "appsettings.json", "other.json"} :
          path' = IF p = "appsettings.json" /\ env THEN "appsettings.env.json" ELSE p
    /\ stage' = "load"
    /\ UNCHANGED <<environment, exit, serverConfig, loggerConfig, server, logging, uses, dispatcherVars>>

UseAppSettingsAgain ==
    /\ stage \in {"ready", "built"} /\ at = "idle"
    /\ Exits("1")
    /\ UNCHANGED <<environment, path, serverConfig, loggerConfig, server, logging, uses, dispatcherVars>>

\* Without a file the defaults are used.
Config == IF path = NoText \/ disk[path] = Missing THEN Empty ELSE disk[path]

SettingsAreWrong ==
    \/ Config \in {NoJson, WrongType}
    \/ ServerConfigThrows(Value(Config, "server", Empty))
    \/ LoggerConfigThrows(Value(Config, "logging", Empty))

LoadSettings ==
    /\ stage = "load"
    /\ IF SettingsAreWrong
       THEN Exits("2") /\ UNCHANGED <<serverConfig, loggerConfig>>
       ELSE /\ serverConfig' = LoadServerConfig(Value(Config, "server", Empty), machine.processors)
            /\ loggerConfig' = LoadLoggerConfig(Value(Config, "logging", Empty))
            /\ stage' = "initialize" /\ UNCHANGED exit
    /\ UNCHANGED <<environment, path, server, logging, uses, dispatcherVars>>

Servers == {"Basic", "Threaded", "Mayhem"}

UnknownServer ==
    /\ stage = "initialize"
    /\ serverConfig.name \notin Servers
    /\ Exits("3")
    /\ UNCHANGED <<environment, path, serverConfig, loggerConfig, server, logging, uses, dispatcherVars>>

HasPool == serverConfig.name \in {"Threaded", "Mayhem"}

Slots == MakePowerOfTwo(serverConfig.capacity)

\* Variant of PoolFits: nobody looks at the number of workers.
PoolFitsUnasserted ==
    /\ serverConfig.threads <= machine.threads
    /\ serverConfig.threads * Slots <= machine.memory

PoolFits ==
    /\ serverConfig.threads > 0 /\ serverConfig.threads <= machine.threads
    /\ serverConfig.threads * Slots <= machine.memory

\* The pool's constructor does not get to its end, nor does the server's: the
\* assertion on the number of threads traps; memory is not given, or is taken back
\* with the process; a thread is not started, and the exception destroys the
\* workers, which ends the process if one of them runs already.
PoolFails ==
    /\ stage = "initialize"
    /\ HasPool /\ ~ PoolFits
    /\ \/ serverConfig.threads = 0 /\ Exits("aborted")
       \/ serverConfig.threads * Slots > machine.memory /\ \E end \in {"threw", "aborted"} : Exits(end)
       \/ /\ serverConfig.threads > machine.threads /\ serverConfig.threads * Slots <= machine.memory
          /\ Exits(IF machine.threads = 0 THEN "threw" ELSE "aborted")
    /\ UNCHANGED <<environment, path, serverConfig, loggerConfig, server, logging, uses, dispatcherVars>>

\* The server is created, with its pool; then the loggers, which may throw, then
\* RegisterDefaultHandlers.
InitializeComponents ==
    /\ stage = "initialize"
    /\ serverConfig.name \in Servers /\ (HasPool => PoolFits)
    /\ server' = [kind |-> serverConfig.name, port |-> serverConfig.port,
                  workers |-> IF HasPool THEN serverConfig.threads ELSE 0,
                  slots |-> IF HasPool THEN Slots ELSE 0]
    /\ IF GetLoggersThrows({"Server", "RequestDispatcher"})
       THEN Denied({"Server", "RequestDispatcher"}) /\ UNCHANGED <<uses, dispatcherVars>>
       ELSE /\ GetLoggers({"Server", "RequestDispatcher"})
            /\ uses' = [uses EXCEPT !["server"] = LoggerNamed("Server"),
                                    !["dispatcher"] = LoggerNamed("RequestDispatcher")]
            /\ RegisterDefaultHandlers
            /\ stage' = "ready" /\ UNCHANGED exit
    /\ UNCHANGED <<environment, path, serverConfig, loggerConfig>>

------------------------------------------------------------------------------
(* The other calls *)

\* _Preamble, for any of them.
NotInitialized ==
    /\ stage = "new"
    /\ Exits("2")
    /\ UNCHANGED <<environment, path, serverConfig, loggerConfig, server, logging, uses, dispatcherVars>>

\* Get, Post, Put, Delete and Error.
RegisterHandlers ==
    /\ stage \in {"ready", "built"}
    /\ Register
    /\ UNCHANGED <<environment, builder>>

GetLogger(name) ==
    /\ stage \in {"ready", "built"} /\ at = "idle"
    /\ IF GetLoggersThrows({name}) THEN Denied({name})
                                   ELSE GetLoggers({name}) /\ UNCHANGED <<stage, exit>>
    /\ UNCHANGED <<environment, path, serverConfig, loggerConfig, server, uses, dispatcherVars>>

\* The server is given its logger a second time.
Build ==
    /\ stage \in {"ready", "built"} /\ at = "idle"
    /\ IF GetLoggersThrows({"Server", "WebHost"})
       THEN Denied({"Server", "WebHost"}) /\ UNCHANGED uses
       ELSE /\ GetLoggers({"Server", "WebHost"})
            /\ uses' = [uses EXCEPT !["server"] = LoggerNamed("Server"), !["host"] = LoggerNamed("WebHost")]
            /\ stage' = "built" /\ UNCHANGED exit
    /\ UNCHANGED <<environment, path, serverConfig, loggerConfig, server, dispatcherVars>>

\* The callback that the host gives its server.
OnConnection ==
    /\ stage = "built"
    /\ Dispatch
    /\ UNCHANGED <<environment, builder>>

HostNext ==
    \/ UseAppSettings \/ UseAppSettingsAgain \/ LoadSettings
    \/ UnknownServer \/ PoolFails \/ InitializeComponents
    \/ NotInitialized \/ RegisterHandlers \/ Build \/ OnConnection
    \/ \E name \in Loggers : GetLogger(name)

HostSpec == Init /\ [][HostNext]_hostVars

------------------------------------------------------------------------------
(* Properties *)

Given(section, key, default) == Value(Value(Config, section, Empty), key, default)

PowersOfTwo == {TwoTo[k] : k \in 0 .. Width}

AskedCapacity == Given("server", "capacity", 0)

\* The workers that are asked for: as many as there are processors, if the
\* settings do not say.
AskedWorkers == LET n == Given("server", "threads", 0) IN IF n = 0 THEN machine.processors ELSE n

\* The machine has room for the pool that is asked for, whatever its queues are
\* rounded to.
HasRoom ==
    /\ AskedWorkers \in 1 .. Word - 1 /\ AskedWorkers <= machine.threads
    /\ AskedCapacity \in 0 .. Word - 1
    /\ AskedWorkers * (2 * IF AskedCapacity = 0 THEN DefaultCapacity ELSE AskedCapacity) <= machine.memory

\* The builder becomes ready only with the server the settings ask for, of the
\* file that was meant: its port is a port; it has the workers asked for, one at
\* least, and no more than can be started; each has a queue of the smallest power
\* of two that holds the capacity asked for ("adjusted to the nearest power of 2",
\* ThreadPool.h).  The process ends with the code of what was wrong, and is aborted
\* only if there is no room for the pool.
StartsAsConfigured ==
    /\ stage \in {"ready", "built"} =>
          /\ path # NoText /\ env => path \in {"appsettings.env.json", "other.json"}
          /\ server.kind = Given("server", "name", "Basic")
          /\ server.kind # "Basic" =>
                /\ server.workers \in 1 .. machine.threads
                /\ AskedWorkers \in 0 .. Word - 1 => server.workers = AskedWorkers
                /\ server.slots \in PowersOfTwo
                /\ AskedCapacity \in 1 .. Word - 1 =>
                       AskedCapacity <= server.slots /\ server.slots < 2 * AskedCapacity
                /\ AskedCapacity = 0 => server.slots = DefaultCapacity
                /\ server.workers * server.slots <= machine.memory
          /\ server.port \in 1 .. MaxPort
          /\ Given("server", "port", DefaultPort) \in 1 .. MaxPort => server.port = Given("server", "port", DefaultPort)
    /\ exit = "1" => server # Empty
    /\ exit = "2" => server = Empty /\ (path # NoText => disk[path] # Missing)
    /\ exit = "3" => Given("server", "name", "Basic") \notin Servers
    /\ exit = "aborted" =>
          /\ server = Empty /\ registeredErrors = <<>>
          /\ Given("server", "name", "Basic") \in {"Threaded", "Mayhem"} /\ ~ HasRoom

\* What the settings say of a logger: its own level, or that of all loggers, or
\* Debug; its own sinks, or those of all; patterns likewise.
Own(name) == Value(Given("logging", "loggers", Empty), name, Empty)
IsListed(name) == name \in DOMAIN Given("logging", "loggers", Empty)
Pattern(name) == Value(Own(name), "pattern", Given("logging", "pattern", NoText))
SinksFor(name) == Value(Own(name), "sinks", Given("logging", "sinks", Empty))

\* Its sinks are among those, and are all of them that have a file.  Whether one
\* that is listed without sinks has any is left open: the code gives it none,
\* README.md ("if one of these are missing, it will inherit") those of all.
AsConfigured(logger) ==
    LET name  == logger.name
        sinks == SinksFor(name)
    IN  /\ logger.level = ParseLogLevel(Value(Own(name), "level", Given("logging", "level", "Debug")))
        /\ \A i \in DOMAIN logger.sinks : \E j \in DOMAIN sinks :
              /\ logger.sinks[i].file = Value(sinks[j], "file", NoText) /\ logger.sinks[i].file # NoText
              /\ logger.sinks[i].pattern = Value(sinks[j], "pattern", Pattern(name))
        /\ ~ IsListed(name) \/ "sinks" \in DOMAIN Own(name) =>
              \A j \in DOMAIN sinks : Value(sinks[j], "file", NoText) # NoText =>
                  \E i \in DOMAIN logger.sinks : logger.sinks[i].file = sinks[j].file

CannotOpen(sinks) == \E i \in DOMAIN sinks : Value(sinks[i], "file", NoText) = "denied"

\* Each part of a host logs under its own name, at the level and to the sinks the
\* settings say, and spdlog, which throws on a name it knows, is given no name
\* twice although Build asks again for the logger of the server: the builder ends
\* with an exception only for want of room for the pool, or of a logger that has a
\* file which cannot be opened, or is asked for without a name.
LoggersAsConfigured ==
    /\ stage = "built" =>
          /\ uses["server"].name = "Server" /\ uses["dispatcher"].name = "RequestDispatcher"
          /\ uses["host"].name = "WebHost"
          /\ \A part \in DOMAIN uses : AsConfigured(uses[part])
    /\ \A name \in DOMAIN cache : cache[name].name = name /\ name \in registry /\ AsConfigured(cache[name])
    /\ exit = "threw" =>
          \/ server = Empty /\ denied = <<>> /\ ~ HasRoom
          \/ /\ server # Empty /\ Len(denied) = 1
             /\ denied[1] = NoText \/ CannotOpen(SinksFor(denied[1]))

==============================================================================
