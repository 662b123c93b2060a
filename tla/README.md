# minet-core: TLA+ models and proofs

minet-core is an HTTP server library in C++ with three servers (`Basic`,
`Threaded`, `Mayhem`), a lock-free queue, a thread pool with work stealing, two
HTTP parsers and a dispatcher. This directory models its concurrent core, its
three servers, its parsers, its streams, its dispatcher and the builder of the
host in TLA+, and checks small instances with TLC. With TLAPS it proves every
safety property of these runs for all values of the constants: any number of
threads, connections, tasks and handlers, any size of a buffer, inputs of any length,
any settings files.

Line numbers refer to the files of the repository; `PROJECT.json` maps every
definition to the lines it stands for.

## 1. The system

| Part | Code (under `minet/`) | State | Operations |
|---|---|---|---|
| Queue | `src/threading/Queue.h` | two counters, slots with an index and an element | `Push`, `Pop`, each a loop of atomic operations |
| Workers and pool | `src/threading/Worker.h`, `ThreadPool.{h,cpp}` | one queue and one stop flag per worker, the turn counter | `Submit`, `Post`, `_Steal`, `_Routine`, constructor, destructor |
| Mayhem server | `src/components/MayhemServer.cpp`, `src/utils/Epoll.cpp` | epoll set, table of context builders by descriptor, `_isRunning`, pool | `StartAsync`, `Stop`, `_Serve` |
| Basic, Threaded servers | `src/components/BasicServer.cpp`, `ThreadedServer.cpp` | `_listenFd`, `_isRunning`, pool | `StartAsync`, `Stop`, `_Serve`, `_HandleConnection` |
| Parsers | `src/utils/AsyncParser.cpp`, `src/utils/Parser.cpp` | handler, token, key, request | one handler per character; one function per token |
| Dispatcher | `src/core/IRequestDispatcher.cpp`, `src/components/RequestDispatcher.cpp` | handlers by path and method, error handlers | `RegisterHandler`, `Dispatch` |
| Context | `src/core/HttpContext.cpp` | request, response, one stream shared by both | `CreateHttpContext`, `Parse`, `DestroyHttpContext` |
| Streams | `src/io/*` | descriptor; read and write buffers | `Read`, `Write`, `Flush`, `Close` |
| Host and tasks | `src/core/WebHost.cpp`, `src/threading/Task.h`, `src/utils/Native.cpp` | one thread per task, the signal handler | `Run`, `StartAsync`, `Await` |
| Builder | `src/core/WebHostBuilder.cpp`, `src/core/IServer.cpp` | settings path, container of singletons | `UseAppSettings`, `Get`, `Post`, `Put`, `Delete`, `Error`, `GetLogger`, `Build` |
| Logging | `src/common/Log.cpp`, `src/components/Logger.cpp` | loggers by name, spdlog's registry | `GetLogger`, `_Init`, logging of messages |

`WebHostBuilder` reads the settings, creates the server and the loggers they ask
for, registers the handlers, and builds the host.
`WebHost::Run` starts a server as a task and waits for it. The server thread
accepts connections. The Basic server parses and dispatches in the same thread;
the Threaded server hands the connection to the pool; the Mayhem server parses
on epoll events and hands complete requests to the pool. The pool puts a task in
the queue of one worker; its neighbour may steal it. A task calls
`Dispatch`, which writes the response and closes the socket, so that the kernel
may give the same descriptor to the next connection while the server thread
still has state under that number. `^C` calls `Stop` in a signal handler.

What is hard here, and so what the properties are about:

* the queue is lock-free with relaxed loads: two threads at one slot, an element
  seen before it is written, wrong refusals, a suspended thread holding others up;
* a worker and its neighbour pop from the same queue; the destructor stops the
  workers one by one while the others steal; a stuck worker holds tasks;
* descriptors are reused while events, builders and tasks of their former
  connection are around; the two streams of a context close the same socket;
* edge-triggered events that are missed; a refused task whose connection nobody
  would close; blocking reads in the thread that serves everybody;
* a server that is started again, with what the first run left behind;
* two independent implementations of one grammar;
* a byte that is a character, a status and a gap at once; bodies over several
  fills of a buffer; a failed `recv` with old bytes still in it;
* which of many handlers answers, how often, and what is left of its response
  when it fails half-way;
* settings that are wrong in one place, and names that may be registered once.

`PROJECT.json` lists each hazard at its line with the properties that cover it.

## 2. The modules

| Module | Models | Uses |
|---|---|---|
| `FifoQueue` | what a bounded queue promises (abstract) | |
| `ClaimQueue` | the steps of a queue that its users see (abstract) | |
| `Queue` | `Queue.h`, one action per atomic operation | `FifoQueue`, `ClaimQueue` (refinements) |
| `QueueProofs` | the theorems about `Queue` | `Queue` |
| `TaskPool` | what a pool promises (abstract) | |
| `ThreadPool` | `Worker.h`, `ThreadPool.{h,cpp}` | `TaskPool` (refinement), `ClaimQueue` (for each queue) |
| `ThreadPoolProofs` | the theorems about `ThreadPool` | `ThreadPool` |
| `MayhemServer` | `_Serve`, the kernel as far as it matters, tasks | `TaskPool` |
| `MayhemServerProofs` | the theorems about `MayhemServer` | `MayhemServer` |
| `Servers` | the Basic and the Threaded server, `WebHost::Run`, `Task`, the interrupt handler | `TaskPool` |
| `ServersProofs` | the theorems about `Servers` | `Servers` |
| `HttpSyntax` | character classes, `std::stoi`, `CleanPath` | |
| `AsyncParser` | the parser of the Mayhem server, one action per handler | `HttpSyntax` |
| `RequestParser` | the parser of the other servers, one action per awaited character | `HttpSyntax` |
| `Parsers` | both on the same input | the two parsers |
| `ParsersProofs` | the theorems about `Parsers` | `Parsers` |
| `StreamReader` | the buffered reader under the parsers | |
| `ResponseWriter` | the buffered writer under `_WriteResponse` | |
| `Exchange` | one connection from request to response | `StreamReader`, `ResponseWriter` |
| `ExchangeProofs` | the theorems about `ResponseWriter` and `Exchange` | `Exchange` |
| `Dispatcher` | `IRequestDispatcher`, `RequestDispatcher`, the adapters and default handlers | `HttpSyntax` |
| `DispatcherProofs` | the theorems about `Dispatcher` and `CleanPath` | `Dispatcher` |
| `Settings` | what becomes of `appsettings.json` | |
| `WebHostBuilder` | the builder, the logger factory, the callback of the host | `Dispatcher`, `Settings` |
| `HostProofs` | the theorems about `WebHostBuilder` and `Settings` | `WebHostBuilder`, `DispatcherProofs` |
| `MCQueue`, `MCThreadPool`, `MCMayhemServer`, `MCServers`, `MCParsers`, `MCHost` | instances for TLC: symmetry, which threads are fair, the inputs | |

A chain of abstractions keeps each model small, and each link of it is proved:

* `Queue` implements `FifoQueue`, with its linearization point at the claim, and
  `ClaimQueue`, whose steps are the claim, the publication and the release
  (`ClaimRefinement`);
* `ThreadPool` has a record in the place of each queue, and takes no step with it
  that `ClaimQueue` does not have (`QueuesAsProved`);
* `ThreadPool` implements `TaskPool`, and `MayhemServer` and `Servers` use the pool
  only as `TaskPool` specifies it. Where `TaskPool` asks something of its user, the
  servers always fulfil it, so it keeps none of their steps from the model
  (`PoolGuardsHold`, `PoolGuardHolds`).

### Queue

A thread's `pc` names its next atomic operation: `index` (load of `Slot::Index`),
`cas`, `reload`, `data` (the plain move of the element), `store` (release). A
position `n` lives in slot `n % Capacity`. Relaxed loads return any value from
the last one the thread saw up to the current one; a failing compare-exchange
likewise, and it may fail for no reason (`weak`). The acquire load of `Index` is
taken to return the last value stored. `log` is a history variable: the elements
in the order they were claimed. `Published` and `Released` are what `ClaimQueue`
sees of the slots: the positions whose thread has stored the index.

### ThreadPool

Each queue is a record of the elements claimed by producers (`log`), how many
are claimed by consumers (`head`), the positions published (`ready`) and
released (`freed`). The stop flags are read where the loop reads them. A submitter
may be anywhere between taking its turn and publishing. Tasks are numbered as
their `Submit` takes its turn. Destruction begins when no thread is inside
`Submit`.

### MayhemServer

`pc` is where `_Serve` is; `batch` holds the events of the last `epoll_wait`.
`file` is the kernel's descriptor table, `handles` is `_handles`, `stream` the
descriptor that the context of each connection still holds. `accept` returns the
lowest free descriptor of those the rest of the process leaves to it (`available`, one
of `Tables`). Connections are edge-triggered: an arrival sets the edge
if the descriptor is in the set, and so does adding a descriptor that is readable.
A request comes in two pieces and more; a malformed one has its error in the
first. The accepted sockets are blocking (`MayhemServer.cpp:235`), so `Parse`
has no step while there is nothing to read, unless `^C` interrupts the `recv`
(`StopInParse`): the handler is installed without `SA_RESTART`.
`ParseThrows` is `std::stoi` on a value that is not a number: the exception
leaves `_Serve`.

`StartAsync` may be called again when `_Serve` has ended. It makes a new epoll
set and listens anew, but `_handles` and the connections that were watched
stay: `abandoned` are those. Nobody closes them, so their descriptors are gone
for good; when all are, the server accepts nobody (`Exhausted`). `NoDescriptorLost`
allows for these and for no others. `StartAsync` while `_Serve` runs is not
modelled: the host never does it.

### Servers

The two servers differ in one thing, and `kind`, chosen in `Init`, says which:
the serving thread handles a connection itself, or submits it to the pool. `host`
is where `WebHost::Run` is, `serve` where `_Serve` is, `current` the connection
it accepted last. `step` is the handling of a connection: `CreateHttpContext`
(`Parse`, `ParseFails`, `ParseThrows`), then `Dispatch`, which closes the socket.
A client says one thing: a request, something that does not parse (closing its
side included), or a request on which `std::stoi` throws. An exception leaves
`_Serve` through the future of its task and `Await` rethrows it; in a worker it
ends the process: `host` is `crashed` either way, and nothing of the process
moves then. Run is called on a temporary: when it has returned, the host is destroyed
(`DestroyHost`), then the container with the server, whose pool waits for the tasks
that run (`DestroyServer`). The callback and the handler of `^C` refer to the host, so a
task that comes to its dispatch in between uses an object that is gone: either
its memory is what it was or the process crashes (`UseHost`). `HostOutlived`
says who may do that: the tasks of a Threaded server, and a `^C` that comes when Run
has returned without one. The Mayhem server has the same callback and pool; its module
ends with `_Serve`. The listen socket does not block, the accepted ones do, and `accept`
fails when `FileLimit` connections are open.

The interrupt handler runs in any thread, so it may make a `recv` that waits fail.
It may also come before `_isRunning = true`, and is then forgotten; the next `^C`
has the default action and ends the process, which is left out.
The code leaves some sockets open for good: those of requests that do not parse
and the one accepted when `Stop` comes. `Forgotten` describes them exactly, and
`NothingElseForgotten` says there are no others.

### Parsers

The input is a sequence of symbols: a single character, or a word whose
characters all belong to the same classes (a method, a version, a number, a
header name). `RequestParser` is written as the automaton of the points where
the code waits for a character: a token ends with a delimiter that is rewound
and becomes the next token. The end of the input in the middle of a request is
not modelled: both parsers fail then. The path `/` becomes the empty string in
`CleanPath`, where the code calls `back()` on an empty string; the models take
the empty path, which is what the standard library in use yields.

### ResponseWriter

The characters of a response are numbered, so that a lost, doubled or misplaced
one shows. A response is any sequence of parts; `_WriteResponse` calls `Write`
for each and ignores the results. `send` on a blocking socket takes everything or
fails (the assertion in `Flush` excludes anything else). `Flush` returns a
negative value whether or not it succeeded, as the code does.

### StreamReader and Exchange

The bytes of a client are numbered, and each has a kind: how it comes out of
`Read()`, which returns a `char` where its caller expects a status or a character.
In `RequestParser` a byte 0xFF (-1) is the end of the token and a 0 a delimiter
that is gone; the Mayhem builder takes 0xFF and 0xFD (-1 and -3) for a status and
drops every other byte that is not positive. `recv` returns any number of the
bytes that have arrived, the end, or fails; it blocks, so the branch for `EAGAIN` in
`_Flush` is not taken and left out. What the header says is left to `Parsers`:
here it is `HeaderLength` bytes that announce a body.

`Read(buffer, size)` bounds each copy by the whole size, not by what is left, and
what is left is a `size_t` that wraps (`Word`). The properties hold with these
reservations, which they spell out:

* after a `recv` that fails, `_head` is at the start of the old bytes, and a
  `Read(buffer, size)` under way takes them for the body (`broken`);
* bytes sent after the body, in the same fill, are copied past its end, and the
  request is refused (`RefusedHasCause`, for `RequestParser`);
* odd bytes are lost (`Odd`).

`Exchange` runs a parser until it has its request, then `_WriteResponse`
(`Next` of `ResponseWriter`), then closes. In between, `Respond` forgets the request:
the reader of the parser and its buffer are destroyed with it.

### Dispatcher

A handler is known by its place among the calls of `RegisterHandler`
(`registered`, `registeredErrors` are histories), and the response by who put what
into it, so that it shows when a handler answers that should not, or when a part of
its response is left in another's. A path is a sequence of characters and is
cleaned by `CleanPath`, when it is registered and when it is asked for. An
adapter is what a handler is wrapped in (`RequestHandler.h`): `text` and `json`
as the adapters of the library, `custom` a handler that implements `Handle`
itself and may return any status, `default` those of `DefaultHandlers.cpp`. A
function may change the response, return, or throw: `std::exception`, caught
around a handler and not around an error handler, or something else, never
caught. `returned` is a history variable: what `Handle` of the handler returned, so that
`Reason` can say which error handler is the right one: that of the code returned, or of
500 after an exception. `Dispatch` only reads the tables and has its own context, so one
request shows what any of many at the same time would.

### Settings and WebHostBuilder

`Settings` is the pure part: a JSON object is a function from keys to values,
`WrongType` a value on which `json::value` throws. Integers are converted to an
`int` of `Width` bits (`Word` values), as the JSON library does. `MakePowerOfTwo` is
the code's sequence of shifts, on the set of the bits of a number. A disk
(`Disks`) says what is in each settings file: it may be missing, no JSON, of a wrong
type, or an object; a value in it that is meant to be an object or an array is one, or
of the wrong type (`Typed`). A sink without a file, or with an empty one, is skipped.

`WebHostBuilder` has one action for each call of the builder, in any order, and
`exit` says how the process ended: with a code, by an exception nobody catches
(`"threw"`), or aborted. `machine` is what the process runs on: the processors that
`std::thread::hardware_concurrency` tells, which may be 0, the threads that can be started
and the slots there is memory for. The server is made before anything else, and its pool with
it: without workers the assertion in the constructor traps (`ThreadPool.cpp:16`; it
is on by default, `CMakeLists.txt:22`); if memory or threads are wanting, as they are for
-1 of them, the constructor throws, and if a worker runs by then, the process is
aborted when it is destroyed (`PoolFails`). `_InitializeComponents` then makes two loggers
and registers the default error handlers, so these precede the program's. The logger factory
keeps its loggers, and spdlog throws on a name it knows: `registry` are those, at first the
empty name of spdlog's own logger. `denied` is a history variable: the logger that
could not be made. `OnConnection` is
the callback given to the server: a step of `Dispatcher`. All steps of `HostSpec`
are steps of `DispatcherNext` or leave its variables alone (`HostDispatches`), so what
is proved of `DispatcherSpec` holds in the host.

## 3. The runs

| Run | Instance | Question |
|---|---|---|
| `queue` | 2 + 2 threads, one of each fair, 2 slots, 3 pushes | exclusion, capacity, why an operation is refused, the inductive invariant, refinement of `FifoQueue` and of `ClaimQueue`; an operation returns although others stop anywhere |
| `thread_pool` | 2 workers, 2 submitters, 5 tasks, 2 slots; worker 0 may never finish a task | refinement of `TaskPool`, each queue used as `ClaimQueue` allows, clean destruction; the tasks behind a stuck one are stolen; the destructor returns if all tasks do |
| `mayhem` | 2 connections; one descriptor, two, or one and one past the limit (`Tables`); 2 threads, 2 calls of `StartAsync`, fair | no event without its builder, no worker on another's socket, no descriptor lost; requests are served, `_Serve` ends after `Stop` |
| `servers` | Basic and Threaded, 3 connections (one may stay silent), 2 descriptors, 2 threads, up to 2 calls of `Run`, fair | which sockets stay open, what `Run` leaves behind, who uses the host after its end, requests are answered, `Stop` ends `Run`, and the server can be destroyed unless a worker waits for a silent client |
| `parsers` | 10 symbols, inputs of 16, tokens of 2; 12 symbols, inputs of 17, tokens of 1 | the parsers agree on one header line; on lengths and bodies |
| `exchange` | header of 2 bytes, bodies of up to 5 (limit 4), 2 bytes more, one odd byte, buffers of 3; 4 parts of up to 4 characters; failing socket; fair | what the parsers are given is what was sent, refusals have causes, requests are answered; nothing is sent twice, short responses whole |
| `host` | settings unusual in one place; 4 machines; 3 spellings of 2 paths, 2 methods, 2 handlers, 5 error handlers | who answers, and how often; the server, its pool and the loggers that the settings ask for; how the process ends when one of them cannot be made |
| `handler_replaced` | the same | whether the second of two handlers replaces the first (it does not) |

The bounds are enough for the cases that matter. Queue: with two slots the
third push is in the second lap, so a position meets the thread of the lap
before; that is all a slot can confuse, and the proofs cover the rest. Pool: five tasks over
two queues of two slots fill both and refuse; two workers are each other's
neighbour, so each queue has an owner and a thief. Mayhem: two connections
suffice for a descriptor to be reused while the task of its first connection, or an
event or builder of it, is still around: with a table of one descriptor they compete
for it and `accept` fails for the other, with two both are open at once, and with one
past the limit the second is turned away; the second start meets what the first
left. More connections, which are alike, are left to the proofs. Servers: two
descriptors for three connections make `accept` fail, by open connections and
by forgotten ones; two calls of `Run` show what the first leaves to the second. Parsers:
the shortest request has nine symbols, one with a header line fifteen; the
lengths leave room to insert, double or drop symbols. Exchange: with a buffer of
three a body may begin in the header's fill or in one of its own, end in it, fill
it, or take two more; every part of a response may find the buffer empty, partly
filled or full, and may fit, fill it, or overflow it. Host: four of the five error
handlers are the default ones, so one more replaces a default one or serves another
code; two handlers suffice for one to be registered over another, under another
spelling or another method (more of them are covered by the proofs). An `int` of 20 bits
lets a port wrap into the valid range. Of the machines one does not tell how many
processors it has (the pool's assertion traps), one has room for all but the largest
pools, those of a capacity of 8000 or of -1 and those of -1 threads, one cannot start a
fourth thread, and one cannot start any. Handlers are combined with the default
settings only (`Bounded`): the settings do not touch what a dispatch reads.

Five runs show a disagreement between the code and its comments (`findings` in
`PROJECT.json`):

* `queue_capacity_one`: the constructor's assertion accepts a capacity with which
  a full queue is overwritten;
* `mayhem_slow_client`: `Parse`, which promises to return when a request is
  incomplete, waits for the rest of it in the only serving thread;
* `mayhem_malformed`: the parser's error value is positive, so the builder goes
  on reading after an error;
* `handler_replaced`: a handler registered a second time does not replace the first, as
  `IRequestDispatcher.h:34` has it; the first goes on answering. `AnsweredByRight`
  takes no side: it asks for a handler registered for the path and the method;
* `response_long`: a body that does not fit in the writer's buffer is cut off,
  although `Content-Length` announces all of it.

The comment of `Push` says it fails "if the queue is full". The model shows
what it does: it fails when the slot one lap behind is still in use, which may be
the case with room elsewhere; `PushRefusedByOldest` states that, and is proved.

Some comments differ from the code in ways that the models show without a run of
their own:

* a logger that is listed without sinks has none: it inherits level and pattern, not the
  sinks, although the repository's `README.md:257` says it inherits whatever is missing
  and `Log.cpp:50` speaks of default values. `LoggersAsConfigured` leaves open whether
  such a logger has the default sinks, and asks that it has no others;
* the capacity of a worker's queue is the one in the settings rounded up to a power of two,
  as `ThreadPool.h:41` documents, so that it may hold more than the "maximum requests
  queued" of `README.md:219`; `StartsAsConfigured` asks for the rounding of `ThreadPool.h`;
* `DestroyHttpContext` returns 1 when it succeeded (`HttpContext.h:145`: 0);
* a `Content-Length` of 0 is written, not omitted (`HttpContext.h:88`).

Each property has a variant of one definition (named in a comment "Variant of
...") under which TLC finds it violated; `PROJECT.json` lists them as `mutants`.

### Fairness

* Queue: a running thread takes its next step (weak fairness), and a thread that
  reloads a relaxed counter sees its current value in the end (strong fairness),
  as the C++ standard asks of atomic stores; a weak compare-exchange does not
  fail for no reason for ever. Only the threads in `Running` are fair.
* Pool: the operating system schedules the workers and the destructor; a task
  returns, except those of the workers in `Stuck`.
* Mayhem: the serving thread and the tasks go on. `Wait` is not forced to
  fail, and nobody is forced to connect, send or stop. Clients in `Polite` close
  their side in the end: without that `RequestServed` is false because of the
  blocking reads, which `mayhem_slow_client` shows.
* Exchange: the thread runs, and `recv` returns when something has arrived; it
  need not fail.
* Servers: the host, the serving thread, each task and a destructor that waits go on. Clients speak, but
  for those in `Silent`, which must do so only with the Basic server: it waits
  for one client at a time. `Run` need not be called, nor `^C` pressed.

## 4. The proofs

### The queue

`QueueProofs` proves, for every `Producers`, `Consumers`, `Values` and (but for
the first) every `Capacity > 1`:

| Theorem | Statement |
|---|---|
| `TypeInvariant` | `Spec => []TypeOK` |
| `Invariant` | `Spec => []QueueInv` |
| `Exclusion` | `Spec => []SlotExclusion` |
| `Bounded` | `Spec => []WithinCapacity` |
| `PushRefusal`, `PopRefusal` | a refused operation has the reason the algorithm promises |
| `Refinement` | `Spec => FifoSpec` |
| `ClaimRefinement` | `Spec => ClaimSpec` |
| `Refusals` | `Spec => RefusedRightly`: what is refused, `ClaimQueue` refuses |

The proofs assume `QueueAssumption` (and not that the capacity is a power of two:
the model uses `%`). `Capacity > 1` is needed: with one slot the theorems fail,
as `queue_capacity_one` shows.

`SlotExclusion` is not inductive. `QueueInv` adds what the algorithm relies on:

* the counters are at most one lap apart (`CountersInv`);
* a claimed position is inside the window of its counter, its slot's index is
  still the one that was read, and only its owner may change it
  (`ProducersInv`, `ConsumersInv`, `OwnersInv`);
* every position between the counters is filled or being written (`FilledInv`),
  every one in the next lap free or still being read (`FreeInv`);
* the indices only grow, so that a stale position is recognised (`OutdatedInv`).

The argument has three parts. Positions less than `Capacity` apart have
different slots (`SlotsDiffer`, from `DivMod`). A step that touches no slot
preserves the invariant (`StepOutside`, with `PushOutside` and `PopOutside`).
The claims, moves and stores are taken one by one; `ClaimedSlotIsFree` and
`ClaimedSlotIsFilled` say that a successful compare-exchange finds the slot as
the index said, however old the read was. `Refinement` maps the head to
`nextDequeue` and gives a consumer its element at the claim; `ClaimsAppend` and
`ClaimsRemove` are the two steps of the abstract queue, all others stutter.
`ClaimRefinement` has two more, the stores of `Index` (`StorePublishes`,
`StoreReleases`): a position is published when nobody writes it any more and released
when nobody reads it. `QueueInv` shows that the one that stores is alone at its
position, so it publishes or releases that one and no other. The other steps change
nothing that `ClaimQueue` sees (`OthersUnseen`, `SameOwners`). `Refusals` says what a
refinement does not, why an operation returned `false`.

### The dispatcher

`DispatcherProofs` proves, for every `Paths`, `Verbs`, `Codes` and every number of
handlers, from `DispatcherAssumption` (the codes in use are numbers, and 200 is no
failure):

| Theorem | Statement |
|---|---|
| `DispatchInvariant` | `DispatcherSpec => []IInv` |
| `RightHandler` | `DispatcherSpec => []AnsweredByRight` |
| `OneAnswer` | `DispatcherSpec => []AnsweredOnce` |
| `CleanPathDoes` | `CleanPath` gives all spellings of a path one form, which is clean already |

Both properties speak of the response when it is there, and neither is inductive: nothing
in them says why the handler that is about to be called is the right one. `IInv`
follows `Dispatch`:

* `Tables`: what is looked up is the first handler registered (`FirstFor`) for a path and a
  method, and the last error handler for a code (`RegisterHandlerTables`,
  `RegisterErrorHandlerTables`, `RegisterDefaultHandlersTables`);
* `Work`: before a handler is called, it is the first for the request; before an
  error handler is, it is the last for the status code, which is the one the first
  handler failed with, or 404 or 405 (`FirstReason`, with `NotRegistered`, `CalledReason`);
* `Done`: when it is over, a response is there or a reason why there is none
  (`NoAnswer`), and it is from the first handler or for its failure (`AnsweredByFirst`);
  `AnsweredByRight`, which does not say that the handler is the first, follows;
* `Types`, among it that a default handler is registered for a failure and not for
  204, whose responses have no body.

Each action of `Dispatch` has a lemma; `TablesKept` and `ReasonKept` say that none
of them changes the tables or the reason.

The lemmas about the dispatcher take cleaned paths as they come. `CleanPathDoes` says
what they are: for every path but the empty one, the result begins with a slash, ends
with none, is its own cleaned form, and is that of the path with one slash more at
its end, or at its beginning if it had none.

### The pool

`ThreadPoolProofs` proves, for every number of threads, submitters and tasks and every
`Capacity > 1` (`PoolAssumption`):

| Theorem | Statement |
|---|---|
| `Invariance` | `Spec => []IInv` |
| `TypeCorrect` | `Spec => []TypeOK` |
| `StopIsClean` | `Spec => []StoppedClean` |
| `Refinement` | `Spec => TaskPoolSpec` |
| `QueuesAsProved` | `Spec => QueuesFollow` |
| `QueueAsProved` | `Spec => Claims(w)!Spec`, for each worker `w` |

`StoppedClean` speaks of the end only. `IInv` follows each task from its submitter to
its return. No two positions of the queues hold the same task (`LogsDistinct`), and a
task that is not accepted yet is in none (`PostsUnaccepted`), because every submitter
has a number of its own (`SubmitsDistinct`). A position that is about to be published
can not be popped (`Publishes`), one that is about to be released can not be pushed
into (`Releases`). What has been popped is held by one worker or finished, and nothing
else is (`HeldClaimed`, `HeldDistinct`, `FinishedClaimed`, `ClaimedHeld`): this is why a
task that two workers want, the owner of its queue and its neighbour, is run by one.
`Refinement` needs it all: the claim of a submitter maps to `Accept`, the step in which
a worker releases its slot and calls the task to `Start`, the return to `Finish`, and
all other steps change nothing that `TaskPool` sees. `QueuesAsProved` has the
same steps and looks at the queues: a submitter claims a position only if
its slot is free, and publishes it once; a worker claims one that is published, its own or
its neighbour's, and releases it once.

### The servers

`MayhemServerProofs` proves, for every set of clients and of descriptors, every limit
and every number of threads, pieces and calls of `StartAsync`:

| Theorem | Statement |
|---|---|
| `Invariance` | `Spec => []IInv` |
| `TypeCorrect` | `Spec => []TypeOK` |
| `EventsHaveBuilders` | `Spec => []EventHasItsBuilder` |
| `StreamsOwned` | `Spec => []WorkerOwnsStream` |
| `DispatchedSilent` | `Spec => []DispatchedIsSilent` |
| `DescriptorsKept` | `Spec => []NoDescriptorLost` |
| `PoolGuardsHold` | `Spec => []TasksAsPoolHasThem` |

It assumes `ServerAssumption`: descriptors are positive numbers (0 is the listen
socket's place among the events), `None` is neither a client nor a descriptor, and
the server is started at least once.
The invariant is about descriptors that come back. An open connection has exactly one
(`Opens`). A descriptor that is watched or in hand belongs to the connection whose
builder is in its slot, and that connection is not the pool's (`Watched`); one that is in a
batch is still watched (`Types`), since `_Serve` takes a connection out of the set
only when it handles its event, and then it is in the batch no more (`Loop`). A task's
connection stays open until the task closes it, and its stream has no descriptor from
then on (`Tasks`): so the second `Close` harms nobody, and the descriptor that `accept`
returns is nobody's (`FreeDescriptor`).

`ServersProofs` proves, for every set of clients, every number of threads, descriptors and
calls of `Run` (`ServersAssumption`), and for both servers:

| Theorem | Statement |
|---|---|
| `Invariance` | `Spec => []IInv` |
| `TypeCorrect` | `Spec => []TypeOK` |
| `NothingLost` | `Spec => []NothingElseForgotten` |
| `IdleClean` | `Spec => []IdleIsClean` |
| `HostOutlivedOnlySo` | `Spec => []HostOutlived` |
| `PoolGuardHolds` | `Spec => []SubmitsNewTask` |

`IInv` says which states of host, `_Serve` and port go together (`Life`, `Stopped`), what
`_Serve` has in hand (`Hand`), how far a connection has come (`Handlings`), and why an
open one may be nobody's (`Known`). `HostOutlived` is a part of it.

`PoolGuardsHold` and `PoolGuardHolds` are about the models as much as about the code:
`Pool!Accept` has the guard that the task is new, `Pool!Finish` that it was started. If a
server could come to a `Submit` with a connection that was a task before (a
descriptor come back, say), the model would stop there and show nothing. It never does.

### Reader, writer and exchange

The first part of `ExchangeProofs` is about the writer alone, for every size of the buffer
and every response (`WriterAssumption`); the rest is about a connection from its first byte to
its last, for every size of the two buffers, every length of header and body, every limit, and
every way in which `recv` cuts the stream or fails:

| Theorem | Statement |
|---|---|
| `WriterInvariance` | `Spec => []WriterInv` |
| `SentInOrder`, `ShortResponseSent` | `Spec => []NothingTwice`, `Spec => []ShortResponseWhole` |
| `ExchangeInvariance` | `ExchangeSpec => []ExchangeInv` |
| `GivenInOrder` | `ExchangeSpec => []BytesInOrder` |
| `BodyAsAnnounced` | `ExchangeSpec => []BodyExact` |
| `NoRefusalWithoutCause` | `ExchangeSpec => []RefusedHasCause` |
| `AnswerInOrder`, `ShortAnswerWhole` | `ExchangeSpec => []NothingTwice`, `ExchangeSpec => []ShortResponseWhole` |

The key of `ExchangeInv` is that the buffer holds the last bytes received (`ReaderInv`), so that
their number and the position in it say how much of the stream has been taken
(`Taken`). What the parser was given covers the stream up to there, but for odd bytes
(`Covers`, with `CoversNext` and `CoversSkip`), and without odd bytes the body is
exactly what follows the header (`BodyFollows`). Each block that `Read(buffer, size)`
copies adds to both. `rest` is what is left of the announced length or, when too much was
copied, that minus the surplus as a `size_t` (`InBody`). `ExchangeAssumption` therefore
says that a `size_t` counts more than the bytes of one connection and a buffer: with a smaller
`Word` the count could come back to 0, which no machine's does.

The writer's invariant: what was sent, then what is in the buffer, are numbers of the
response in their order; and as long as the response is short, all of them.

### The builder and the host

`HostProofs` proves, for every content of the settings files, any number of loggers,
sinks and calls, in any order:

| Theorem | Statement |
|---|---|
| `HostInvariance` | `HostSpec => [](HostInv /\ IInv)` |
| `StartsRight` | `HostSpec => []StartsAsConfigured` |
| `LoggersRight` | `HostSpec => []LoggersAsConfigured` |
| `HostDispatches` | `HostSpec => DispatcherSpec` |
| `HostAnswers` | `HostSpec => [](AnsweredByRight /\ AnsweredOnce)` |
| `DefaultsDo` | `HostSpec => []DefaultsAnswer` |
| `MakePowerOfTwoDoes` | it gives the smallest power of two that is not below the capacity |

It assumes `MachinesAssumption` (what a machine has is counted in natural numbers),
`SettingsAssumption` (an `int` has at most 32 bits, which is as far as the
shifts of `MakePowerOfTwo` reach, and its positive half holds every port) and
`DisksAssumption` (the files are as described above), besides the dispatcher's.
The properties compare what the host has in the end with the file it was told to read,
several calls later. `HostInv` says what there is in between: the configuration made of
that file once it is loaded and the server made of the configuration (`BuilderInv`), the
loggers, which are those that spdlog knows (`LoggerInv`: without that, the second request
for the server's logger could throw), and the default error handlers, which are there
before the first request (`HandlersInv`). It also keeps why the builder ended without a
server or a logger: the configuration asks for a pool that does not fit (`LacksPool`), or
the logger in `denied` has a file that cannot be opened or no name (`CannotMake`).
`PoolAsAsked` turns the first into what the property says of the settings themselves:
a pool twice the size of the one asked for, which no rounding exceeds, has no room
(`HasRoom`). `LoadServerConfig`, `ParseSpecification` and
the rest of `Settings` then give what the properties ask for.

Two operators are defined by recursion, on the bits of a number and on a list of sinks.
The library's induction theorems cannot be instantiated here, so `SetInduction`
(in `DispatcherProofs`) states induction for a set of numbers and is proved from the
well-foundedness of the intervals; `Recursion` gives a function for each
first value and step. `MakePowerOfTwoDoes` follows the bits: with `m` the highest bit of
a number, the shifts by 1, 2, 4, 8 and 16 set all bits below it, and the number of all bits below
`m + 1` is one less than a power of two.

### The parsers

`ParsersProofs` proves, for inputs of every length over every alphabet:

| Theorem | Statement |
|---|---|
| `Invariance` | `Spec => []ParsersInv` |
| `SameForBoth` | `Spec => []SameRequest` |
| `SameEndForBoth` | `Spec => []SameEnd` |
| `AsyncNoMore` | `Spec => []AsyncAcceptsNoMore` |
| `BlockingNoMore` | `Spec => []BlockingAcceptsNoMore` |

The invariant is a simulation of two automata. As long as neither parser has given up,
they are at one of the pairs of `SamePlace`, with tokens (`SameToken`) and fields
(`SameFields`) that correspond. Two pairs are not obvious: while a value is all spaces,
`RequestParser` is still in front of it; and after a negative length it is done,
while `AsyncParser` awaits the body. `AsyncAlone` and `BlockingAlone` say why
one may have given up alone, before the header is over too: RequestParser, for example, reads a
method or a version to its end before it refuses it. Each pair has a lemma with one case
for each class of symbol. `SpacedSkipped` shows that a value with spaces before it
means the same as without them, to `std::stoi` too. Symbols are those of `Inputs`,
which no assumption restricts.

Every inductive invariant above was first checked with TLC on the instances of the runs.

### Model-checked only

* Liveness: `OperationReturns`, `AcceptedTaskStarts`, `DestructorReturns`, `RequestServed`,
  `StopEndsServe`, `RequestAnswered` (of the servers and of an exchange) and
  `StopEndsRun`. TLAPS has no `ENABLED`, so nothing can be concluded from fairness.
* Nothing else that a run checks. Not stated at all is what the string functions of the
  parsers (`std::stoi`, the skipping of spaces) compute on every string: the proofs use them as
  they are defined, for both parsers alike.

## 5. What is not modelled, and what comes next

1. **Life cycle**: a `StartAsync` of the Mayhem server that fails, its destructor,
   `ValueTask`.
2. **Log files**: two loggers that open the same file both truncate it
   (`Logger.cpp:62`); this needs a model of what is in a file.

Left out for good: formatting of headers, log messages and JSON documents;
wrappers of system calls; demo, tests and scripts; moves of queues, pools and tasks
(nothing moves one in use); counters that wrap at 2^64; the second `^C`, which kills
the process; the path `/` under a library that checks `back()` of an empty string; the signal
`SIGPIPE`, whose default action ends the process in a `send` to a client that is gone (the
models have the `send` that fails, as where the signal is ignored); the character that
`RequestParser` reads after a carriage return inside a token, which it drops. Assertions
are taken to be enabled, as they are by default.
