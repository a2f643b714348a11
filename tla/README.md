# A verification project for appfw

TLA+ models of appfw (a C++17 application framework: console, remote console,
TCP helpers, files, profiling), the TLC runs that check them and the theorems
that TLAPS proves about them. Paths are relative to the repository.

## 1. Inventory

| Component | State | Operations | Interacts with | Hard behaviour | Correct when |
|---|---|---|---|---|---|
| ConsoleSystem, output (`src/console/console_system.cpp`) | ring of the last 64 messages, receivers, the thread-safety flag, the queue of delayed messages, two mutexes | `print`, `processMsgQueue`, `printPreviousMessages`, `addConsoleReceiver`, `removeConsoleReceiver` | calls every receiver; called by all threads | threads, two mutexes, calls out with a mutex held | each receiver gets each message once and in order, unsafe ones on the main thread, nobody hangs |
| ExtconHost (`src/extcon/extcon_host.cpp`) | print queue (128) with its condition variable, connection state on both sides, command queue, worker thread, client socket | `enable`, `disable`, `tick`, `print`; the worker's poll, accept, read, send | is a receiver of ConsoleSystem, drives TcpServer4, prints from its own worker | three kinds of threads, blocking with mutexes held, reconnection, failures | a client is sent its messages in order, commands run once and in order, nobody hangs |
| TcpServer4 (`src/network/tcp_server4.cpp`) | listening socket, parallel lists of sockets and poll entries | `startListening`, `stopListening`, `poll`, `sendToAll` | callbacks that close sockets | indices while lists change, errors half-way | callbacks once per connection, lists agree |
| TcpClient4 (`src/network/tcp_client4.cpp`) with `SockFd` | status, descriptor, timer | `connect`, `updateStatus`, `close`, `read`, `write`, `writeAll` | the loop and commands of the example client | time-outs, short writes, failures half-way | an attempt ends, no descriptor is lost, messages arrive whole |
| DatagramParser (`src/network/datagram_parser.cpp`) | stage, sizes, buffers | `parseData`, `reset` | ExtconHost | datagrams in pieces | pieces do not matter |
| CmdBuffer (`src/cmd_buffer.cpp`) | queue, mutex | `append`, `executeOnce`, `executeAll` | the handler is ConsoleSystem::commandNow | handlers that append or throw | each command runs once |
| CmdString, CommandLine | none; parsed arguments | `parse`, `toString`; `parseCommandLine`, `execCommands` | CmdBuffer | quoting, values and flags | round trip, an argument is taken for what its place says |
| Console items, life cycle (`con_item.cpp`, `appfw.cpp`) | the item map, the pending set, values, locks, the initialisation count | constructors, destructors, `registerConItem`, `initialize`, `shutdown`, `mainLoopTick` | each other | order of construction and initialisation | every live item is found |
| StdConsole (`std_console.cpp`) | command queue, validity flag | `tick`, the input thread | ConsoleSystem | a detached thread | no use after destruction |
| FileSystem (`filesystem.cpp`) | search groups, a shared mutex | `addSearchPath`, `getFilePath`, ... | | recursive shared lock | first path wins, a failed call changes nothing |
| Prof (`prof.cpp`) | current node, sections by hash | `begin`, `end`, sections | | nesting | the tree is balanced |
| Binary streams (`binary_stream.h`, `binary_buffer.cpp`) | buffer and offset | typed reads and writes | ExtconHost's messages | byte order, writes that fail half-way | what is written is read |
| Utilities (`utils.cpp`) | none | string conversions | ConVar, CommandLine | ranges, widths | a number or an error |
| SHA256, span, unique_function, examples | | | | | |

`PROJECT.json` lists every component with its sources, and under `hazards` what
in this code is hard to test.

## 2. Plan

All of the plan's modules are written. In the order in which they were built: `MsgRing`,
`MsgHistory`, `ConsoleOutput`; `ExtconHost`; `TcpServer`, `DatagramParser`; `AppLoop`,
which composes the command buffer, the items, the life cycle and the terminal console;
`TcpClient`, `ServerProgram`; `FileSystem`, `Prof`; the pure functions `CmdString`,
`CommandLine`, `Conversions`, `ByteStream`, and `ExtconProtocol` over the last. Theorems
cover every component that is modelled: every invariant and every action property of the
passing runs is proved.

What a continuation should do first: several `ProfData`; writes to the remote console's
client that take a part of a message; the composition of `ExtconProtocol` with
`DatagramParser`, whose formats are described twice.

## 3. Modules

| Module | What it is |
|---|---|
| `MsgRing` | `ConsoleSystem::RingBuffer` as a record (slots, cursor, size) with push and the order of a replay |
| `MsgHistory` | abstract specification: a history of at most `Capacity` messages that forgets the oldest |
| `ConsoleOutput` | the output half of ConsoleSystem, extends `MsgRing`, implements `MsgHistory` |
| `ExtconHost` | the remote console's host with the console around it, extends `MsgRing` |
| `TcpServer` | TcpServer4 by itself, with any number of sockets and any callbacks |
| `ServerProgram` | a program with data of its own for each socket, extends `TcpServer` |
| `TcpClient` | TcpClient4 in the loop of the example client, with the system and the network around it |
| `DatagramParser` | the parser of the remote console's datagrams |
| `AppLoop` | the main loop: command buffer, items, initialize and shutdown, terminal console |
| `FileSystem` | search paths behind the shared mutex |
| `Prof` | the profiler's frames and sections |
| `CmdString`, `CommandLine` | commands in a text and back; the arguments of `main()` |
| `Conversions` | integers from texts |
| `ByteStream`, `ExtconProtocol` | the binary streams; the host's messages made with them |
| `MCConsole`, `MCExtcon`, `MCNetwork`, `MCApplication` | what the passing runs check: several small instances each |
| `MCConsoleOutput`, `MCExtconHost` | the instances of one program, for the violation runs |
| `MsgRing_proofs`, `ExtconHost_proofs`, `TcpClient_proofs`, `FileSystem_proofs` | lemmas and theorems about the module of that name |
| `ConsoleOutput_proofs` | about ConsoleOutput, and about its program in `MCConsole` |
| `Network_proofs` | about TcpServer, and about the server's program, the client and the parser in `MCNetwork` |
| `PureFunctions_proofs` | about `CmdString`, `CommandLine`, `ByteStream` and `ExtconProtocol`, for inputs of any length |
| `AppLoop_proofs` | about AppLoop, and about what is beside it in `MCApplication`: the file system, the profiler, and the inputs of the pure functions |

### ConsoleOutput

Each thread has a label `pc`, the console function it is in (`job`), the message
it delivers and its position in `m_RecvList`. A step lies between two points
where another thread can matter: `PrintLock` takes `m_OutputMutex`; `PrintNow`
and `PrintQueued` push into the ring (which needs the ring's mutex for the
length of that step) and read the flag; `Deliver` enters `pRecv->print()` for the
next receiver, `ShowDone` leaves it, `PrintEnd` releases the mutex.
`processMsgQueue()` is `FlushCall`, `FlushLock` (with the assertion, which in a
debug build goes on to `AssertReport`), `Drain`, the same `Deliver`/`ShowDone`,
`DrainNext` (the pop) and `DrainEnd`. `printPreviousMessages()` is `ReplayCall`,
`ReplayLock`, `ReplayShow`, `ShowDone`, `ReplayEnd`. Registration changes
`m_RecvList` and then walks `updateThreadSafetyState()` in its separate writes of
the flag (`UpdateReset`, `UpdateScan`, `UpdateEnd`). A message is its position in
`log`, the order in which messages entered the ring; texts, tags and colours are
left out. The two overloads of `print` differ in copies only and are one.
`onAdd`/`onRemove` of the receivers and the assertions that a receiver is
registered once are guards. `m_RecvList` is an ordered set of addresses: receivers
are natural numbers.

`LateRegistration = FALSE` states what `appfw::initialize`/`shutdown` do: receivers
are registered before other threads run and removed after they end. Otherwise
`m_RecvList` is read and written without a mutex, which is undefined behaviour
that the model does not give a meaning to.

### ExtconHost

`ConsoleSystem::print()` is inlined with the host as its only receiver: `PrintLock`,
`PrintPush`, then `ExtconHost::print()` as `HostCheck` (the unprotected read of
`m_bIsConnected`), `HostEnqueue`, or `HostFull` and `HostWake` for the wait on
`m_PrintQueueEmptyCv`, during which `m_OutputMutex` stays locked. `ret` says where
the caller goes on, so that the worker's own messages (the echo of a command, its
errors, the report of a closed connection) take the same path. The three small
mutexes (state, print queue, available commands) are never held across anything
that waits: their critical sections are single steps. `m_OutputMutex`, the ring's
mutex and `m_CommandQueueMutex` are held across steps and are variables.

The main thread: `TickRead`, `TickApply`, the replay (`ReplayLock`, `ReplayNext`,
`ReplayEnd`) and `ListCommands` of `onClientConnected()`, `FetchCommands`;
`EnableCall`, `EnableStart`, `Disable`, `Join`; `Execute` for the console's command
buffer. The worker: `WorkerStart`, `WorkerLoop`, one round of `TcpServer4::poll()`
(`Poll` takes the snapshot of events, `AcceptOne`, `AcceptEnd`, `AcceptFails`, then
`ReadSkip` or `Read` with the payloads one by one, `Cleanup` and `ClientClosed` for
the closed callback), and `updateConnectedClient()` (`UpdateClient`, `SendNext`,
`SendWrite`, `SendEnd`, `Notify`). `SendWrite` has the outcomes of `send()`: all
taken, none taken (`EWOULDBLOCK`, which `write` reports as 0 and nobody looks at) or
an error. `ServerFaults` lets `startListening`, `poll` and `accept` fail.

Abstracted: a datagram arrives whole or is junk (`DatagramParser` models the pieces); a
short write counts as `Lost`; the command list is one message; the focus-request flags,
the command-line tools and `isEnabled()` are left out; the data race on `m_bIsConnected`
is an atomic read and write; a caller does not survive the exception of a second
`disable()` (label `threw`).

### TcpServer

One thread runs the server; `pc` is the loop of `poll()` or `stopListening()` that it
is in and `i` that loop's index, so that a step ends where a callback has returned.
`StartListening` and `StartFails` are `startListening()`; `crashed` is the null
dereference in its handler. `Poll` is the system's `poll()` with an arbitrary event for
every listed socket; `CheckListener`, `AcceptNext`/`AcceptEnd`, `ServeNext`/`ServeEnd`
and `RemoveNext`/`RemoveEnd` are the four parts of `poll()`, `StopNext`/`StopEnd` the loop
of `stopListening()`, which a failing `poll()` (`PollFails`) enters too. Every callback
may close any set of the listed sockets, by `close()` or by a `read()` or `write()` that
fails; it does not call `poll()` or `stopListening()` itself. The program closes sockets
between two polls (`UserCloses`, `SendToAllFails`). A connection is its number in the
order of arrival. POLLERR and POLLNVAL are as POLLHUP; data, addresses and close
reasons are left out. `reported`, `served`, `accepted` and `told` are history
variables for the properties.

`ExtconHost` keeps its own, smaller copy of this loop: its server has one client that it
reads from, and its callbacks are fixed.

### DatagramParser

The call in progress has its `data` and `bytesRead`; a step is one round of the loop of
`parseData()`: `ReadMagic`, `ReadSizeField`, `ReadPayload` for a payload that stays
incomplete, `Deliver` for one that gets complete, after which the callback returns and
the parser is reset, or throws and it is not. `ReadOutside` and `WriteOutside` are the
rounds that leave a buffer; nothing is modelled after them, so all the other properties
speak of the behaviours without them. The three buffers keep their bytes over a
`Reset`. Bytes are numbers below `Base`, and the magic, the size field and the limit have
parameters for lengths: with 2, 3 and 5 in place of 256, 4 and 16384, payloads of every
size from 0 to beyond the limit can be announced. `stream` and `delivered` are history:
`ParsesStream` compares the stream with what an encoder would have written for the
delivered payloads.

### ServerProgram

`examples/tcp_server/main.cpp` keeps an object with each socket: made in the accepted
callback, freed in the closed one, used by the read callback and by the commands that walk
the server's list. Nothing checks the pointer. The module adds this data to the steps of
`TcpServer` that run the callbacks, and `Commands` between two polls.

### TcpClient

`pc` is the place in the example's loop: one command, or none (`Connect`, `Disconnect`,
`Send`, `Quit`), then `updateStatus()`, then the read of its callback. The descriptor is
a number, because `SockFd` takes 0 for none and `socket()` may return 0 when standard
input is closed; `held` are the descriptors that the system has open. The system answers
the attempt, or refuses it, or never does; `select()`, `write()` and `read()` have all
their outcomes, among them a write that takes a part, after which `writeAll()` goes on.
Time passes in steps up to one beyond the time-out. Messages are bytes, so that a gap or
a repetition in `wire` shows.

### AppLoop

One main thread, of which `pc` says in which call it is: between two calls of the
program (`idle`), in the tick between `StdConsole::tick()` and the command buffer
(`process`), in a handler (`run`), in the last `shutdown()` (`invalidate`, `free`),
waiting for itself (`stuck`), after undefined behaviour (`undefined`). `Construct` and
`Destroy` are the constructor and the destructor of a ConItemBase, before, between and
after initializations; `RegisterAll` is `std::map::insert` for each pending item. A
static item is never destroyed: its destructor runs after `main()`. `Execute` enters
`executeOnce()` or `executeAll()` with the buffer's mutex; the four outcomes of a
handler are `CommandPrints`, `CommandSets`, `CommandLocks` and `CommandThrows`, and each
but the last goes on with `CommandDone`, the pop. `CommandPosts` is a handler that
queues another command. `PostCall` and `Post` are `command()` of other threads. Every
StdConsole leaves a detached thread behind (`ReadLine`, `LockSync`, `PushLine`); all of
them read the same standard input, and each has its own SyncData. `posted`, `done` and
`orphans` are history.

A conversion is whether the text is one of `Values`; texts that commands print, float and
string variables, and the abort of a `shutdown()` too many are left out.

### FileSystem, Prof

A call of FileSystem is cut where it takes or gives back the shared mutex: `LockShared`,
`LockAgain` for the lock that `findExistingFile()` takes inside `getFilePath()`,
`FindOrAddGroup` for `addSearchPath()`, which then looks at the path (`AddSearchPath`).
`std::shared_mutex` does not say whether a waiting writer keeps readers out:
`WritersFirst` is the choice. The disk is a constant.

Prof models one ProfData: `Begin`, `End`, and the sections' objects `Enter`, `Exit` and
`EnterOutside`. The hash of a section is an XOR of addresses of names; it is modelled as the
set of names that occur an odd number of times, so that the collisions which every build
has are there (A inside B and B inside A) and those by chance are not. Both frames begin with
a root that has no section (`NoSection`), as the constructor leaves them; `ProfileTree` claims
the sections of a frame from the first `begin()` on and those of the frame before it from
the second on.

### Pure functions

`CmdString`, `CommandLine`, `Conversions`, `ByteStream` and `ExtconProtocol` have no
variables. The run chooses an input in its initial state, and an invariant compares the
functions with a reference definition, or with their inverse. `ByteStream` has calls
that throw half-way, since a composite write that fails leaves its header in the buffer.
Widths of integers, the values of a byte and the sizes of buffers are small numbers.

What is checked of an input is an operator beside the function (`CmdsRightOf`,
`ArgumentsRightOf`, `ReadsMirrorWritesOf`, `ListReceived`, `PrintReceived`), so that the
invariant of the run states it for the chosen input and a theorem for all. Loops over a
sequence are folds; `sendAvailableCommands()`, whose outer loop takes as many names at a
time as fit, is a recursive function of the number of names that are left. That loop need
not end: `AvailableCommands` says what is sent before the message that is repeated for
ever, and whether there is one (`ends`).

`ArgumentsRightOf` compares every result of the command line with a definition by places:
which arguments are positional, commands, tags with a value, flags, and which letters follow
a single dash (`Lettered`). `ConversionsRight` claims a result for the numbers that a type
has, and a refusal for texts without a number and where the standard library sees that the
number is out of range (`Checked`). `ListReceived` and `PrintReceived` claim that names and lines
are read back, and the size of a message (`consts.h:7`) for a list or a line that is within the
limit; the run has names with and without a place in a message, and lists and lines on both
sides of the limit.

## 4. Runs

A passing run hosts several programs or parts: a behaviour is of one of them, chosen in the
initial state (or, in `network`, by its first step), and the variables of the others stay as
they begin. Nothing is composed that the code does not compose; the properties of all parts
are checked in one run.

| Run | Question | Bounds |
|---|---|---|
| `console_output` | three programs. `console`: one safe and one unsafe receiver, replays: does every thread's order hold, is a replay one snapshot, is the flag never stale? `setup`: an unsafe receiver that is added and removed in a debug build: unsafe only on main, each message once, order on each path? `host`: an ExtconHost whose client only reads. In all: does the ring implement the history, does every print return, is every queue emptied? | 3 threads, 3 messages, ring of 2, assertion at 1 |
| `extcon` | four programs. `sessions`: two clients come and go while a thread prints: order, no leak from one session into the next, no gap between replay and live messages; `reconnects`: the same while one of them sends a command. `commands`: several commands with bad payloads among them, run once and in order, also after a failed server was enabled again. `lifecycle`: enable twice, disable, failing server calls, stalled writes: does the shared state agree with the socket? | queue of 2 and 1, ring of 2, 2 prints and all of the worker's, 2 clients, 2 payloads, 2 enables, 1 disable |
| `network` | the server, with callbacks that close any sockets, calls that fail and a program with data of its own: do the two lists agree, is each connection told of once, is each reported event served, is freed data never used, does each closed socket get its callback? The client: is no descriptor lost, do messages arrive whole, is an answer noticed? The parser: is every byte of a stream accounted for, does every call end? | 3 connections, 2 starts, 2 failing calls; 2 attempts, 2 messages of 2 bytes and a newline, descriptors 0 and 3; sessions of 11 bytes in pieces of up to 3 |
| `application` | the main loop: is the buffer a queue, are items found, are the input threads safe, does every command run? FileSystem: is what is found right at the return, does every call return? Prof: is the tree that of the open sections? The pure functions | 4 items of 3 names, 2 StdConsoles, 1 posted and 1 typed line, 1 call and 1 throw, 1 construction or destruction, or (part `items`) 4 of them and 1 posted line; 3 file calls of 2 threads; 3 frames, depth 2, 3 nodes; texts up to 6 characters, 4 arguments, 3 stream items, 5 names |
| `console_replay` | violation: a receiver is called by two threads at once | as `console` |
| `console_assert` | violation: the failed assertion hangs instead of crashing | as `console`, debug build |
| `extcon_wait` | violation: a print waits for ever | 2 prints, 1 command |
| `extcon_disable` | violation: the server stays open after `disable()` | 1 client |
| `parser_pieces` | violation: `parseData()` reads past the end of its piece | 4 bytes, pieces of 2 |
| `tcp_start` | violation: `startListening()` crashes instead of throwing | 1 start, 1 failing call |
| `client_timeout` | violation: an attempt never times out | 1 time-out |
| `fs_deadlock` | violation: `getFilePath()` and `addSearchPath()` wait for each other | `WritersFirst`, 2 threads |

Why the bounds are enough. A ring of two slots wraps with three messages. Three threads
are the main thread and two others that contend; a queue of one or two messages is full
at once, so that the wait happens in most behaviours; two clients are enough for a
reconnection that a tick does not notice; three connections leave a first, a middle and
a last socket to remove while another is accepted, and two starts let a server begin
again after its sockets were shut down; eleven bytes hold two datagrams, or one whose
payload is larger than the limit. Two StdConsoles leave a thread of the first while the
second lives; two of the four items share a name, and four constructions or destructions
let either come first, go and come back. Two commands are in a line, so that a throw of
the second finds the first one done. The bounds count calls, so no interleaving of those
calls is cut off.

Deadlock is not checked: a part that has made all its calls stops in every run. Where a
program must not stop in the middle of a call, a liveness property says so (`PrintsReturn`,
`CallsEnd`, `PostReturns`, `LookupsReturn`).

Fairness: one strong fairness condition per thread over all its steps. A thread that
waits for a mutex released again and again gets it (the standard mutexes do not promise
this; without it nothing here is live), receivers return from `print()`, and the main
loop keeps calling `processMsgQueue()`, `tick()` and the command buffer. A thread takes
part in one program of a behaviour only, so that the condition on the union of its steps
is the one on each. In `network`, weak fairness of `Poll`, `PollStep`, of the client's
loop and of the server that takes its bytes: the programs keep polling and a call that
has begun goes on. The input threads of the terminal are weakly fair once they have a
line. Nothing is assumed about the calls of programs, clients, answers of the network,
or spurious wake-ups.

## 5. What the runs show

Findings (each is a violation run and an entry of `findings`):

- `console_replay`: `console_system.h:44` promises receivers that print is not called
  from two threads at the same time; a replay does not take `m_OutputMutex`.
- `console_assert`: the assertion in `processMsgQueue` is checked with
  `m_OutputMutex` held and reports through `print()`.
- `extcon_wait`: a full queue makes print wait with `m_OutputMutex` held for a worker
  that needs it for its own messages.
- `extcon_disable`: `disable()` closes neither the client nor the server socket, and
  the host cannot be enabled again: `enable()` calls `disable()` first (`extcon_host.cpp:14`), which
  joins the thread a second time and throws (label `threw`).
- `tcp_start`: when `setSocketBlockingMode()`, `bind()` or `listen()` fails, the handler of
  `startListening()` calls `stopListening()` with the socket set and `m_Data` null.
  (In `ExtconHost` a failing start stands for a failing `socket()`, which throws.)
- `parser_pieces`: each read of `parseData()` is limited by the length of the whole piece.
- `client_timeout`: `updateStatus()` looks at the time only when `select()` reports the
  socket; while nobody answers it returns before (`tcp_client4.cpp:89`).
- `fs_deadlock`: `getFilePath()` locks the shared mutex and calls `findExistingFile()`, which
  locks it again; a writer that waits in between stops both (`filesystem.cpp:179`).

What the models show besides. Of the first two the docs say otherwise, and the properties
claim nothing there; of the others no doc says what should happen, and the properties
except them by name:

- `convertStringToVal()` (`utils.cpp:76`, 95 and 113): the range checks join two comparisons by `&&`
  and reject nothing. A number that a `short`, an `unsigned short` or an `unsigned int` does not
  have is truncated and reported as converted, as is a negative number of an `unsigned long`,
  which `stoul` takes, although `utils.h:77` promises true only for a text that was converted;
- the host's messages (`extcon_host.cpp:196`): the payload of a list counts neither the opcode nor
  the count and goes up to 5 bytes beyond `EXTCON_MAX_PAYLOAD_SIZE`, and the payload of a line of
  output is not compared with it at all, although `consts.h:7` calls it the maximum size. A
  name that is too long by itself is followed by the same empty message for ever (`ends` is
  false);
- the parser compares its limit with the size of the header (`datagram_parser.cpp:75`);
- a queued command that queues another one waits for itself (`Stopped`), and one that
  throws stays at the front and runs again;
- an item whose name is taken, or that was there at an earlier `shutdown()`, is found no
  more (`orphans`), and destroying one without an entry erases `end()`;
- a section whose names cancel out in the hash is shown with the name of another
  (`prof.cpp:85`), and leaving one that was entered before `begin()` moves the current
  node (`spoiled`, `prof.cpp:21`);
- `prof_print` follows the section of the last frame's root, which is null until `begin()` has
  been called twice (`prof.cpp:139`, 166): given before, it crashes the program;
- a failed `addSearchPath()` leaves an empty group behind (`filesystem.cpp:127`);
- descriptor 0 is never closed (`socket.cpp:33`).

Everything else holds. `ClosingEnds` needs failures to end: if `accept()` fails in every
round (no descriptors left), `poll()` leaves by the exception each time and never
reaches the loop that would close sockets and free descriptors. Order within a thread
needs receivers that stay: removing the last unsafe one while messages are queued lets
the next message overtake them.

## 6. Theorems

All theorems hold for every value of the constants that satisfies the assumptions
named in the modules (`RingSizeAssumption`, `ThreadsAssumption`, ...) and the hypotheses
that are written with the theorem. Those say that a size is a number (`Sizes`,
`ParserConstants`, `ProfConstants`, `TextSize \in Nat`; the base of a byte and the number of
nodes are not 0, and 0 is a descriptor that the system may give), that a value which stands
for nobody is not a thread (`NoThread \notin Threads`, `NoItem \notin Posters \cup {Main}`), or
which program is meant: `LateRegistration = FALSE`, receivers are registered before other
threads run, and `RemovableReceivers = {}`, they stay (see ConsoleOutput above; the code
does not synchronize `m_RecvList`, and a receiver that leaves breaks the order). Two more,
`PowersOfTwo` and `PowersOfBase`, are laws of arithmetic: the provers have no definition of
`^`. The assumptions of the modules about the streams are that a byte has more than one
value (`BaseAssumption`), that the magic is made of bytes, and that the buffer has a place for
the largest list and a size that four bytes hold (`ProtocolAssumption`; 16397 of 65535 bytes in
the code).

`RingPushContents` (MsgRing_proofs): a push appends to what a replay shows and drops
the oldest message of a full ring. It rests on `RingContentsAt`, which gives the
slot of the i-th oldest message.

ConsoleOutput_proofs: the inductive invariant is a conjunction that grows with the
theorems. `Types` and `Placed` say who is where: a thread's label fits its function,
only the main thread flushes, replays and registers, and whoever is past a lock owns
the mutex. `FlagInv` says what the flag means at each point of
`updateThreadSafetyState()`; it needs `LateRegistration = FALSE` and gives
`UnsafeReceiversOnMain` and `FlagIsNeverStale`, which are not inductive themselves:
a thread that delivers directly has read the flag in an earlier step. `Bounded` counts
the prints in progress, so that each message fits `Msgs`; `RingInv` says that the slots
which a replay reads were written; with them every step is a push or leaves the ring
alone, and `RingImplementsHistory` maps the push to `Remember`. `Carried` types what is
carried between places and gives `TypeCorrect`. `RingTail` and `ReplayInv` say that the
ring holds the last numbers of the log and that a replay has shown those up to its cursor:
`ReplaysAreSnapshots`, since nobody pushes while it has the mutex. For the delivery,
`WayInv` says that the queue is in the order of the log and what is delivered directly is the
log's last, and `GivenInv` that what a receiver was given is before all that it still awaits
on the same path. They give `ReceiversShownInOrder`. `OnceInv` says that what is owed to a
receiver was given or is on its way to it, which no message is twice: `ReceiversShownOnce`.
`PathInv` and `DirectIsLatest` say that once a message is queued no other thread prints
directly, because the flag does not change while such threads run, and that a direct one is
given before the next is printed: `ThreadsKeepOrder` and, for the program in MCConsole, `ConsoleKeepsOrder`.

ExtconHost_proofs: `HostInvariant` is one inductive invariant, `IInv`, of parts that are
preserved one after the other; each part has a lemma (`RingSteps`, `QueueSteps`, ...) that
names the few actions which touch it and shows that every other step leaves it alone.
`Placed` again says who is where, and where a print returns to: only with it does the
worker's own print keep what it holds. `RingInv` is the ring's, from the lemmas of
MsgRing_proofs. `QueueInv` says that the feed of the client is what was sent, then the
message in the worker's hand, then the queue; without the middle part `FeedDelivered` is not
inductive. `NetInv` types the sockets: an event is pending only for a socket that exists,
and while a command is echoed it is the head of the chunk. `CmdInv` is `CommandsInOrder`
with its types. `StateInv` extends `StateMatchesClient` from the start of a round to every
label: it holds through a join because a server that still listens is never started a
second time. `MutexInv` and `FeedInv` follow a message from the ring to the queue: whoever
has pushed one and not queued it has `m_OutputMutex`, and a replay has queued all up to its
cursor. The property speaks of the moments when nobody is in between (`Settled`): nobody has
that mutex, and the main thread is not in the replay or a print inside of it. The theorems
are `HostTypeCorrect`, `FeedIsDelivered`, `FeedHasNoGap`, `CommandsKeepOrder` and
`SharedStateIsTrue`.

For the server, in Network_proofs: `Lists` holds what the loops need: both the sockets and the waiting
connections are in the order of arrival and every waiting one is later than all that
were accepted, so that an accepted one is new to the list; the poll entry after the k-th
socket's own is that socket's; and each loop's index is within the lists. It needs
`Running` (a loop runs only while the server listens, and then `m_Data` exists). It
gives `ListsStayAligned`, and the effect of erasing an entry comes from
`RemoveAtProperties`. `ToldInv` says that a listed socket is open and untold, except
those that the loop of `stopListening()` has passed, which stay listed until it ends;
with it follows `CallbacksComeOnce`. `CountInv` says that `num` is the number of entries
beyond the index that have an event: an accepted connection is appended without one, and
each served entry takes one off, so the loop cannot stop before the last event:
`EventsAreServed`. What is left of the types follows from these parts: `TypesHold`.

TcpClient_proofs: `NoDescriptorLost` is inductive by itself; every step of the loop but
`Connect` and `Established` closes the descriptor or leaves it alone
(`LoopClosesOrStays`): `DescriptorsAreClosed`. `MessagesWhole` needs `WireInv`, which
says that what is on the connection ends at the place in a message where `writeAll()`
goes on, in terms of multiples of a message's length; `Remainder` turns those into `%`.
It gives `MessagesAreWhole`, for texts of any size, and with it `TypesHold`: the span
that `writeAll()` has left is a part of the buffer.

The rest of Network_proofs is about the specification that TLC checks. A step of the client or of the
server in it is a step of the component, or leaves it alone, so that their invariants hold
in it: `NetworkKeepsDescriptors`, `NetworkKeepsMessages`. `UserDataIsListed` says that the
program's objects are those of the listed sockets which were not told of yet; the loop of
`stopListening()` tells of sockets that stay listed behind its index, and with `ToldInv` of
the server's proofs no callback finds an object gone: `ObjectsLiveWithTheirSockets`.

For the parser, `StreamInv` is `ParsesStream` in the middle of a call: the stream is the
delivered datagrams, what `Partial` reconstructs of the next one from the buffers, and the
bytes that the call has not come to. Every round moves a piece from the last part to the
others (`AccountMoves`). `PartInv` says what is known of each buffer in each stage: the
bytes of the magic so far are its prefix, the size that was read is the one in its field.
The lemmas below it compute with bytes: `CopiedBytes` for a copy into a buffer,
`SizeFieldOfValue` for the bytes of a size giving that size back, `FlattenAppend` for one
more datagram. They give `ParserAccountsForStream`, for any alphabet, lengths and pieces,
and the counters' ranges: `NetworkKeepsTypes`.

Such lemmas need induction. An induction theorem of the library with an operator for a
parameter is out of the provers' reach, but the one that every non-empty set of numbers has
a least member (`WFMin` with `NatLessThanWellFounded`) is not: `Induction` states it for a
set that holds 0 and with each number the next, and `Recursion` derives from it the values
of a recursive function, which is why the models write `LittleEndian`, `SizeField` and
`Entered` as functions.

FileSystem_proofs: `MutexInv` derives who has the shared mutex, and how, from where each
thread is: the groups change only while one thread has it alone, and every other thread that
is between its lock and its return has it shared. So `LookupInv` can say of a search in
progress that none of the paths before its position has the file, and of a listing that
each entry is that of the first path which has it, and it stays true whoever else runs.
`EmptyInv` says that a group without paths is about to get one or that adding one failed.
They give `LookupsAreRight` and, with `Types`, `TypesHold`.

AppLoop_proofs has three invariants, each over the few variables that it is about, and a
lemma per step of the others that leaves them alone. `CmdInv` says that while the mutex
of the buffer is held the running command is its front, and counts the commands that the
call has left: without it a pop would not be known to take what ran. It gives
`BufferIsAQueue`. `LibInv` relates the ConsoleSystem to the count of initializations,
also in the middle of a shutdown; with it `RegInv` says that an entry has its item's own
name, that nothing is pending while there is a ConsoleSystem and nothing registered
while there is none: `ItemsAreFound`, for any items, of which any may share names;
`RegisterAllProperties` is the lemma about the map. `ReaderInv` says that a StdConsole
that exists is the only valid one and that a reader which found it so has the mutex that
its destructor needs: `ReadersAreSafe`. `LoopTypes` is what these leave of the types:
`LoopKeepsTypes`.

Of the specification that TLC checks, `AppKeepsLoop` states these properties again and
`AppFindsFiles` those of FileSystem. For the profiler, `ProfInv` says where every open
section goes back to: the node under which it was entered, which is the current one once the
sections above it have been left (`GoesBack`), as long as no section was left that an
earlier frame had opened (`spoiled`). The names on the way from a node to the root, and
those of the open sections, are recursive functions; `WayGrows` and `EnteredBelow` say what
one more node and one more section do to them. `NodesHaveSections` is what it knows of the two
trees before they have been begun. It gives `ProfilerKeepsTree`, and
`AppKeepsTypes` collects the types of the three parts.

For the conversions of numbers, `ConversionsAreRight` takes any widths of the types for which
`short` is not longer than `int` and `unsigned short`, `unsigned int` and `unsigned long` are
in this order (`WidthAssumption`). An assignment keeps a number up to a multiple of the values
of its new type (`NarrowRight`), which the values of the old type are a multiple of
(`ValuesGrow`), so that what is right for `unsigned long` stays right on the way to `unsigned
short` (`ThroughRight`). Its hypothesis `PowersOfTwo` is the law of powers, 2^(m+n) = 2^m 2^n,
for naturals: the provers have no definition of `^`.

PureFunctions_proofs is about functions without state. `FoldLeft` is defined over sets of
places, by choosing an order of them: `LeftFolds` shows that it is the run of a machine
from state to state along the sequence, and `SeqInduction`, again from the least member of a
set of numbers, gives what holds of every run. What remains is an invariant of each machine.

- `TextsRight`, of `CmdString`, takes any alphabet with the three special characters. The
  parser holds the finished commands, the finished arguments and what it has of the current
  one; a text made by `toString()` is followed through it argument by argument
  (`CmdsRoundTrip`). For the characters that a text keeps, what the state has so far is compared
  with what was read of the text.
- `ArgsRight`, of `CommandLine`, takes any number of arguments. Between two of them the parser has
  at most a tag that waits for a value; the invariant says which arguments were taken for
  what, and `Twice` is when a tag would get a second value. Tags with a value, flags and letters
  are equal to those of the places read so far (`FlagsRight`, `LettersRight`), so that none
  may be missing.
- `MirrorsRight`, of `ByteStream`: the bytes of a number in the buffer are little-endian, and a
  big-endian platform reverses them when it writes and when it reads, so they give the number
  back on either (`NumberMirrors`); a writing stream and one that reads the final bytes agree on what lies before the
  offset, so they stay at the same place after every call, also after one that threw.
- `PrintRight` and `ListRight`, of `ExtconProtocol`: `Holds` says which bytes lie at which place
  of the buffer, and `Outside` that a write leaves the rest alone; so the size and the count,
  which are written last and in front, disturb nothing. `FilledRight` says that a message
  takes as many names as have a place in it and no more. The recursion over the names that are left
  is well-founded since a message which another one follows has taken a name (`ListIs`); by
  induction over them, the messages hold all the names in their order if every name has a
  place in one. `FillSize` says that a message is full only if the names have more places than the
  limit, so that a list within it is one message (`OneMessage`).

`CmdsAreRight`, `ArgumentsAreRight`, `ReadsAreMirrored` and `MessagesAreReceived`
(AppLoop_proofs) carry this to the specification of the run, by the types of its inputs.

Only model-checked: liveness (`PrintsReturn`, `QueuesEmptied`, `ClosingEnds`,
`CallsEnd`, `ClientServed`, `PostReturns`, `CommandsRun`, `LookupsReturn`), which is out
of the prover's reach, and `AttemptTimesOut`, `FailedAssertReports` and the other properties
that a run refutes.

## 7. Not modelled

- SHA256 (`sha256.cpp`): a pure computation on words that its test vectors check better.
- Binary files: std::fstream with no state of their own. GLM vectors: their components.
- Float conversions, string helpers, `Timer`, `span`, `unique_function`, platform and compiler
  macros other than the byte order: no state and no hazards.
- The formatting of socket addresses, and the wrappers of system calls beyond their outcomes.
- Prof: times, the commands that print, several `ProfData` (frames of two of them never
  overlap, since `begin()` asserts that none is active).
- ExtconHost: the focus-request flags, two independent atomics, and a write that takes
  part of a message, which is counted as lost.
- Texts, tags, colours and the layout of what is printed.
- The hello-world example, the vendored doctest, the build files.
