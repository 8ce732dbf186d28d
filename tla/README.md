# A TLA+ model of rebear

rebear watches and patches the Flash memory of a storytelling teddy bear. An
FPGA sits on the SPI bus between the bear's controller and its Flash; a
Raspberry Pi reads the recorded transactions from the FPGA, gives it patches to
apply and presses the bear's button over GPIO; a GUI shows and edits all of it,
on the Pi itself or, through `rebear-server`, from another machine.

The modules here model that program as it is written, at one commit of the
repository: every definition is translated from the source lines that
`PROJECT.json` names for it. TLC checks them on small instances; for all of
them but the ready line (network client, network server, GPIO service, SPI service
with its buffer layout, command line tool, the GUI's patch list and its session, the
codecs) TLAPS proves the safety properties for every value of the constants. Where the code does not do what its documents say, a run shows it or
the section *Known disagreements* describes it.

* `tlc -workers 2 -config X.cfg M` checks a run (`PROJECT.json`, `runs`, pairs
  the modules with their configurations).
* `tlapm M.tla` checks the proofs of a module `*Proofs`; they take from seconds
  to a few minutes each.

## 1. The system

```
  MainWindow, HexViewer, PatchEditor, TransactionViewer        (src/gui)
     |  local                          |  network
  SPIProtocol, ButtonControl,      SPIProtocolNetwork, GPIOControlNetwork
  BufferReadyMonitor                   |
     |                             NetworkClient                (src/lib)
     |                                 |  TCP: header, payload
     |                             NetworkServer, CommandHandler (src/server)
     |                                 |
     |                             SPIProtocol, GPIOControl
     +---------------+-----------------+
               kernel: spidev, GPIO character device or sysfs
               FPGA: patch buffer, transaction queue, ready line
```

| Component | State it keeps | Operations | What is hard | What makes it correct |
|---|---|---|---|---|
| Network client (`network_client.cpp`) | socket, `connected_`, `running_`, the receive thread, one `PendingResponse` slot per type, a condition variable | `connect`, `disconnect`, the destructor, `sendRequest` of any number of threads, `receiveLoop` | send and wait are two critical sections; slots outlive their callers; notifications can be missed; the connection can go at any point | each response goes to one call of its type and in order; every call ends; `disconnect` ends and leaves no thread; no wakeup is lost |
| Network server (`network_server.cpp`, `main.cpp`) | `running_`, `server_fd_`, `client_threads_`, a thread per client | `start`, `stop`, `acceptLoop`, `handleClient` | stop against accept and against reads that block; clients that close mid-request; SIGPIPE | one response per request in order; `stop` leaves no thread and returns |
| GPIO service (`command_handler.cpp`, `gpio_control.cpp`, `gpio_control_network.cpp`) | `gpio_pins_`, the kernel's lines and exports, `is_open_` of every client | `GPIO_INIT`, `CLOSE`, `WRITE`, `READ`, `WAIT_EDGE` | the clients share one map; a wait holds a pointer without the mutex; requests that were given up on are handled later | who believes the pin open has it, and has it alone; the map and the kernel agree; no wait on a destroyed object |
| SPI service (`command_handler.cpp`, `spi_protocol.cpp`, `spi_protocol_network.cpp`) | the server's one SPI device, the FPGA's patch buffer and transactions, `connected_` of every client | open, close, upload, set, clear patches, dump, read and clear transactions | headers, offsets and terminators on both sides of the network; late requests and responses; reading destroys | what the FPGA applies is one whole upload; a transaction is read once and in order |
| Patch buffer layout | none | build, parse, detect the old format | widths, offsets, terminators | part of the SPI service |
| Message framing (`protocol.cpp`) | none | encode and decode messages and their fields | a length of 16 bits; a payload that is cut | a message arrives as it was sent, and is not taken for complete before |
| Command line tool (`cli/main.cpp`), programs of the library | the transactions a process has collected, its exit status | open, the calls of a command, close | several processes on one device, signals, calls that are given up on | an exit status of 0 is true; no transaction goes missing between processes; the device is left closed |
| Escape codec, transaction decoding, address coder | none | encode, decode, `transfer`; `encodeAddress`, `decodeAddress` | window sizes; a basis modulo 2^24 | decoding undoes encoding |
| Button, buffer monitor (`gpio_control.cpp`) | a GPIO line each | init, press, release, click, `isReady`, `waitReady`, `setCallback` | edges before the wait; a detached thread | what is said of the button is so in the end |
| GUI patch management (`mainwindow.cpp`, `hex_viewer.cpp`, `patch_editor.cpp`) | `patches_`, the modified bytes, the ids of the automatic patches, the edit dialog | add, edit, remove, clear, apply, refresh; the timer that turns modified bytes into patches | the timer fires under dialogs; ids identify patches but are renumbered; uploads fail half-way | the modified bytes are in the list and in the FPGA; nothing of the user's is lost |
| GUI session (`mainwindow.cpp`, `transaction_viewer.cpp`) | the device objects, the table of transactions, the poll timer, the button's state | connect, disconnect, poll, clear, press, release, click | a connection that fails half-way; a poll that reads ten at most; calls that time out | every recorded transaction is shown, in order; what is left is closed |
| GUI connection dialog, `hex_viewer_new.cpp`, most examples, tests | - | - | - | see *Not modelled* |

**How they interact.** The GUI calls its device objects and waits for each call.
A network device object calls `sendRequest` on its `NetworkClient`; the request
travels over TCP to the thread that serves the connection, which calls
`CommandHandler`; the response comes back to the client's receive thread, which
puts it into a slot by its type and notifies. The handlers of all connections
share one `SPIProtocol` under `spi_mutex_` and one map of GPIO objects under
`gpio_mutex_`. The widgets talk to the main window through Qt signals, which are
direct calls in one thread.

## 2. The modules

| Module | Models | Built on |
|---|---|---|
| `NetworkClient` | one `NetworkClient` object, its threads and its connection | - |
| `ConnectionService` | abstract: what a connection to the server promises | - |
| `NetworkServer` | the server and its clients' ends; each connection implements `ConnectionService` | `ConnectionService` |
| `ClientLine` | abstract: what a client object sees of its `NetworkClient`; `NetworkClient` implements it for threads with types of their own | `RequestLine` |
| `RequestLine` | the requests and responses between each client object and the server, as the two modules above leave them to the services | - |
| `GpioService` | the GPIO handlers and the clients' GPIO objects | `RequestLine` |
| `PatchBuffer` | layout and parsing of the patch buffer, the message's length | - |
| `SpiService` | the SPI handlers and the clients' SPI objects | `RequestLine`, `PatchBuffer` |
| `Cli` | processes that run commands of `rebear-cli`, or programs of the library, on one server | `SpiService` |
| `BufferReady` | the ready line, its edges, `waitReady` and the threads of `setCallback` | - |
| `GuiPatches` | the GUI's patch list and the FPGA's patches | - |
| `GuiSession` | the GUI's connection, poll, button and table | `RequestLine` |
| `Codecs` | escape codec, transactions, messages, address coder | - |
| `NetworkClientProofs`, `NetworkServerProofs`, `GpioServiceProofs`, `SpiServiceProofs`, `GuiPatchesProofs`, `GuiSessionProofs`, `CodecsProofs` | theorems about the component (`SpiServiceProofs`: of `PatchBuffer` and `Cli` too) | the module they are named for |
| `RequestLineProofs` | lemmas about the lines of the services | `RequestLine` |
| `MC*` | instances for TLC | the module they are named for |

A mutex-protected section of the code is one action. What the code does between
two of them, or around a call that blocks, is a control state of its own.
Definitions such as `BeginWaitKeepOld` or `RecvStoreSilently`, marked *Fault* in
their comment, are no part of the specifications: they are what a definition
would be after a plausible slip in the code, and `PROJECT.json` lists under
`mutants` which property then fails.

### NetworkClient

`ctl` is the controlling thread (inside `connect`, `disconnect` or the
destructor), `rpc` the receive thread at each of its blocking calls, `pc[c]` a
thread in `sendRequest`: after `sendMessage` has released `mutex_`
(`SendMessage`), inside `waitForResponse` (`BeginWait`, `Recheck`), blocked in
`wait_until`, or woken by a notification, a deadline or for nothing
(`SpuriousWakeup`). `pending[t]` is the slot of response type `t`. Requests carry
their place in the order of sending instead of a payload, so that a response says
which request it answers: that is what the properties compare. `Serve` and
`PeerClose` are the server's end, reduced to what `ConnectionService` promises.

### NetworkServer and ConnectionService

`mpc` is the main thread in `main.cpp`'s loop and in `stop()`, `apc` the accept
thread, `hpc[c]` the thread of connection `c` at `poll`, at the read of the header,
at the read of the payload, in the handler, and sending. A client sends headers
and payloads at its own pace and may close in between. `Up` is the refinement
mapping: a connection is up until its thread is done or the process was killed.

### RequestLine

For each client object: `call`, the call it is in; `sent`, requests that have not
been handled; `back`, responses that have not been read. It states, as operators
that the services use, what the network leaves of a call: it ends with the oldest
response that is there (`Take`, which may be the response to an *earlier* call of
the same kind, for the client matches by type alone), or with nothing when the
deadline passes or the connection is lost (`Lose`); a request that was given up on
is still handled later, and a response nobody waits for is dropped (`Drop`).

`ClientLine` closes the chain from the sockets to the services: it is `RequestLine`
with a server that answers each request, and `NetworkClient` implements it
(`LineSpec`) when no two threads share a type. The mapping makes a thread's call,
the requests the server has not read and the responses on their way, or in the
slot of the type, into `call`, `sent` and `back`. In `ClientLine` requests and
responses are lost with the connection, several at once and at any time (`Fail`: all
requests that have not been read, and responses that follow each other);
the services lose them where a call gives up or a response comes late, and
continue on the same connection, because a device object reconnects on its next
`open` only. Neither lets anything be answered twice, overtaken, or ended by a
response of another type, and that is what the services rest on.

### GpioService

`ctrl[p]` is the object in `gpio_pins_`, with the epoch of the export it was made
in; `holder`, `export` and `up` are the kernel's side, for the character device and
for sysfs (`charDev` chooses; it never changes). `wait[u]` is the object whose pointer
a `GPIO_WAIT_EDGE` handler uses after it has released the mutex (`WaitLookup`, then
`WaitEnd`). The order inside `InitSysfs` is the code's: the new object takes the
pin, and then assigning it to the map destroys the old one, whose destructor
unexports the pin it shares.

### PatchBuffer and SpiService

A patch is its id, address, length, one value for its data, and `enabled`. A buffer
keeps the headers, the chunks of the data section with their positions and its
size: the offsets the code computes are computed, and a reader that uses a wrong
offset reads `Junk`. It has no ids; a reader numbers the patches as they come
(`Numbered`). `Carried` cuts the buffer where the 16-bit length of a message
does. `Understood` and `UnderstoodSingle` are what the server makes of a payload, which
it tells apart by size and first byte: the first byte of a single patch is its id, which
`setPatch` sends as it is, and with 0x80 (`Stored`) the 14 bytes are read as a buffer. Each handler is one action (they run under `spi_mutex_`); the FPGA is the
buffer it was given last and a queue of numbered transactions.

### Cli

`job[p]` is the command of process `p`, `at[p]` the call it makes: it opens, makes
the calls of its command, closes, and exits with `status[p]`. `Opened`, `Read` and
`Worked` say what a command makes of the end of a call; `Write` is the file of
`export`, which is written when the device is closed already. A command that is
refused has opened the device and returns without closing it; the destructor of
`SPIProtocolNetwork` does. `Kill` is a signal, at any time. `truth` and `upset` are history: what the FPGA held when the call of a
process was handled, and whether a call was lost or a process killed. The actions of `SpiService` do the
rest, so that a step of `Cli` is one of `SpiService` or leaves it unchanged.

`cli/main.cpp` has a closing brace too many at line 517 and an undeclared
`fromFile` at line 544, and does not compile; it is modelled as it reads without
the two.

### BufferReady

`mark` is the kernel's edge event of the sysfs file, which a read removes; `thread[t]`
a thread of `setCallback` at the top of its loop, in `poll`, before the read that
follows, in the callback, and in a callback that has made its last read and is about
to return; `wait` the caller of `waitReady` likewise. All share
one descriptor. The callback that is modelled reads until the FPGA holds
nothing, which is the best a callback can do. `untold` is a history variable: it
begins when the line rises while a callback is about to return, and ends with the line,
with the next callback, or with a `waitReady` that returns true.

### GuiPatches

One Qt event is one action, with every signal it emits: `AutoApply` is the hex
viewer's timer with the removal of its old patches, the grouping, the additions,
the upload and the reading back that renumbers the list. Modal dialogs run an
event loop in which only the timer fires; the edit dialog is the one that keeps
something (`selected`, `stale`) across it.

### GuiSession

`at` is the call in which the GUI thread waits; `Proceed` says for each call what
the handler does with its result and which call is next. `remote` chooses between
the network objects, whose calls travel over `RequestLine`, and the local ones,
whose calls always end with their own result. A poll ends at a transaction with the
address `0xFFFFFF` (`Blank`): whether it is the one the driver makes up for an empty queue or one
that was recorded, it is not shown. The GPIO of the server is the character device or
sysfs, as the run likes at each init: with sysfs the init of a pin that is still held,
because a close was lost or an init given up on, succeeds and leaves an object that has lost
its export (`dead`), whose level is always 0 and whose writes fail.

### Codecs

The responses that `transfer()` receives, byte by byte; the messages of up to
`MaxFields` fields and a block of data (a patch buffer, of which only the size is
kept); and the input field of the address coder under any sequence of presses of
its two buttons. A loop of the code is a function of the number of its rounds, which
TLC evaluates and the proofs can reason about.

## 3. The runs

| Run | Question | Instance |
|---|---|---|
| `NetworkClientShared` | Two threads that use the *same* type while the controller connects, disconnects, reconnects, and the connection is lost: does each response go to one call, in order, with no lost wakeup, and does `connected_` mean a live receive thread? | 2 threads, 1 type, 3 requests, 2 connections |
| `NetworkClientWaiting` | Threads with types of their own: has an answer the type that was asked for, is it stale only after an earlier failure, does every call return, does `disconnect` return and free those who wait, does the client implement `ClientLine`? | 2 threads, one with 2 types and one with 1, 2 requests, 2 connections, fair |
| `NetworkClientReconnect` | "automatic reconnection" after a loss (*violated*) | 1 thread, 1 request, 2 connections |
| `NetworkServerServes` | Does each connection keep the promise the client rests on, does `stop` join everything and return, are requests answered, and who can kill the process? | 2 connections, `max_clients` 1, 2 + 1 requests, fair |
| `GpioServiceShared` | Clients of one pin, giving up and trying again: agreement of map, kernel and clients | 2 clients in either direction, 1 pin, 2 requests on the way each, 3 objects, both back ends |
| `GpioServiceWaiter` | "Thread-safe command execution" with sysfs (*violated*) | the same |
| `CliProcesses` | Do processes get along: is what the FPGA applies one whole upload, exactly the one reported to have worked; is an exit status of 0 true; is each transaction read once, in order, and none lost while all is well; is the device closed in the end? | 2 processes, one with 4 commands, one with all 11; uploads of 2 to 4 patches with a disabled one and one of 600 bytes; single patches with the ids 3, 16 (refused) and 128 (read as a buffer); 2 transactions |
| `BufferReadyCallback` | "Function to call when buffer becomes ready" (*violated*) | 1 callback thread, 2 transactions, with sysfs and without |
| `GuiPatchesEditing` | Is the grouping legal and minimal, and do list and FPGA follow the modified bytes? | addresses 0, 2, 3, 7 with gap 1 and size 3; 2 automatic patches; room for 2 in the FPGA and 3 in the list; 1 change by hand, with a patch on a byte between two others |
| `GuiPatchesManual` | Does the timer replace the automatic patches only (*violated*) | the same |
| `GuiSessionPolling` | Is every transaction shown, in order; is what is left closed; does the button come up? | 3 transactions, the second at address `0xFFFFFF`, 2 per poll, 2 lost calls, local and remote, both back ends of GPIO |
| `CodecsExact` | Do codec, transfer window, transaction, message and address coder return what was put in? | responses of up to 8 bytes over 4 values, 3 fillers; 3 fields of 4 kinds and 8 sizes of data around the limit; 4 addresses, 25 presses |

### Why these bounds

* *Client.* Three requests of two threads on one type let a response be late for
  one call, be taken by the next and have a third behind it; two connections are
  one reconnection, with the slots of the first still there. Nothing in the code
  counts further: a slot holds one response, and a thread has one request.
* *Server.* `MaxClients` is the backlog of `listen` and limits nothing else: with 1
  and two connections the queue is full at times, and both are served; two requests on a connection make "one after the
  other" mean something, a second connection makes `stop` meet one thread that
  serves while another is being accepted.
* *Services.* A client with two requests on the way is one that gave up and tried
  again. Three GPIO objects are one that is used, one that replaces it, and one
  made after both are gone. The uploads contain what the layout treats
  differently: several patches, a disabled one in the middle, more than 255 bytes
  of data, one of eight bytes that fits the single-patch request. Two transactions
  are the least that have an order, and that two readers can share. One process of
  `CliProcesses` may go on after a call it gave up on, which leaves it a late
  response; the other has every command to meet it with.
* *GUI.* The limits of the code (gap 8, size 256, 8 patches, 10 reads) are
  parameters and scaled down so that each is reached and passed: the addresses make
  one group, two or three, with one gap that is joined, one that is not, and one
  that would be but for the size. `MaxHand` bounds the changes other than byte
  edits; more of them only repeat. `MaxReads` 2 with three transactions makes one
  poll not enough; `MaxLosses` 2 lets a call be lost and the one after it be
  answered by its late response.
* *Codecs.* The four values are the two bytes that are escaped, `0xFF` of which the
  mark of an empty buffer is made, and one other. Eight bytes are a whole transaction
  of the FPGA, and all 4^8 are tried. The numbers in messages are those at the ends of
  their widths (for 32 bits the largest that TLC counts to; the proof has all), the sizes of the data those that leave a message just below, at
  or above the limit, or make its length wrap to 0 and to 4. TLC
  follows the orbit of four addresses through 25 presses; all 2^24 are a matter of the
  proof.

### Deadlock

Deadlock is checked unless the system may really stop: a client may disconnect for
good and its process end, the server may have stopped, and the bounded requests and
transactions of the services may be used up. These configurations say
`CHECK_DEADLOCK FALSE`. The GUI and the codecs always have something to do.

### Fairness, and why the code justifies it

* `NetworkClient!FairSpec`: the controller, the receive thread and the calling
  threads go on when they can. They are OS threads, and none holds `mutex_` while it
  blocks, except in `send` (see *hazards* in `PROJECT.json`). `poll` has a timeout of
  100 ms, so the receive thread is never stuck in it. That deadlines pass
  (`DeadlinesPass`) is a premise of `RequestReturns` only: `disconnect()` is shown to
  free the waiting threads without them. Nothing is assumed of the server.
* `NetworkServer!FairSpec`: the main, accept and handler threads go on when they can;
  their polls time out. A handler ends: `GPIO_WAIT_EDGE` waits with the timeout that the
  request gives. A negative one would make it wait for ever, and then `stop()` too; no
  caller in the repository passes one, and fairness supposes that no client does.
  That clients finish a request they began (`ClientsFinish`) is a premise of
  `StopReturns`, because the code needs it: see below.
* `GuiSession!Fairness`: a call ends, by its response or its deadline; a request that
  arrived is handled and a stray response is dropped; and the poll timer is *strongly*
  fair, for between the user's events Qt delivers a timer that has expired. Without
  it a user who never stops clicking would starve the poll.
* `BufferReady!Spec`: the callback threads and the caller of `waitReady` go on; `poll`
  returns when its second is over; a callback makes its calls and returns. The counterexample
  keeps to this: the thread waits for an edge again and again.
* `GpioService`, `SpiService`, `Cli`, `GuiPatches`, `Codecs` state safety only and assume none.

## 4. What is proved

For every number of threads, clients, processes, types, pins, patches, transactions
and requests. The proofs use the assumptions named in the modules
(`TypesOfAssumption`, `GpioAssumption`, `SpiAssumption`, `CliAssumption`,
`GuiAssumption`, `SessionAssumption`, `CodecsAssumption`), which TLC evaluates in the runs. They say what kind of thing a
constant is, with one exception in `CliAssumption`: the patches of a command line
are enabled, as `main.cpp` has no way to say otherwise. Three theorems have a
hypothesis of their own, each for a reason in the code: `TypesApart`, `AskedFits`
and `SinglesOfEight`, below.

**`NetworkClientProofs`.** `TypeCorrect`, `DeliveredOnce` (`AtMostOnce`),
`DeliveredToItsType` (`AnswerHasType`), `DeliveredInOrder` (`AnswersAdvance`),
`ConnectedIsServiced`, `StoppedIsJoined`, `NoLostWakeup`. "No response is handed out
twice" is not inductive. The argument: `taken` is below or at `served` and only the
receive thread advances it; the response in a slot, the one the receive thread has
in its hands and those already handed out are all of different requests, and for a type
what was handed out is older than what is in the slot, which is older than what
the receive thread holds. A step moves a response from one of these places to the
next, under the lock. The action property follows from the same invariant. The three
about threads rest on the control points: which flags hold at each point of
the controller, and that a waiting thread is in `wait` only while its slot is empty
and `running_` holds or the notification is still to come.

`LateAfterFailure` (`StaleOnlyAfterFailure`) is about the worst the matching by type does:
a call may be given the response to another one. When no two threads share a type
(`TypesApart`, which is how the device objects use a client), that other one is an
earlier call of the same thread, type and connection that failed. The invariants are
`HistoryInv`, that every request but the one a thread is in has returned, that the
connections of the requests ascend and that what the receive thread still has to read is of
this connection; and `SlotNew`, that what a waiting thread finds in its slot is of no
earlier connection than its request, for `BeginWait` clears the slot. With threads that share
a type the statement is false: there one is given the other's.

`ImplementsLine` (`LineSpec`): under the same `TypesApart`, `NetworkClient` implements
`ClientLine` for each thread. A thread's requests are picked out of everyone's by a
recursive function (`RequestsOf`), and what it returns for one request more at either end
(`LastRequest`, `FirstRequest`) is proved by the least place at which it would not. As a
`ClientLine` that is reduced to types moves just as one with records does (`RecordMove`),
every action is shown to be a move of the types, or to leave them alone: sending adds to
the thread's own requests and to no one else's, serving moves the first of them to its
responses, the receive thread moves the first response into the slot, where it stays the
first, or drops one whose call is over, a call takes it from there or fails, and a new
connection cuts what was under way on the old one. `SendersInv` is the counting this
needs: there is room for a request of everyone who is about to send one.

**`NetworkServerProofs`.** `TypeCorrect`, `StopJoined` (`StopJoinsAll`),
`OnlyImpatienceKills` (`KilledByImpatience`), and `ServesConnections`: every step of the
server is, for each connection, a step of `ConnectionService` or changes nothing of it, so
the run's `ServiceSpec` holds for any number of connections. The invariant has four
parts. `Connected`: a connection is accepted once, and has no thread before. `Joined`: each thread
that runs is in `client_threads_`, and `stop()` joins those only when the accept thread is
gone, which could add another; this is why the order of the joins matters. `Accounted`: the answers, the
request in the handler's hands and the complete requests on the wire are together at most what the
client asked. From it follows `Killed`: a send that meets a reset was made for a request that was not
answered, so a client that waits for its answers never kills the process.

**`SpiServiceProofs`.** `TypeCorrect`, `ReadOnce` (`ReadOnceInOrder`), `UploadsArrive`
(`UploadExact`), `UploadsStayWhole` (`WholeUploads`). That clients get the transactions once and in
order is not inductive, for a response on its way carries one too. `Ordered` says so of the
three places together: what a client has is older than what is on its way to it, which is older
than the queue, and no two clients have, or will have, the same. A call that was given up on
leaves its response in the line, where its number keeps its place. `UploadsArrive` needs the layout's
theorem: the handler parses what was cut at the message's length, and lays it out anew.
`SinglesOfEight` is a hypothesis of `UploadsStayWhole` because over the network `setPatch`
sends eight bytes whatever the length, so that for other lengths the FPGA is given a patch
nobody asked for. `WholeUploads` itself has a premise, `AllLegible`, for what the server takes for
something else: uploads cut at the message's length, buffers of 14 bytes that begin with a
disabled patch, and single patches with the id 0x80 whose address ends in 0x00. With another
address the patch of such an id is not found, and an upload of nothing clears the FPGA: the
theorem covers that, as nothing is a whole upload too.

The layout of the patch buffer is proved in the same module. `LayoutsAgree`: for every list of valid patches whose message fits
its 16-bit length, the server's parser and the FPGA find in the client's layout the
same patches, which are those before the first disabled one, with their addresses,
lengths and data; and laid out again by the server, as it does before it uploads, they are
still the same. `EnabledListArrives` is the case without a disabled patch. What the layout
computes for position `n` sums over the lengths before it; a reader stops at the first terminator.
Where one would argue by induction over positions, the proofs take the least element of
a set of counterexamples (`LeastElement`), which needs no induction rule.

The processes, also in that module. `CommandsUseService`: `Cli` implements `SpiService`, so `PromisesKept` and
`CommandsStayWhole` hold for any number of processes without a further proof. Of the processes
themselves: `ExitZeroHolds` (`ExitZeroIsTrue`), `ClosedAtEnd` (`ClosedBehind`), `NothingMissing`
(`NothingGoesMissing`). `Doing` ties the call on the line to the place in the command. `Undisturbed`: while
nothing is lost a process has one request or one response on its way and nothing else.
`Honest` is what exit status 0 rests on, and it must hold when things *are* lost: until its work
is done a command has at most one call under way, for it ends with the first call that fails, so a
success can only be that of its own request, and after it no request is left that would change what
was found. `Held` is the device's side: if it is open somebody still has to close
it. `Showing` and `Somewhere`: what a reader shows is what it has read, and each transaction
is in the queue, on its way or read. `AskedFits` is needed because a message that is
cut at its length is answered with success.

**`RequestLineProofs`.** Lemmas on what sending, answering, taking and giving up do to
the sequences of a line; they keep `Nat`-indexed reasoning about `Append` and `Tail` out
of the proofs of the services.

**`GpioServiceProofs`.** With either back end `TypeCorrect` and `FreshPinWorks`
(`FreshInitWorks`); with a character device
`LinesAreRegistered` (`LineMatchesMap`), `InitNeverReplaces` (`HeldUntilClosed`),
`OpenIsHeld` (`OpenMeansHeld`), `PinHasOneOwner` (`OneOwner`), `WaitIsSafe`
(`WaitKeepsObject`). The strengthening is `OwnInv`: a client *claims* its pin
while it believes it open, while the response to a granted `GPIO_INIT` is on its way to
it, and while a `GPIO_CLOSE` or `GPIO_WAIT_EDGE` of its own has not been handled. A
claimed pin is registered and claimed by one client only; a client's close is the last
of its uses that is on the way; at most one granted init is on the way to it, and then
it neither believes the pin open nor closes it. This is needed because the belief
alone says nothing of a call that was given up on: its request and its late response
keep the claim alive, so that no other client can be granted the pin before the
late close, and no late close can follow a new grant. With sysfs these are false: an init replaces the object of
another client. What is left to promise there is `FreshPinWorks`.

**`GuiPatchesProofs`.** `TypeCorrect`, `GroupsOptimal` (`GroupsExact`),
`AutoApplyReplacesAll` (`AutoApplyReplaces`), `AutoApplyIsComplete` (`AutoApplyComplete`). The
code makes its groups in one pass over the sorted addresses, the module by a fold over
their set. What such a fold keeps true is proved without an induction rule: among the
addresses up to which it would not hold there is a smallest, and the fold up to there is
that up to the one before and one step (`Grouped`). That no fewer groups would do is the
argument of a greedy algorithm: a legal range that reaches the first address of one group
cannot reach the first of the next, so the ranges of any cover map onto the groups. The
invariant has four parts. `Lists` says of list and FPGA that each byte is one of the image, one the
user chose for its address, or one of a patch he entered (`Own`); it goes through the removal by
id, the upload and the reading back, because these change ids and lengths of lists but no
address and no byte (`SameCells`). `Replaced`, which `AutoApplyReplaces` needs: while only bytes are
edited, the numbers in the list are exactly those the hex viewer remembers, whether the
list was read back or the upload failed. `Flags` and `Shown` are the types of the rest and
that an edit dialog edits a patch of the list until it is refreshed.

**`GuiSessionProofs`.** `TypeCorrect`, `ShownComplete` (`ShownInOrder`), `OffCloses`
(`OffMeansClosed`). `BaseInv` holds whatever is lost: the queue is the last of what was recorded,
without a gap; the table, what is on its way and the queue are in order (`InOrder`); and at each
place of the GUI thread the objects that are open are those that can be (`Phases`): an
object whose initialisation failed is closed, and a call that needs its object open has it open
until it ends. `CleanInv` holds while nothing was lost: a call is the only one on its object's
line (`AllAlone`), a device is held exactly if its object is open or is about to learn it
(`AllHeld`), and nothing is missing but the transactions at `0xFFFFFF` (`Blank`), except between the FPGA's clearing and the table's
(`Complete`, `Gap`). A read then only ever moves a transaction from one place to the next, also if the user
disconnects between two reads; and at *off* no response is on its way, so that held is
what is open, which is nothing.

**`CodecsProofs`.** `CodecsTypeCorrect`, `TransferIsExact` (`TransferExact`),
`MessageIsExact` (`MessageExact`), `AddressesAreInverse` (`AddressesInverse`). The
state is only what the codecs are given, so the last three follow from its type and
are about the operators: for bytes, fields, lengths and addresses of any number and value.
A loop is a recursive function; that it exists is in the library of theorems, and what it
keeps true is proved without an induction rule, from the smallest round in which it would
not hold (`SmallestNumber`, `Rounds`, `LoopExists`).

*Transfer.* After the escape sequence of each byte the decoder has all bytes up to it and is
outside a sequence (`DecodeEncoded`); whatever is clocked after that only appends
(`DecodeMore`), and an escape character left over at the end of the window appends one
byte more. The window of twice the response holds every encoding, so the first `rxLen` bytes are
the response (`TransferIs`); eight of them are a transaction bit for bit (`EightBytes`).

*Messages.* After `n` fields the reader stands where the `n`-th field of the payload ends
and has the values up to there (`FieldsRead`); in a payload that is cut, the first field
that is not all there is refused, and everything after it. The length is exact up to
65535 bytes (`SizeExact`); beyond, it is a number below the size, never the size.

*Addresses.* Coefficient `i` is an odd multiple of `2^i` modulo `2^24`, which is checked for
each of the 24 (`PowersOfTwo`). The rest after `n` rounds
of encoding is therefore divisible by `2^n` (`RestStep`, `TakeRounds`) and 0 in the end; and with
what decoding has added up after `n` rounds it makes the address (`DecodeOfEncode`). The
other way round, what decoding adds after round `n` is divisible by `2^n` (`SumsDown`), so
the bit that encoding looks at is set exactly if the coefficient was added, and the rests of encoding are
what decoding has left to add (`EncodeOfDecode`).

## 5. What is only model-checked

* Every liveness property. Liveness under fairness and `ENABLED` are beyond the prover.
* `BufferReady`, whose run is about a promise the code does not keep.

Induction over data is beyond the prover too, in general; where a proof needed it (positions of
a list, rounds of a loop, the addresses of a fold) the least counterexample took its place.
`NetworkServer`, `SpiService`, `GuiPatches`, `GuiSession` and `Codecs` each state a `TypeOK` that no run
asks about; it is proved.

## 6. Abstractions to know of

* A client object of `RequestLine` is used by one thread at a time, as the GUI
  does. Threads that share one are the subject of `NetworkClient`.
* Losing the connection in the middle of a call looks, to that call, like a deadline;
  which of the requests under way are still handled is left open (`Lose`, `Drop`), so
  that more can be lost in the models than in one TCP connection.
* `RequestLine` bounds the requests that are on the way at once (`MaxSent`), not the
  number of calls.
* `SpiService` keeps uploads and single patches apart, although both are `SPI_SET_PATCH` and
  have one type of response: in the code the late answer to an upload may end a later
  `setPatch` of the same client. A process of `Cli` makes only one of the two, the GUI
  uploads only, and neither `conn` nor `got` depends on these answers.
* `GuiSession`: the GUI is the server's only client, and its own devices, which it uses when it
  connects locally, are those of the server's machine; it connects anew only when
  everything of its previous connection is over; a local `ioctl` on an open
  device does not fail; closing the window is like disconnecting; the
  statistics and the table's own clear button are left out.
* `GuiPatches`: a dump or an upload that succeeds answers for itself. That the FPGA
  returns what was uploaded, up to the 512 bytes a dump asks for, belongs to `SpiService`; but over the
  network the late answer to a dump, or to an upload, that timed out may be taken for that to a later
  one, and then the list is read back as it was earlier, or an upload that failed is believed. This
  is left out: the properties of the list hold of a GUI whose answers are its own.
* GPIO levels are modelled where the GUI uses them (`GuiSession`: the button and the
  ready line), not in `GpioService`, where a wait may end at any time; edges of the
  ready line in `BufferReady`.
* `Cli`: a transaction is its number. The CLI shows no transaction whose address is
  `0xFFFFFF`, whatever its count; the model has none. An option whose number `std::stoul` does not
  accept ends the process by an uncaught exception; the model has only lines that parse. Without `--remote` a process is one
  that shares the server with nobody and loses no call.
* `MessageExact` knows a string by its length and a block of data by its size.
* The FPGA is external: it applies the enabled patches up to the first header whose
  `STORED` is 0, and a read removes the oldest transaction.

## 7. Known disagreements between the code and its documents

Shown by a run:

* `NetworkClientReconnect`: after a lost connection `connect()` assigns to a thread that
  was never joined, which terminates the process (`network_client.cpp:204`);
  `network_client.h:25` and `plans/PHASE_1.8_COMPLETE.md:289` promise reconnection.
  The destructor of a client whose connection was lost does the same.
* `GpioServiceWaiter`: `GPIO_WAIT_EDGE` uses an object without the mutex that
  another client's `GPIO_INIT` destroys (`command_handler.cpp:426`);
  `plans/PHASE_1.8_COMPLETE.md:72` says "Thread-safe command execution".
* `GuiPatchesManual`: the hex viewer's timer removes by id, and takes patches the user
  entered with it (`mainwindow.cpp:358`); `hex_viewer.cpp:984` speaks of the
  automatic ones.

* `BufferReadyCallback`: `waitForEdge` begins by reading the pending edge away
  (`gpio_control.cpp:281`), so that an edge that comes after the last read of a callback
  and before its return is never reported, and while the line is high there is no
  other; `gpio_control.h:230` says "Function to call when buffer becomes ready". The
  same read also removes an edge that comes before the thread's first wait, or
  between a wait that timed out and the next; the run asks for neither.

In the models, without a run of their own:

* The response may arrive between `sendMessage` and `waitForResponse`, which then clears
  it: the call times out although it was answered (`network_client.cpp:433`). A late
  response is taken for the answer to a later call of its type
  (`network_client.h:26` says "request/response correlation").
* `stop()` does not return while a client is silent in the middle of a request: the
  handler's `recv` of the payload has no timeout (`network_server.cpp:213`);
  `plans/PHASE_1.8_COMPLETE.md:273` says "Graceful shutdown works correctly".
* A second send to a peer that has closed raises SIGPIPE, which ends the server with
  all its connections (`network_server.cpp:245`) or the client. `KilledByImpatience`
  says what it takes: a client that leaves with two requests unanswered.
* `GPIO_WAIT_EDGE` never sees an edge: nobody calls `setEdge` on the server, so the
  kernel detects none, and with a character device the wait fails at once.
* `waitReady` with sysfs returns false when the line is high all the time, and does not
  wait with a timeout of 0; `gpio_control.h:223` says "0 = infinite". The thread of
  `setCallback` is detached and uses an object that may be destroyed. A callback
  that reads one transaction per call, as `plans/gpio-interface.md:183` has it,
  leaves the others unread until the line falls.
* Opening and closing the SPI device is for all clients of the server: a command of
  one that ends makes the reads of another answer "no transaction" until it is
  opened again; `plans/PHASE_1.8_COMPLETE.md:272` says "Multiple clients can connect
  simultaneously".
* `export` writes its file when it has taken the transactions out of the FPGA: if the
  file cannot be opened they are lost (`main.cpp:844`). A monitor that is killed
  has taken some it did not show.
* `--dry` stops `patch set` only; a dry `patch clear` clears (`main.cpp:994` says "Show data to be
  sent but don't actually send it"). `CLI_USAGE.md` documents `--id`, `load` and `save`, which the
  code refuses.
* `example_patch_buffer.cpp:256` reports that all patches were uploaded in batches; each
  upload replaces the one before.
* The largest message has 65535 bytes; `protocol.h:18` allows 65536, and its check can
  never fail.
* `max_clients` is only the backlog of `listen`: more clients than that are served. `PING` is answered with the type of
  another message. A timeout of 0, documented as infinite, ends at once.
* A GPIO pin stays held by the server when its client dies, or gives up on the close;
  with sysfs an init of a pin in use leaves the new object without its export. For the GUI this
  means: after a `GPIO_CLOSE` that was lost, or a `GPIO_INIT` that was given up on and executed, the
  next init succeeds on a dead object. The level then always reads 0, so that nothing is read
  from the FPGA, and the button cannot be pressed, though both say that they are open.
  `RecordedIsRead` leaves out a monitor that is dead.
* Over the network `isOpen` and the button's state are what the client last believed:
  a click whose press timed out leaves the button pressed, as long as nothing
  else releases it.
* `SPIProtocolNetwork` stays `connected_` after an open that failed on an object that
  was open before.
* A disabled patch ends the FPGA's list, and hides the enabled ones behind it
  (`PATCH_BUFFER_FORMAT.md:191`). A buffer of 14 bytes whose first header is
  disabled is taken for the old format.
* `setPatch` over the network sends the patch's id without a check
  (`spi_protocol_network.cpp:151`; the local one refuses ids above 15). The id 0x80 is taken for the
  first byte of a buffer (`command_handler.cpp:164`; the comment at line 161 says "In old format,
  first byte is patch ID (0-15)"): if the address ends in 0x00 and the first data bytes fit, the FPGA
  is given another address and bytes nobody sent, and otherwise its patches are cleared, with success reported.
* An upload that does not fit the 16-bit length of a message is cut: the server clears the
  patches and reports success. A dump returns 512 bytes at most. `setPatch` replaces
  all patches, and over the network sends eight bytes of data whatever the length.
* A transaction whose response is lost is lost. So is one at the address `0xFFFFFF` that
  was really recorded: the CLI and the GUI take it out of the FPGA and do not show it, and
  the GUI ends its poll there (`mainwindow.cpp:691`).
* The GUI does not fetch the patches of the FPGA on connecting: `isConnected_` is still
  false when `refreshPatchesFromFPGA` asks for it. Clearing the modifications leaves
  the FPGA's patches. A byte between two
  modified ones that is given its original value again keeps the patched one: the new
  patch covers it, and takes its bytes from the automatic patches it replaces, which are
  still in the list (`hex_viewer.cpp:872` and `121`; line 111 says "Same as original, remove
  modification"). `AutoApplyComplete` is therefore about the bytes that are modified.
  The edit dialog uses a pointer into a table that the timer refreshes.

## 8. Not modelled, and why

* `cli/main.cpp`: the button command (an init and a write or two, which is what any user of
  `GpioService` may do), parsing of arguments, wording and layout of output.
* The examples but for the calls of `lib/example_patch_buffer.cpp`, which is not built
  and uses a `PatchManager` that no longer exists; the tests, read for what they expect.
* `gui/widgets/hex_viewer_new.cpp`: not part of the build.
* The connection dialog; inline editing, selection, scrolling and painting of the hex
  viewer; the search of the transaction table; settings, logs, table texts, printing.
* Characters of strings, and the 64-bit numbers of `protocol.cpp`, which no message has.
* The MISO bytes that `uploadPatchBufferVerbose` records for printing; what it uploads is
  laid out as `uploadPatchBuffer` does.
* Out of reach: memory exhaustion; a full socket buffer, on which `send` would block with
  the mutex held; undefined behaviour after a pointer has become invalid.

## 9. The plan

Done: the client and the line it implements, the server and its abstract
specification, the two services on their line, the processes of the CLI, the ready
line with its edges, the GUI's two state machines, codecs and messages; the proofs
of every safety property that a passing run checks.

Open: several threads that share one device object, which the GUI never has; GPIO
levels and edges in the service instead of a wait that may end at any time.
