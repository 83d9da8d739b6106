# TCPConn: a TLA+ model of the library

TCPConn is a C++ library over Boost.Asio: a server, a client and a raw-message
sender, connections between them, and the queues that hand messages from the
network thread to the threads of the user. This directory models how these parts
behave together: threads and locks around the incoming queue, the validation
handshake, the framed and the raw stream, the messages' codec, and the Python client
on top with its interpreter lock. `PROJECT.json` lists, for every
definition, the lines it models, and every run, mutant, finding, hazard and theorem.

## The system

| Part | State | Operations | Interacts with |
|---|---|---|---|
| `TCPMsgQueue` (TCPMsgQueue.h) | `m_queue` under `m_mutex`; `m_cvBlocking` under `m_mtxBlocking`; `m_bExiting` | `push_back`, `pop_front`, `empty`, `wait`, `exit_wait`; also `push_front`, `pop_back`, `front`, `back`, `count`, `clear` | filled by the context thread, emptied by user threads |
| Update and Run loop (TCPServerImpl, TCPClientImpl, TCPRawMsgSenderImpl) | `m_bShuttingDown` (static, never reset), the watching thread | `Update`, `Run`, the SIGINT handler, `Stop`, `Disconnect` | queue; the watching thread calls `Stop` (server) or `exit_wait` (clients) |
| Connection (TCPConnImpl) | `m_socket`, `m_qMessagesOut`, `m_msgTemporaryIn`, validation numbers | `ConnectToClient`, `ConnectToServer`, `Send`, `Disconnect`, the handlers | its io_context's thread; the peer through TCP; pushes to the owner's queue |
| Server (TCPServerImpl) | `m_deqConns`, `m_acceptor`, `m_idCounter`, `m_thrContext` | `Start`, `Stop`, accept handler, `MessageClient`, `MessageAllClients` | connections; user hooks |
| Client (TCPClientImpl) | `m_connection`, `m_context`, `m_thrContext` | `Connect`, `Disconnect`, `Send` | one connection; `OnConnected` runs in a `std::async` whose future blocks the context thread |
| Raw sender (TCPRawMsgSenderImpl) | `m_socket`, `m_qMessagesOut`, `m_msgTemporaryIn`, the description of the length field | `Connect`, `Disconnect`, `Send`, `ReadHeader`, `ReadBody`, `ReadRaw`, `WriteRaw` | a foreign server |
| Codec (TCPMsg.h) | `header`, `body` | `<<`, `>>` | users |
| Python (pybind_module.cpp, py_tcp_client.py) | events, runner thread, the GIL | `connect_and_wait`, `run_background`, `wait_for_message`, `stop` | the client |

What is hard here: two mutexes taken in both orders; a condition variable with a
predicate that reads an atomic set under no lock; test and pop under separate locks;
handlers that interleave with posted lambdas on a socket; a handshake in a stream that
messages share; a connection that breaks between any two words; objects
whose handlers outlive them; a life cycle that cannot be restarted. The list `hazards`
of `PROJECT.json` gives each with its line. What makes each part correct:

- queue and loop: every accepted message is handled once, in order, by a live
  consumer; no thread sleeps beside a message nobody else is awake for; a signal or a
  `Stop` ends the loop;
- connection: the two ends agree on the validation; header and body stay in step; one
  write per socket; messages unchanged and in order; everything accepted arrives or the
  connection closes; the handshake ends;
- server: every client is taken up and greeted; the live stay in `m_deqConns`, once; a
  broadcast reaches them and removes the dead, and none is removed unreported;
- client: the connection outlives its handlers and hooks; `Disconnect` returns;
- Python client: the events say what the hooks said last; `wait_for_message` returns a
  message that is new; no call hangs on the GIL;
- raw sender: the receiver cuts the stream where the length field says; one write per
  socket; messages keep their place across reconnections;
- codec: `>>` gives back what `<<` took, the last first, and `header.size` stays true.

## Modules

| Module | Models |
|---|---|
| `MsgChannel` | abstract specification: a FIFO channel, messages accepted and delivered once, unchanged, in order |
| `TCPMsgQueue` | the operations of the queue, cut at each lock, at the read and the write of `m_bExiting`, at the moment the condition variable sleeps, and at the notification |
| `RunLoop` | extends it with the threads that call it: the context thread, consumers in `Update()` or `Run()`, the SIGINT handler, the watching thread, `Stop()` |
| `MCRunLoop` | small instances of `RunLoop` |
| `RunLoopProofs` | theorems about `RunLoop` |
| `TCPMsg` | the two message types and their `<<` and `>>`, as operators |
| `SequenceLemmas` | what the proofs need of `FlattenSeq`, `IsPrefix` and concatenation |
| `TCPMsgProofs` | theorems about `TCPMsg` |
| `TCPConnection` | extends it with both ends of one framed or raw connection, and the stream between them |
| `MCTCPConnection` | small instances of `TCPConnection`, its messages built with `<<` |
| `DuplexStream` | abstract specification: two ends, each hears what the other has said, from the beginning and without gaps, from getting ready on; after its close at most once more, what was due by then |
| `TCPConnectionProofs` | theorems about `TCPConnection`: types, one writer, the handshake |
| `TCPStreamProofs` | more of them: what a connection delivers, and that it implements `DuplexStream` |
| `TCPClient` | the operations of the client: `Connect`, `Disconnect`, the handlers that call its hooks; extends `RunLoop` |
| `PyTCPClient` | extends it with the Python client: its threads, events and hooks, and the GIL |
| `MCPyTCPClient` | small instances of `PyTCPClient` |
| `PyTCPClientProofs` | theorems about `PyTCPClient` |
| `TCPServer` | the accept handler, `m_deqConns`, `MessageClient`, `MessageAllClients`, the hooks and what they call |
| `MCTCPServer` | small instances of `TCPServer` |
| `TCPServerProofs` | theorems about `TCPServer` |
| `TCPRawMsgSender` | the raw sender: `Connect`, `Disconnect`, `Send`, the cut of the stream by a length field, the io_context's life |
| `MCTCPRawMsgSender` | small instances of `TCPRawMsgSender`: the formats |
| `TCPRawMsgSenderProofs` | theorems about `TCPRawMsgSender` |

`RunLoop` composes the queue with its callers and is shown to implement `MsgChannel`;
`TCPConnection` is shown to implement `DuplexStream`.
`TCPClient` and `PyTCPClient` stand on it: queue, loop, life of the client and Python
threads are one state machine. The server, the connection and the raw sender are modules
beside it: each fills one queue, through `AddToIncomingMessageQueue`, and reads nothing
of it.

### TCPMsgQueue and RunLoop

`pc[t]` says where thread `t` is. The locations of `push_back` (`push_blocking`,
`push_notify`) are inside the `m_mutex` section, those of `wait()` (`wait_empty`,
`wait_exiting`, `wait_block`) inside the `m_mtxBlocking` section; `blocked` is the wait set
of the condition variable, and a spurious wakeup may move any sleeper to `woken`. A
critical section that takes one lock and does one thing is one step. The context
thread pushes while `m_context` runs; `Stop()` is `exit_wait`, stopping the io_context and
joining its thread, and a second join of a thread that is being joined ends the process.
The client's watching thread calls `exit_wait` only: `DetectorStops` says which of the two
an instance is. `pop_front` of an empty deque is undefined; the model ends the process
there (`PopFrontEmpty`). An `Update()` takes its budget from `Budgets`; a budget of 0, with
which `Update(true, 0)` would take a wakeup and no message, is left out. One thread at a
time is inside `Run()`.

### TCPMsg and TCPConnection

A body is a sequence of words; a structure, a vector and a string differ in their length
only, so one `Input` stands for the two `<<` of `TCPMsg` and one `Output` for the `>>` of a
structure and of a string. Taking more than there is, which is undefined in the code, is
left out.

`kind` is the template's `T`. A raw connection (`TCPRawMsg`) has no validation: it is ready
when the socket is, and its `async_receive` returns with any part of what has arrived, so
that only the bytes count and not how they were sent. A raw message without a body is a
write of no words, which still completes. Each end has one io_context thread, so a handler is one action; user threads call `Send`
and `Disconnect`, which post lambdas that the context thread runs in order. A word
of the stream is 8 bytes: a validation number, a header, or a piece of a body (sizes are
counted in words; a size of 1 to 7 bytes is therefore not represented). An outstanding
write gives the stream one word at a time and, after a partial transfer, queues behind
the other writes of its socket as in Asio; its completion handler runs in a later step.
A reading handler runs with the last word it needs.

A close, posted by `Disconnect` or made by a handler that failed, aborts what has not
completed: each outstanding read and write fails later, in a handler of its own (`Aborted`).
What had completed before runs its handler as if nothing had happened: a read that finds its
words on the wire pushes a message or calls `OnConnected` although the socket is closed by
then, and a write's handler pops its message and starts the next write. What such a handler
starts on the closed socket fails, but a read or a write of nothing at all, which succeeds
(`ReadOn`, `Transfer`). So at most one message comes after a close, and `due` of
`DuplexStream` says that it may. The model lets any read be the one that had completed when
its words are there; which words had reached the kernel is not told apart. When one end has
closed, what it sent may be read or lost (`PeerClosed`); `ConnectionLost` fails
an operation of an open end at any time. The client's `Disconnect` goes on to stop the io_context and to
destroy the connection, after which no handler runs any more, whatever was posted
(`DestroyConnection`). `OnConnected` returns at once here; what it holds up is in
`TCPClient`. `MaxSends` is a set of bounds, each the number of messages of either end. The io_context of the server is not stopped in this module.
Boost.Asio, TCP and the condition variable are external: they are modelled from how
the code uses them.

### TCPServer

`accept` says where the accept handler is (`request` and `hook` are the two calls of the
user), `calls[t]` holds the `MessageClient` and `MessageAllClients` a thread is in, the
innermost last, each with its iterators. A hook may call back, on the thread it runs on, up to
`MaxDepth` deep. `m_deqConns` has no lock: the loop is cut at every element and before and
after `OnClientDisconnected`, `std::remove` at every element it looks at (`RemoveNull`), the
`erase` comes in a step of its own (`Erase`), and the accept handler is cut between its
`push_back` and its three uses of `back()`.

Iterators and references are positions. Whoever is at `m_deqConns` when another moves or
erases elements goes on from the position it had, with the element that stands there by
then: `client.reset()` of an outer loop drops whatever connection a nested call has moved
there, and `back()` is null, or another connection, in the middle of a `remove`. Where the
code has undefined behaviour the model lets the process go on in that way or end (`Risk`,
`lost`): a `push_back` or a change of elements under somebody else (`InUse`), a position past the
end, `back()` of an empty deque, a connection destroyed with handlers or posted lambdas
still to run. A null pointer that is called ends it. `erase` may use the `end()` of before
the `remove` or of after it, as the compiler orders the arguments; a range that is not there ends the
process. A connection that leaves the deque is destroyed, or lives on in the hands of a user
who kept the pointer (`Becomes`). `overlapped` records that a `remove` or an `erase` has
moved something under somebody else, or a `push_back` come between the two. One thing is not
modelled: two threads that write the very same `shared_ptr` at the same moment.

`remote_endpoint()`, a part of the first log line of
the handler, throws when the client has gone already, and ends the process too
(`AcceptThrows`). A client whose accept fails is gone (`AcceptFails`); one that the kernel
would offer again and again, as when no descriptor is free, is left out. `MessageClient`
resets its copy of the pointer before it looks
for it, so what it erases is the null pointers only (`EndOne`). Of a connection the module
knows only whether its socket is open. `Stop` is in `RunLoop`; `Start` is the initial
state.

### TCPRawMsgSender

The socket, the outstanding read and write, and `posted`, the lambdas the io_context has
still to run, are driven by the context thread; a user's thread calls `Connect` and
`Disconnect`, cut where the context thread can come between. The io_context leaves `run()` when
it is stopped or has no work, and is stopped from then on, since nothing calls `restart()`; a
`Connect` beside a thread that has not been joined ends the process (`terminated`). `Send` may
be called at any time, before `Connect` too. `inbound` holds bytes: `FrameOf` builds a frame as a
server of the described protocol would, and `ReadHeader`, `ReadBody` and `ReadRaw` take it
apart with the arithmetic of the code, four-byte lengths as signed ints. The server sends
whole frames and never breaks its protocol; a close loses what has not been read. A body
longer than the buffer is written past its end: the message keeps what fits, or the process
ends. The read of `ReadRaw` takes any part of what has arrived up to the buffer's size.
An `OnConnected` holds the context thread until it returns; one that calls `Disconnect` is left out.

### TCPClient and PyTCPClient

`TCPClient` keeps of a connection its socket, and the `OnConnected` at the end of the
validation: it runs in a thread of its own (`hook`), and the context thread stands still
until it returns, because the future of `std::async` is destroyed in the handler
(`ContextFree`). `Disconnect` posts the close and goes through `RunLoop`'s `exit_wait`, stop
and join, and the join has to wait for the hook too; then the connection object goes.
`m_context` leaves "running" at the first `Disconnect` for good: a later `Connect` starts a
thread whose `run()` returns at once ("stopped"), and a `Connect` beside a joinable thread
ends the process, in one step with the new connection object that it makes before. The destructor and a `Disconnect` from within a hook, which would join
its own thread, are left out.

`PyTCPClient` is the main thread of a Python program (`at`), the thread of `run_background`
(`Runner`), and the hooks. Python code runs under the GIL and may lose it between
any two steps, so that it only matters where it is kept: `connect` and `disconnect` are bound
without `gil_scoped_release`, the former without waiting for anybody, the latter through
`exit_wait` and the join. `GilFree` says that the main thread is not inside that, and each
hook and each Python step asks for it. `update` and `run` release it. The main thread has
two names, `Main` where it consumes and `Closer` where it disconnects, since `RunLoop` keeps
the roles of threads apart; `MainAt` lets it be in one place at a time. Timeouts may
expire at any moment; `time.sleep` is no step. `stop()` is a `disconnect` and a join with a
timeout. Events are set and cleared in single steps, and `OnConnected` and `OnDisconnected`
are cut between their two events; the two statements of `OnMessage` are one step.
`SIGINT` is left to `RunLoop`'s own runs.

## Runs

| Run | Expected | What it shows |
|---|---|---|
| `loop` | pass | one consumer, one stopper, two arbitrary messages, signals: `WokenForEveryMessage`, `NoPopFromEmpty`, the refinement `ImplementsChannel`, and `RunDrains` |
| `lock_order` | violation of `MessageEndsWait` | the crosswise locks of `push_back` and `wait()` |
| `signal_missed` | violation of `SignalEndsRun` | `exit_wait` between the predicate and the sleep |
| `connection` | pass | framed and raw; early sends at both ends, one message each way or two of the client's, breaks and closes anywhere, completed handlers after them: `Agreement`, `SingleWriter`, `InStep`, `DeliveredInOrder`, `UnpackedAsPacked`, and the refinement `ImplementsStream`; with fairness, and a server that sends only to a client it has validated, `PatientArrive` and `HandshakeResolves` |
| `stale_body` | violation of `DeliveredInOrder` | a header of size 0 delivers the previous body |
| `early_broadcast` | violation of `AllArrive` | a message to a client whose validation is pending stalls it |
| `raw_sender` | pass | formats of one, two and four bytes, none at all, and one the constructor refuses; two frames, two sends, two connects: `CutAtFrames`, `BytesInOrder`, `NothingOvertaken`, `OneWrite`, `FramesArrive`, `SendsLeave` |
| `full_length` | violation of `CutAtFrames` | a length field that counts the header: the body is read header-size bytes too long |
| `py_client` | pass | main thread, background `run()`, context thread and hooks, two connects, two messages: `WokenForEveryMessage` with two consumers, `ConnectionOutlivesHandlers`, `EventsAgree`, `ReturnsNewMessage`, `DisconnectReturns`; a pop from the empty deque is reachable and ends the process |
| `gil_deadlock` | violation of `ConnectAndWaitReturns` | `disconnect` keeps the GIL and joins the context thread, which waits for an `OnConnected` that waits for the GIL |
| `server` | pass | two clients, the context thread and a user's thread, two calls, nested or at once; as long as nothing has overlapped: `RosterKeepsLive`, `NoSilentDrop`, `BackIsNew`, `HooksInOrder`, `BroadcastReaches`, `BroadcastSweeps`; and `AllAnswered` |
| `server_nested` | violation of `AllMessaged` | a hook of a broadcast broadcasts: the outer loop resets a live client, and sends it nothing |

Deadlock is not checked: every instance has legitimate ends (all messages handled and
every thread out of the library, an aborted process, a closed connection), and the lock
cycle is a run of its own.

Bounds. Two messages are enough for order, for a queue that is non-empty twice and for a
write that follows a write (in `connection` the client sends two, or each end one); a body of two words for a partial write and a split between
two writers; a stream of two words for a full one. Two values of a message make a swapped or a
stale one visible. In `server`, two clients are a dead one before a live one, a client pushed
during a loop, and a second that is ignored; two calls are two loops at once, or one in the
hook of another, or a sweep beside the accept handler; the range of the ids is 2, so that they wrap. In `raw_sender` two frames
with bodies of no and two bytes put a cut wherever one can be; the second `Connect` is the
reconnection, and a message sent before or between the two must keep its place. In
`py_client` two connects are the one after a disconnect, two messages the one that matches
and the one that does not; with the main thread and the background thread on one queue, each wakeup finds both
asleep, or one of them. `SizeMax` (the unlimited budget of `update`) is 3, more than the
messages there are.

The properties of the roster have the condition `~overlapped`, since the code makes its
promises without a lock: nothing keeps a user from calling while another thread or a loop
further out is at `m_deqConns`. What the header promises without the condition is
`AllMessaged`, and the run `server_nested` shows that it does not hold. The other overlaps
are in the model too, and outside of what is promised: a user's thread that sweeps beside the
accept handler may leave it a `back()` that is null or another connection. Within the
condition there is still what the users' calls can do without
moving each other's elements: loops of several threads at once, with their resets, a
`push_back` in the middle of a loop, a whole `remove` and `erase` in a hook of the accept handler, and
connections that close in between. `stale_body`, `early_broadcast`, `full_length` and
`gil_deadlock` are the other promises of comments and docstrings that the code does not keep
and a run shows.

Two more are limits of the code that the model follows and no run is about. A client that has
disconnected never connects again: `Disconnect` stops the io_context and nothing restarts it,
so that the next `Connect` returns true and is never answered, although `OnConnected` of
`py_tcp_client.py` clears `disconnected_event` for it; the raw sender is the same. And
`wait_for_message` need not return the first incoming message, as its docstring says: one
`update(False)` may handle several, and the last is looked at; beside `run_background` it
need not be the one the predicate saw either. `ReturnsNewMessage` says what is left: it was
handled after the call.

Fairness. In `RunLoop` every step of a call under way is strongly fair per thread: the
operating system schedules threads, and a mutex free again and again is eventually
granted. Arrivals, new calls, signals and spurious wakeups are not fair. In
`TCPConnection` the handlers of each end are weakly fair: both io_contexts run, TCP
delivers while both ends are open and reports a closed peer. Calls of the user and
`ConnectionLost` are not fair. In `PyTCPClient` the steps of the calls the main thread has
begun, the context thread's and each consumer's are strongly fair: threads are scheduled, a
timeout expires, and a lock or the GIL that is free again and again is granted. The network
is not fair: a validation need never arrive. In `TCPServer` both threads are weakly fair, so that hooks
return and the accept handler goes on; clients come, connections break and users call as they like.
In `TCPRawMsgSender` handlers and the rest of a `Disconnect` are weakly fair: a connection
attempt ends, bytes arrive, `OnConnected` returns. `PatientArrive` and `HandshakeResolves` are stated
for behaviours in which the server sends only after it has validated its client
(`ServerPatient`; `early_broadcast` shows one of the others), `RunDrains` and `SignalEndsRun` for those
without the lock cycle, which `lock_order` shows by itself, and `DisconnectReturns` for those
without the GIL's, which `gil_deadlock` shows.

## Proofs

`RunLoopProofs` holds for any numbers of consumers and stoppers, any budgets of at least 1
and any bound on messages, from the assumptions of `TCPMsgQueue` and `RunLoop` on their
constants.

- `TypeCorrect`: `TypeOK`. It needs `Budgeted` (a consumer that waits or handles has
  budget left), or `nMaxMessages - nMessageCount` could drop below zero.
- `WakeInvariant`: the inductive invariant `TypeOK /\ Budgeted /\ Control /\ EnoughAwake`.
  `Control` says who may be where (`Roles`), that a thread inside a section owns its
  mutex (`Owners`), and that when `push_back` is about to notify, nobody is between an
  unfavourable look and its sleep (`NotifySeesSleepers`). That part follows from the
  pass through `m_mtxBlocking`, and the counting fails without it. `EnoughAwake` counts
  for the consumers that have committed to sleep as well as for those asleep.
- `NoLostWakeup`: `WokenForEveryMessage`, from the above.
- `NeverPopsEmpty` and `QueueIsChannel`: for one consumer, whose test of the queue and whose
  `pop_front` are under separate locks, `NoPopFromEmpty`, and step by step that `RunLoop`
  implements `MsgChannel`. `ChannelInv` adds to `WakeInv` that a consumer has a message in its
  hand while it handles one (`HandHeld`) and at no other time (`HandFree`); so that a `pop` is a
  delivery, and the channel sees every other step of the consumer as a stutter.

`TCPServerProofs` holds for any clients, users' threads and bounds, and proves every safety
property of the run `server`. `ServerInv` has two parts. `BaseInv` holds whatever happens to
`m_deqConns`:

- `TypeOK`, and with it `Owned`: the elements of `m_deqConns` belong to clients of their own,
  also those that were reset or moved away and are null. A step of a `remove` moves an owner along with
  its element (`ShiftedOwned`), an `erase` of any range keeps the owners of the rest
  (`WithoutOwned`). So no client is there twice, and the deque, with its nulls, is no longer
  than there are clients, even after an overlap.
- `AcceptBase` and `Nested`: what the accept handler has in its hands, and that every call but
  the innermost of a thread is in its hook.

`QuietInv` holds until something has overlapped:

- `AcceptInv`: the connection the accept handler is about is open until the handler is over,
  as every other handler of the context thread waits for it, and it is not yet in
  `connected`. `HooksOrdered` follows.
- `LoopsOK`: for each `MessageAllClients` under way, not only the innermost, how `m_deqConns`
  compares with what it was when the loop began (`WasThere`), whom the loop has sent to
  (`Sent`), and that it has left no dead connection behind it (`Swept`). It is proved as a
  predicate of a loop, a deque, the reported and the sockets, with a lemma for each of the
  few ways in which a step changes those: a reset, an append, an advance, a new loop.
- `RemovesOK`: a `remove` under way has left nulls behind it, from `result` on, so that the
  `erase` takes nothing else; while it has a live element to move, nobody else is at the
  deque (`NotInUse`, `OnlyOne`), or that step is the overlap.
- `BackOK`: the connection just pushed is the last, or, between the `remove` and the `erase`
  of a call of the hook, the one before `result`.

`NothingDropped`, `BackIsAccepted`, `RosterKept`, `EveryoneMessaged` and `DeadSweptOut` follow;
like the properties they speak of the time before an overlap, and not of whether the process has ended.

`TCPRawMsgSenderProofs` holds for any set of formats, bodies and messages and any bounds.

- `OneWriteHolds`: `OneWrite`. It is not inductive: a `Connect` would open a socket beside the
  messages a broken connection has left in `m_qMessagesOut`, with no write outstanding.
  `LifeCycle` excludes that: a thread out of `run()` leaves the io_context stopped and
  is joinable, so that `Connect` ends the process, and only `Disconnect` joins it, after it
  has stopped the io_context.
- `TypeCorrect`: `TypeOK`, with `Framing` and `OneWrite`. `Framing` says that the format is one
  the constructors let through and that behind the header at `ReadBody` there is a body; from
  it `ReadBody` has a length of at least one byte, also where four bytes make a negative
  int. `OneWrite` says that the write handler finds a message to pop.
- `OrderKept`: `NothingOvertaken`. What is posted is a sequence of lambdas, and its messages
  the concatenation over it (`MessagesOf`); the proof is one of moving the brackets.
- `BytesOrdered`: `BytesInOrder`, for formats whose length field counts the body alone
  (`BodyOnly`; with `length_include_header` the run `full_length` finds bytes of the next
  frame). `BytesKept` accounts for every byte of an open connection: handed over, kept as a
  header (`Held`) or still to be read. It needs `FirstTime`: a connection stands at most once,
  as the io_context that a `Disconnect` has stopped stays stopped, so that no byte of an
  earlier connection is left in front of the next one's.
- `CutRight`: `CutAtFrames`, for `BodyOnly` and for bodies whose length the field has room for
  (`Fits`: 256, 65536 or 2^31 bytes). The rest of what was sent is a sequence of whole frames
  (`FramesKept`), and the length the reader finds is the one the server has written
  (`LengthRead`: a number is made of its bytes, and turning them around twice leaves them).

`TCPConnectionProofs` holds for both kinds, any messages that `MsgsAssumption` lets through,
any parts and bounds, and users that send before the validation or after it.

- `TypeCorrect` and `OneWriterAtATime`: `TypeOK` and `SingleWriter`, from one invariant. The
  handlers that pop `m_qMessagesOut` are safe because their write was one of a message, and
  `WritersOK` says what that write is: the header or the body of the message in front, one of
  them, with what is left of its words; after a close there may be none, and there is never
  a second (`OneWrite`). `Born` says that nothing is under way at an end that
  has no socket yet. A partial write that goes behind the others of its socket keeps both
  (`TransferMoves`), as it moves operations and makes none.
- `ValidatedTogether`: `Agreement`. The words of the handshake share the stream with messages
  sent too early, so the proof follows what an end may still say: `SaysOnly(e, S)` bounds the
  words in its writes and on the wire to its peer. Before the server has validated the client
  it says its nonce and messages (`ServerWords`), and a client that has not been asked says
  messages only (`ClientWords`); so a `Proof` that the server reads comes from a client that
  has read the nonce, and one that the client reads comes from a server that has validated.

`TCPStreamProofs` goes on from there, with the same generality. Each of its theorems on framed
messages has the hypothesis `Sized`: the `header.size` of every message sent is its
`full_size()`, as `<<` leaves it. A default-constructed `TCPMsg` has a size of 0, and with one
of those `DeliveredInOrder` does not hold, as `stale_body` shows; on a raw connection `Sized`
says nothing. The invariant is `StreamInv`.

- The account of a direction. `Heard(p)`, the words of the messages that `p` was given, of the
  one it is reading and of those on the wire to it, and `Remaining(e)`, the words its peer has
  still to write, are together the words of all messages accepted (`Account`). Every
  handler moves words from one part to the next: a partial write, `WriteNext`, a header that
  becomes the message being read, the last word of a body. `TCPConnectionProofs` makes the
  second part a sequence, since there is one write of a message at a time.
- The numbers of the handshake are on the same wire, and the account leaves them out. A
  reader that counted one as a part of a message, or the reverse, would break it. `Utters`
  says that a write is of a number alone or of no number, `Asks` that only the client
  responds, and `Turns` that in each direction at most one number is under way, and none
  any more once the reader reads messages.
- A client that has taken a message for its notification reads nothing any more; the account
  of its direction ends there, and what it was given before (nothing) stays a prefix.
  `Listening` says so. A closed end goes on with the account as long as a read of its is outstanding
  (`Alive`), as that may have completed before the close; it is given one message more at
  most, for the next read fails. After that only the prefix is kept.
- `Announced`: the header read last is a header that was sent. With `Sized` the body is as
  long as it says, and words alone tell where a message ends: `BodyIsNext` finds in the
  account that the message read is the next one accepted.

`InOrder` is `DeliveredInOrder`, with which the account is kept in one induction; `StaysInStep`
is `InStep`, since the next word on the wire is the next of the account; `RoundTrip` is
`UnpackedAsPacked`, by the cut of a body in two. `ConnectionIsStream` maps every step to one of
`DuplexStream` or to a stutter (`StepStreams`): reads need, besides `StreamInv`, that an end
that reads is ready (`ReadsWhenReady`); a second close, and whatever moves words only, are
stutters. `due` is that a closed end has a read outstanding; no step after the close makes
it so again. `SequenceLemmas` has the facts about `FlattenSeq`, prefixes and concatenation that
both rest on, by induction over the length from the well-foundedness of `Nat`.

`TCPMsgProofs` holds for bodies and values of any length. `LastInFirstOut`, `RawLastInFirstOut`
and `VectorRoundTrip` say that `>>` undoes `<<`; they rest on `Cut`, the two parts of a
concatenation.

`PyTCPClientProofs` holds for any messages, predicate, budgets and bounds, with the two
consumers and the one `Closer` that `PyAssumption` names. Every step is one of `RunLoop`, or a
`Connect`, or leaves `RunLoop`'s variables alone (`LoopStep`); so the lemmas of
`RunLoopProofs` carry over, and `PyNoLostWakeup` with them. Its inductive invariant `PyInv`
adds to `WakeInv` and `PyTypeOK`

- `LifeInv`: a `disconnect` gets past its call only with the context thread joined, and the
  hook that thread waits for over; the connection is there until then. A context that
  still runs has not validated while it is connecting, and one that was joined never runs
  again. `ConnectionOutlives` and `EventsHold` follow: `OnDisconnected`
  comes after every `OnConnected`, in whichever thread that ran.
- `HandHeld`: a consumer at `handle` has a message; `last_msg` is never taken from nothing.
- `MatchInv`: while `wait_for_message` is under way, a set `message_event`, or a match that
  is about to be returned, means that `last_msg` was handled since the call. It is kept because
  the event is cleared at the beginning, and `last_msg` is only ever replaced by a message just handled.
  `NewMessageReturned` follows.

Only model-checked: liveness. `RunDrains`, `PatientArrive`, `HandshakeResolves`, `FramesArrive`,
`SendsLeave`, `DisconnectReturns` and `AllAnswered` are temporal formulas under fairness, which
is out of the prover's reach. The runs that end in a violation are model-checked only: their
counterexamples are behaviours of a small instance.

## Plan

1. `MsgChannel` for more than one consumer: what it still promises when two threads handle
   messages of one queue, and the same for the queue that the Python client's threads share.
2. `TCPRawMsgSender` as an implementation of an abstract stream of frames.
3. What `m_deqConns` still keeps after an overlap: which clients a nested broadcast may drop.

Not modelled: logging (but for the call in it that throws), the build, formatting of
messages; the failure of `Start`; calls of `Stop` or `Disconnect` from a callback on the
context thread; a `header.size` set by hand to something other than 0 or `full_size()`, and
bytes below the word; the Python binding of the raw client, which differs in its messages
only.
