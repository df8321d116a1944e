# A verification of jklibs in TLA+

jklibs is a collection of C libraries for small Linux devices: a message bus
between processes, delayed tasks, thread-safe queues, logging, connections, a
binary protocol, and a pipeline that captures video, encodes it and stores it.
This directory holds TLA+ models of its stateful parts, the TLC configurations
that check them on small instances, and theorems that TLAPS has proved for every
instance. Everything was translated from the source; paths below are relative to
`src/`.

## 1. Inventory

| Component | Files | State | Operations | Talks to |
|---|---|---|---|---|
| Bus server | `common/busserver/src/busserver_ex.c` 1-320, `cmbusserver.c` | a table of `BUS_TYPE_MAX` slots (name, connection), one receive buffer per connection | init, run, deinit, `ev_handler` (RECV, CLOSE), broadcast, send by name | mongoose calls `ev_handler`; it calls the application, which calls broadcast and send |
| Bus client | `busserver_ex.c` 322-455, `cmbusclient.c` | `conn`, `iExit` | init, connect (a loop until closed), send, handler | the server, over TCP; other threads send on it |
| First bus server | `busserver.c`, `main.c` | a fixed slot per client type | as above, without CLOSE | as above |
| Delayed tasks | `common/cm_task.c`, `cm_list.c`, `cm_list.h` | one global circular list, one mutex | init, deinit, start, cancel, poll | callbacks of the application; any thread |
| XN_Queue | `common/XN_Queue.h` | per queue: a ring, a count, a read position, mutex and condition variable | init, destroy, put, get, get by index, count, move, lock, wait, wakeup | any thread |
| Recorder | `recordserver/cm_avprocess.c`, `codec/enc_h265.c`, `storage/avstorage.c` | the encoder's last packet, the current file, its name and time | init, ready, write (push, pop, store, rotate), deinit | x265, the file system, the clock |
| Capture pipeline | `vdev`, `codec/encoder.c`, `recordserver/jkrecord.c`, `process.c`, `common/cm_unixsocket.c` | buffers shared with the driver, the encoder's frames, the last packet, a socket and `iConn` | init, start, a loop of dequeue, queue, encode, send | V4L2, x264, a reader on a unix socket |
| Log printing | `common/cm_print.c`, `rt_print.c` | open file, size limit, colour | print, rotate | every thread |
| Debug output | `common/misc/cm_debug_out.c` on `cm_conn_ws.c` and `cm_conn_tcp.c` | the connection and its status, `iWSOK`, the buffer of the last message | init, deinit, request, run (reconnect, handshake, receive) | a WebSocket server, the callback of the application |
| Connections | `common/cm_conn_*.c`, `cm_unixsocket.c`, `cm_uart.c` | a descriptor, a status | connect, send, receive | the network |
| HTTP transfers | `common/cm_http_download.c`; `cm_http.c`, `cm_http_upload.c` | `http_t`: socket, stream, header fields, the file | download (connect, header, body, redirect), upload, generate and parse headers | the network, the file system |
| Protocols | `jkprotocol`, `protocol/rasp` | header fields, a sequence number | encode, decode, validate | - |
| Suspend, fifo, local debug | `common/misc` | a few flags and threads | start, stop, wake, check | - |
| Flash configuration | `common/cm_flash_cfg.c` | parameters at fixed offsets, a flag | get, set, erase | the flash device |
| Helpers, vendored code, demos | `cm_utils.c` ..., mongoose, jansson, libconfig, crypto, `demo`, `openav` | - | - | - |

What makes each correct, and what makes it hard:

* **Bus server.** A message goes to the client it names and to nobody else, a
  broadcast reaches each client once, no slot outlives its connection. Hard:
  slots are matched by prefix, closing clears one slot only, addresses of freed
  connections are reused, and the variable `type` of the receive loop lives
  longer than a message.
* **Delayed tasks.** A started task runs once, not before its time, unless it is
  cancelled; the list stays a list. Hard: threads, a callback under the
  mutex, and a walk that edits what it walks.
* **XN_Queue.** FIFO order, no element lost, no wakeup lost, no deadlock. Hard:
  two locks in `XN_QueueMove`, a read position that does not follow the elements,
  a wait whose lock is taken by the caller.
* **Bus client.** A client comes back after its link or the server failed, and stays
  registered; nobody uses a closed connection; frames of two threads do not mix.
  Hard: the server may learn of a lost connection after its client has come
  back; `iExit` and `cc->conn` outlive the connection they speak of.
* **Recorder.** Every packet is stored, in order, in files that are short and that no
  rotation overwrites. Hard: the encoder delays, opening and writing fail, the clock
  moves between two readings, names have a resolution of one second.
* **Capture pipeline.** No buffer is lost or queued twice, the picture encoded is the
  frame dequeued, the reader is found. Hard: a buffer is given back before it is
  read, the device does not block, results are ignored.
* **Debug output.** Messages reach the callback whole, whatever pieces they arrive
  in; the buffer holds them; the connection comes back. Hard: a read
  ends after 0.4 seconds wherever it is, the handshake ends after some bytes of the
  response, and `status` and `iWSOK` may speak of different connections.
* **HTTP download.** 0 means that the file is complete; nothing stays open; the call
  returns. Hard: time limits and signals inside `fgets` and `fread`, an error flag and an
  `errno` that outlive the read they belong to, writes that are interrupted, redirects that start again.
* **Others** (not modelled). One open log file while threads rotate it; what a
  codec decodes is what it encoded; values and flags in flash agree after a
  reset.

`PROJECT.json` lists every hazard at its line, with the properties that cover it
or the reason why none does yet.

## 2. Modules

| Module | Models | Used by |
|---|---|---|
| `BusServer` | the bus server | `MCBusServer`, `BusServerProofs` |
| `BusRegistry` | what it promises: a map from names to the connections that joined last | `BusServer` (property `ImplementsRegistry`) |
| `BusSystem` | the clients, and with `BusServer` the whole bus, with crashes and lost links | `MCBusSystem`, `BusSystemProofs` |
| `CmTask` | delayed tasks on the pointers of the list | `MCCmTask`, `CmTaskProofs` |
| `TimerSet` | what they promise: a set of armed timers, run once and not early | `CmTask` (`ImplementsTimers`) |
| `XNQueue` | the queues on the pointers of the rings | `MCXNQueue`, `XNQueueProofs` |
| `FifoQueues` | what they promise: sequences of elements | `XNQueue` (`ImplementsFifo`) |
| `Recorder` | the recorder and its files | `RecorderProofs`, its own run |
| `Capture` | the capture program, the driver, the encoder and the reader's socket | `CaptureProofs`, its own run |
| `DebugOut` | the debug connection down to the bytes of its frames | `MCDebugOut`, `DebugOutProofs` |
| `HttpDownload` | one download with its redirects | `MCHttpDownload`, `HttpDownloadProofs` |
| `MC*` | constants for TLC | the `.cfg` files |
| `BusServerProofs`, `BusSystemProofs`, `CmTaskProofs`, `XNQueueProofs`, `RecorderProofs`, `CaptureProofs`, `DebugOutProofs`, `HttpDownloadProofs` | theorems | - |

Operators keep the names of the C functions they translate. An operator whose
comment starts with "Mutant" is a plausible bug: it replaces the definition
below it when the properties are tested for strength, and is used nowhere else.

### BusServer

`clients` is `ss->clients`. A connection is the *address* of its `struct
mg_connection`: `Close` frees it and `Accept` may reuse it, which is what makes a
stale slot dangerous. `rbuf` holds the complete messages of `recv_mbuf`, each
reduced to what the `strncmp` calls tell apart; `type` is the handler's local
variable, which is reset once per event and not once per message, so that a
message of an unknown kind is handled after one of a known kind and left in the
buffer otherwise. `pc`, `cur` say what the one server thread does. `sent` is what
the last step queued with `mg_send`, by slot.

| Code | Actions |
|---|---|
| `cm_busserver_init/deinit/run` | the same names |
| `MG_EV_RECV` | `RecvStart`, one of `HandleJoin`, `HandleSubscribe`, `HandlePublish`, `HandleOther` per iteration, `RecvEnd` |
| `MG_EV_CLOSE` | `Close`, with `ClearSlot` |
| `bus_client_set_conn` | `bus_client_set_conn`: the first slot whose name *starts with* the joining one, else the first free one, else none |
| mongoose | `Accept`, `Read`, `Close` (external) |

The application's callback answers a publish with a message to any name, a
broadcast or nothing, which is all it can do through the API. `malloc` does not
clear the slots: `HeapNames` and `HeapConns` say what it may leave there; the runs
use a zeroed heap.

### BusSystem

Extends `BusServer` with the programs of `cmbusclient.c`: `demo1` calls
`cm_busclient_connect` again with the same `cc`, `demo2` frees it and makes a new
one (`Recreates`). `at` is where the client's thread is, `sock` the connection in
its mongoose manager, `conn` whether `cc->conn` is not `NULL`; `link` and `backlog`
are the kernel's view. The join goes out as soon as the client is connected, before
the server has accepted, and the server may accept a connection whose client
is gone.

| Code | Actions |
|---|---|
| `cm_busclient_connect` | `cm_busclient_connect`, `LoopEnds`; `Again` for the loop around it |
| `ev_handler_client` | `Connected`, `ConnectFails` (`MG_EV_CONNECT`), `Closed` (`MG_EV_CLOSE`); its receive loop changes no state of the client |
| the server | `SysAccept`, `SysRead`, `SysServe`, `SysClose`, `Restart` around the actions of `BusServer` |
| outside | `Crash` of the server, `LinkFails` |

`SysClose` may come arbitrarily late after the client lost the connection, also
after it has joined again over a new one. One assumption about the
network is made: the server reads a client's older join before its newer one
(`InOrder`). Without it the older join takes the slot over and the close that
follows empties it, while the client is connected and sees no error.

### Recorder

A frame is its number and the packet made of it has the same number. `Encodes` lets
x265 hold `Lookahead` frames back; when it returns nothing, `pData` keeps
the last packet, which `enc_h265_pop` then returns once more: the files may repeat
packets. A file is known by the second in its name. `cm_avprocess_write` is one
action, since everything runs in one thread, but the clock may move between the
`time(NULL)` that decides on a rotation and the one that makes the name.
`OpenFails` leaves the name set and `pWrite` `NULL`; after a rotation the next
call tries again, because `iLastOpen` is still old, but not after the first open,
where `WritesToNull` ends the program. `refused` records the packets for which
an error was returned. `fwrite` may take less than a packet, as on a full disk: its
result is kept in a `size_t` and tested for `< 0` (`avstorage.c:112-116`), so the
push returns success and the file goes on with the next packet; `cut` records these packets.
The program may be started again within the second in which it has ended, and its first file then
replaces one of that name.

### Capture

A frame is its number. `queued`, `filling` and `done` are the driver's side of the
buffers, `content` what each holds; `get_video_data` dequeues, and `Requeue` is its last call,
after which the driver may fill the buffer again while `rs_run` encodes it
(`Picture` is 0 when it did). Nothing in the program waits: the device is opened
with `O_NONBLOCK`, and a dequeue without a frame leaves `buf.index` at 0. A failing
encoder leaves `stream_delen` and with it the previous packet, which the main loop sends
again. `slack` is a ghost: how many frames may start before the driver comes round to the
buffer in use.

| Code | Actions |
|---|---|
| `rs_init`, `rs_start`, `sock_init` | the same names; `sock_init` makes no handle when there is no file at the path, and the program goes on without one |
| `rs_run` | `get_video_data`, `Requeue`, `rs_run` |
| `sock_send`, `cm_unixsocket_client_send` | `Send`, with `sock_send` and `Connects` |
| `cm_unixsocket_server_init`, `_deinit`, in the reader | `ReaderUnlinks`, `ReaderBinds`, `ReaderListens`, `ReaderEnds` |
| outside | `StartFrame`, `EndFrame` |

`reader` says what is at the path: no file, a file on which nobody listens, which an earlier
reader has left or a new one has just bound, or a reader that listens. A program that is started
while there is no file never gets a socket (`cm_unixsocket.c:154-156`, `jkrecord.c:76-79`): it
sends nothing to a reader that comes later. A socket whose reader has ended is `broken`:
`connect` on it fails with `EISCONN`, so a reader that restarts is not found again. `encoder.c:42`
sets I420 and nothing calls `set_format`, so the encoder reads the buffer itself (`encoder_yuv420_h264`). `process.c` calls the client by its older
prefix `rt_`; `cm_unixsocket.c` is the code behind it.

### DebugOut

A byte on the connection stands for its place: a byte of the response to the handshake, or
its message, the frame of the message and the byte of the frame, which is the first one, the length, one
of two or eight of an extended length, or data (`Kind`). A shape of a message says where
each of its frames ends, how long its length is and whether it is a control frame (a ping), which may
stand between the frames of a message. The server writes the bytes in their order
(`rest` is the one it writes next, `After` the one behind it) and masks nothing; its frames are not
longer than an `int` holds. The bytes arrive one by one, and the reader may find
nothing between any two of them (`Pauses`), which is what `select` with 0.4 seconds
means. Where it then goes on depends on the function: a header that does not come ends
`cm_websocket_request_recv_ex`, a body is waited for, and `cm_websocket_request_recv`
(`waitres`) counts bytes that have not come as read. The handshake takes what has arrived and ends
when that is at least `Few` bytes; it is accepted when the response is there up to its status code
(`CodeLen`; 10 and 12 in the code, 2 and 2 of 3 in the runs). What is then missing of
the response is read as frames, and frames behind it are gone (`HandshakeEnds`).

A reader that has lost its place takes any byte for a header: it may read a mask, and
eight bytes for a length, which is negative as an `int` for some. The buffer is then made smaller
than `length` says, or is asked for as much as cannot be had, `realloc` returns `NULL`, and the
program crashes (`Grow`, `Crashes`). Memory that runs out for another reason is not modelled.
`flaw` is a ghost. `lost`: a pause inside a header, a request cut short, a handshake that
ended before the whole response had come, or frames thrown away with the
response. `parted`: a pause or a control frame between two frames of a message, or a request
that took one of its frames; `ReadOp` ends this with the next message. `shrunk` is a ghost: a
negative length has been read.

| Code | Actions |
|---|---|
| `cm_debug_out_init`, `cm_debug_out_deinit` | the same names |
| `cm_debug_out_run` | `Reconnect` or `StillConnected`, then the handshake, then a message |
| `cm_websocket_handshake` | `SendHandshake`, `TakeResponse`, `NoResponse`, with `HandshakeEnds` |
| `cm_websocket_request_read` | `ReadOp`, `ReadLen`, `ReadExt`, `ReadMask`, `HeaderPauses`, `ReadBreaks` |
| `cm_websocket_request_recv_ex` | `StartRecv`, `Grow`, `ReadBody`, `BodyPauses`, `FrameEnds`, `MessageEnds` |
| `cm_debug_out_request` from the callback | `cm_debug_out_request`, the reads with `waitres`, `ResponseEnds`, `RequestReturns` |

### HttpDownload

A line is two tokens, its halves, and a byte of the body one. `Gets` and
`GetsLess` are `fgets`: a line, or less than one after 10 seconds, a signal, the end
or an error, with `errno` as it is left. `Reads`, `Interrupted`, `EndTakenForSignal` and
`ReadFails` are the outcomes of an `fread` in `read_data`. `save_data` and `read_data`
end without `return`: what a caller sees depends on the build, so `ended` is
chosen once, in `Init`, and a build in which it is -1 fails after it has written.
A `fwrite` that falls short fails, unless a signal has interrupted it (`errno` is `EINTR`): then
the whole buffer is written again behind what is there, and the count of what is left goes below 0
(`save_data`, `flaw = "rewritten"`). Half a line may be taken for any length, also one below 0,
with which `read_data` asks `fread` for almost 2^64 bytes and counts away from 0 (`ReadsNegative`), or
has no colon, and a null pointer is followed (`pc = "crashed"`). Redirects and signals
are not counted: `signals` is their number modulo 2, which is enough to say that they never end.
`held` counts the descriptors of the call. `flaw` is a ghost: a line was read in pieces (`torn`), a
write of the file was interrupted (`rewritten`), or the disk was full at `fclose` (`disk`).

### CmTask

`next` and `prev` are the pointers of the task structures and of the list head,
`mutex` is `list_mutex`, `tmp` and `p` the cursors of `cm_list_each_safe`. Time is
reduced to `due`, the tasks whose time has come (`Elapse`). A call is a
step to its `pthread_mutex_lock` and one inside; a poll is a step per item,
and a step back from the callback. `cm_task_start` initialises the item *before* it
locks (`InitTask`). A callback in `Rearming` starts its task again, as the one
of the test at the end of `cm_task.c` does.

The program that uses the module starts idle tasks and cancels tasks it believes to be
armed; `Starters`, `Cancellers` and `Pollers` are the threads that do each.
Starting a linked task corrupts the list by contract: nothing in the code or its
comments promises otherwise.

### XNQueue

Operations that lock, work and unlock one mutex are one action; moving, waiting
and a read that does not end go step by step. The clients are those the header's
comments describe: one that waits holds `XN_QueueLock` and has seen the queue
empty; one that puts wakes the waiters afterwards. `XN_QueueGetIndex` with a
negative position goes round the ring, mutex held, until an `int` overflows: the
model keeps the thread there and lets undefined behaviour return anything.
`XN_QueuePutTail` does what `XN_QueuePut` does, since its condition is an
assignment.

## 3. Runs

| Run | Checks | Shows |
|---|---|---|
| `bus_demo` | `TypeOK`, `NothingLeftBehind`, `ImplementsRegistry`, `RecvReturns` | with names of which none is a prefix of another, a slot for each, and messages of every kind in every order, the table is a map from names to connections, and the receive loop ends and leaves nothing it could handle |
| `bus_prefix` | `NoDanglingSlot`, `SlotNamesItsPeer`, `NoDoubleDelivery` | with prefixes, too few slots and reused addresses, no slot is stale or names the wrong client |
| `task_threads` | `TypeOK`, `ListIntact`, `ImplementsTimers`, `EveryDueTaskRuns` | three tasks, one thread that polls and cancels, one that starts tasks |
| `task_rearm` | `WalkHoldsMutex`, `SelfWaitOnlyWhenRearming` | two polling threads and a callback that restarts its task |
| `task_test` (violated) | `CallbackMayRearm` | the test program of `cm_task.c` blocks on its own mutex in the first callback |
| `xnq_fifo` | `TypeOK`, `NoLostWakeup`, `NoWaitCycle`, `ImplementsFifo` | three threads, two queues, two elements, moves in one direction |
| `sys_comeback` | `SysTypeOK`, `JoinedMeansRegistered`, `ClientsComeBack` | two clients, two slots, two failures (crash or link) at any time: a joined client keeps its slot, and every client is registered for good after the last failure |
| `rec_files` | `TypeOK`, `EveryPacketStored`, `FilesInOrder`, `NothingOverwritten`, `FilesAreShort` | six frames, seven seconds, files of two seconds, restarts also within one second, failing opens and short writes: a packet that is in no file is one whose open or write failed, files are in order and short, and only the first file of a run replaces another |
| `cap_stream` | `TypeOK`, `EveryBufferOwned`, `OverwrittenOnlyWhenLapped`, `BuffersComeBack`, `ReaderFound` | three buffers, six frames, a camera of any speed: every buffer has one place, a picture is overwritten only if as many frames start meanwhile as there were buffers before it, filled buffers come back whatever fails, and a reader is found however late it listens if there was a file at its path when the program started |
| `dout_frames` | `TypeOK`, `MessagesIntact`, `BufferHolds`, `ComesBack` | two messages, of one frame or of two with a ping between, one failure: the reader keeps its place and puts together whole messages (`flaw` names the only exceptions), the buffer holds them until a negative length is read, the connection recovers |
| `dout_block` (violated) | `NeverBlocks` | without a failure: a frame is partly thrown away with the response to the handshake, the rest of it is taken for a header, and `cm_debug_out_run` waits for a body that nobody sends, against `cm_debug_out.h:41` |
| `http_get` | `TypeOK`, `ZeroMeansComplete`, `FileIsPrefix`, `NothingHeld`, `Returns` | six responses, redirects and signals without a limit, one failure: 0 means a complete file and the file is a prefix of the body (`flaw` names the exceptions), no descriptor is left, and the call returns or crashes on a torn line, unless an old `EINTR` or a negative length makes it spin, or servers redirect or signals interrupt it for ever |

Bounds, and why they are enough. *Bus*: three connections let one close, its address
come back under another name, and a third hold a slot meanwhile; two slots
for three names fill the table. Buffers of two messages give every
succession of a known, an unknown and a join. *Clients*: with two failures a
client loses its connection while it is still recovering from the first loss; four
addresses leave room for two old connections beside two new ones; one slot per
client means that a slot left behind is missed. *Tasks*: with three tasks an item
is unlinked that has a neighbour on each side, with two its neighbour is the head. Two
threads suffice for the races, since there is one mutex. *Queues*: two elements
tell order and splicing of nonempty rings apart; with three threads one waits,
one moves and one puts. `MaxCur` bounds the read position, which otherwise counts
for ever. *Recorder*: seven seconds hold three rotations, or two runs of
the program with a rotation each; `iTimePerFile` is at least 2, since with 1 two
rotations can get one name, and the code uses 1800. *Capture*: with three
buffers one is encoded, one filled and one waits; six frames let the camera lap
the program twice; the code asks for eight buffers. *Debug output*: a message in one frame with an
extended length, which can come apart, and one in two frames with a ping between; a second message
is needed for a buffer that the first has left behind. A response of three bytes can be cut
before, in and behind its status code. `MaxLen` is 1, so that a negative length
is -1 or -2: one makes a buffer of no bytes, the other asks for more than there is.
*Download*: `RECV_BUF` is 2 so that a body of three bytes takes two reads; a torn line is
taken for a length of -1, 0 or 1 (`MaxPart`), which are all that differ in what the code does with them.
Symmetry is used only where no liveness is checked.

`task_rearm` and `task_test` switch the deadlock check off because a thread that
waits for itself stops for good: that is what they are about; `sys_comeback` because
the whole bus waits once the failures are used up; the recorder's run because time
and frames are bounded and the program may crash; the runs of `DebugOut` and `http_get` because the program may end.

Fairness. `BusServer!FairSpec` assumes that the server thread does not stop inside a
handler; it is one thread in a loop without waiting. `CmTask!FairSpec`
assumes that each thread that is inside a call and can go on does
(weakly fair), and that the polling thread, which calls `cm_task_poll` in a loop,
comes to poll again and again (strongly fair, since it is also allowed to start or cancel
in between). Nothing is assumed of peers, of callers or of time.
`BusSystem!SysFairSpec` assumes that every client's thread, the server and whoever
restarts it go on (weakly fair), and that a waiting connection is accepted and
a waiting join read in the end (strongly fair: a crash takes both away for a while). It
does *not* assume that the server ever notices a lost connection.
`Capture!FairSpec` assumes that the program's loop goes on (only `connect` and `send`
can block, on a reader that listens without accepting or reading) and that a frame
that is begun ends; nothing of the camera's speed or of the reader.
`DebugOut!FairSpec` assumes that the application goes on calling
`cm_debug_out_run`, that a server that has ended starts again, answers, and
that what it has begun to write arrives; a server that stalls in the middle of a frame is thereby
excluded, and `NeverBlocks` is violated all the same.
`HttpDownload!FairSpec` assumes only that the thread runs, since `SO_RCVTIMEO` ends
every read; an answer is finite, but servers may send any number of redirects.

## 4. Proofs

`BusServerProofs`, for any names, connections, number of slots and traffic:

* `TypeCorrect`: `Spec => []TypeOK`.
* `SlotsSound`: under `JoinsPerConn <= 1` (the client joins once, when connected)
  and a heap without connections, `Spec => []SlotInv`; `DeliveredOnce` follows for
  `NoDoubleDelivery`. `NoDanglingSlot` alone is not inductive: closing clears one
  slot, so a connection must have at most one, and a join that is still in the
  buffer must not give it a second. `SlotInv` therefore adds `OneSlotPerConn`,
  `NewcomersHaveNoSlot` and `AtMostOneJoin`. `NoSlotDangles` and `SlotsNamePeers` state two
  of its parts on their own.
* `BuffersEmptied` (`NothingLeftBehind`), without assumptions, from `LeftInv`: while a
  message of a known kind is handled or `type` says that one was, the loop has not ended.
* `RegistryImplemented` (`ImplementsRegistry`), if no name is a prefix of another
  (`PrefixFree`), there are as many slots as names, and the heap is zero, all of which
  holds in `bus_demo`. `TableInv` says that a slot is free or names the peer of its open
  connection and that no name is in two slots; then a newcomer always finds its own slot
  or, by counting, a free one, and a join is the abstract one. Without the hypotheses
  the property is false: a client `bt` that joins after `btavk` takes over its slot.

`BusSystemProofs`, for any clients, addresses, other traffic and failures:

* `SysTypeCorrect` (`SysTypeOK`), without hypotheses, from `NetInv`: a client's socket is
  up exactly while it has a link, a link that the server has not accepted is in the kernel's
  queue, and only a client that polls has a socket that is up or broken.
* `JoinedStaysRegistered` (`JoinedMeansRegistered`), under the hypotheses of
  `RegistryImplemented` and for clients that join at all. `JoinedMeansRegistered` is not
  inductive: an older connection of the same client may still have a join to be
  read, which would take the slot over. `PresentInv` adds that once a join of the
  client's present connection has been read the older ones send no more, and what joins
  are left in their buffers are stuck behind a message that is not handled; this is what
  the order of the joins (`InOrder`) is needed for. TLC has checked the
  invariant on instances with other traffic and two joins per connection.

`CmTaskProofs`, for any tasks and threads:

* `TypeCorrect`, `MutexSound` (`WalkHoldsMutex`) and `SelfWaitSound`
  (`SelfWaitOnlyWhenRearming`), from `LockInv`.
* `ListSound` and `TimersImplemented`, under `CancelsFromPollLoop` (only the
  thread that polls cancels). `ListInv` says that `next` and `prev` are inverse on
  the linked nodes, that some numbering increases along `next` from the head
  (so that it is one ring, without recursion), and where the cursors of a walk
  are. Without the assumption the list can be cut: a cancel that was
  decided before another thread fired the task unlinks it a second time.
* `ListStaysIntact` (`ListIntact`), under the same assumption. `Chain` walks the pointers
  with a recursive function; that there is one is shown by the least number of steps without
  (`WalkExists`). As the numbering increases along `next`, a walk meets no node twice
  before it comes to the head, which it therefore does within as many steps as there are
  nodes. That the walk from the head misses no armed task: the walk from the task comes
  to the head, and back from there along `prev` every node is one that the walk
  from the head has met (`BackFromHead`).

`XNQueueProofs`, for any queues, elements and threads:

* `NoDeadlock` (`NoWaitCycle`), if the queues have ranks that every move goes down: moves
  go round no cycle of queues, which the header leaves to the program. `LockInv` says
  that a mutex is held by exactly the thread that is where it should hold it, and
  that a thread that moves does so between two different queues that may be moved
  between. Of a set of threads that wait for each other, take one that waits for
  a queue of the lowest rank: whoever holds that queue is moving elements from it and
  waits for the other queue, whose rank is lower still.
* `FifoImplemented` (`ImplementsFifo`), from `RingInv`: some sequences of elements, no
  element in two of them or twice in one, are what `next` goes through forwards and
  `prev` backwards in every ring, and the counts are their lengths. There is only one such
  family of sequences, so the content that the refinement reads off the pointers is
  that one (`MapIs`); each operation is shown to relink the rings into those of the
  abstract queues after the step, and a move to happen where it relinks.
* `TypeCorrect` (`TypeOK`: an element returned is no queue's head) and `WakeupsArrive`
  (`NoLostWakeup`), from the same invariant with the range of the read position
  and with who is about to wake whom.

`RecorderProofs`, for any time per file of two seconds or more, any encoder delay and any
length of the run:

* `TypeCorrect`, `NothingLost` (`NothingOverwritten`), `RotatedInTime`
  (`FilesAreShort`) and `PacketsStored` (`EveryPacketStored`), from `RecorderInv`. That
  a name is new does not follow from the types: `NamesAreOld` adds that every
  file with content is at most one second newer than `iLastOpen`, so that a
  file opened two seconds later has another name. Before the first open of a run files are
  only known not to be newer than the present second: the first file may replace one, which
  `FirstOfRun` excepts.
* `PacketsInOrder` (`FilesInOrder`), from `OrderInv`: what the encoder holds is newer than its
  last packet, that is not older than what is stored, and the open file is the newest.

`CaptureProofs`, for any number of buffers, frames and encoder delay:

* `TypeCorrect`, `BuffersOwned` (`EveryBufferOwned`) and `NotOverwritten`
  (`OverwrittenOnlyWhenLapped`). `Places` counts places by set comprehension; the invariant
  has them as `Once` (no buffer twice in one queue or in two places) and
  `Somewhere`. For the picture it adds `Counted` and `Unlapped`: the buffer in use is
  at least `slack` frames from the head of the driver's queue.

`DebugOutProofs`, for any messages, frames, lengths and failures:

* `TypeCorrect`, and `BufferSound` (`BufferHolds`), from `BufferInv`: what has been read and what
  has not together stay below the size while a body is read, nothing is left of a body
  when a header is read (`Between`), `length` is 0 or below the size, what is on its
  way is a sequence, of whatever, and only a server that runs and is connected has
  something to write (`Written`). Nothing is claimed of the buffer once a negative length
  has been read (`shrunk`).
* `MessagesStayIntact` (`MessagesIntact`), from `PlaceInv`. The property speaks only of the
  moments between two frames, and is not inductive: in between, the reader has to stand where
  its `pc` and `needread` say. `On(q)` says that what has arrived and is not read, and what
  the server writes next, go on at the place `q` one byte after the other, where any
  message may follow a finished one. `Standing` says which place that is: the first byte of a frame
  or of a message (`Outer`, `AtFrame`, `AtEnd`), the length or the extended length
  (`InHeader`), the byte of data that has `need` behind it (`InBody`); and that
  what this call has read is the beginning of that message (`Gathered`), unless `flaw` is
  `parted`. A connection that has broken inside a frame is read to its end and nothing
  more comes (`Dead`). Before the handshake is over, a server writes nothing until it has answered, and behind the last
  byte of its response a message begins (`Greeted`), so a handshake that has read just the
  response leaves the reader at a message. A body is read in chunks: that their bytes follow each
  other is shown by the first one that would not (`BodyBytes`).

`HttpDownloadProofs`, for any responses with any number of parts, redirects, signals and
failures:

* `DescriptorsClosed` (`NothingHeld`), from `HeldInv`: `held` is what `sock` and
  `save_file` say, and both are clear between two requests.
* `TypeCorrect` (`TypeOK`), from `TypeInv`: what is to be shown beyond types is that a call never
  has more than one socket and one file open, which `HeldInv` gives.
* `FileStaysPrefix` (`FileIsPrefix`) and `ZeroIsComplete` (`ZeroMeansComplete`), from
  `BodyInv`. Neither property is inductive: what is stored next depends on where in the
  response the reader is. `InPlace` says that what has arrived and what is still to come
  go on at some place of the response (`Continues`), that this is the place that
  `pc`, `len`, `chunked_flag`, `total_len` and `part_len` stand for (`Place`: before the status, a field
  or the blank line, in a plain body, before the size of a part, in a part), and that as
  many bytes are stored as are behind the reader (`Stored`). After the end of the
  connection only half a line may have been read; then nothing more comes, and the
  file grows no more (`Dry`). A length below 0 and a write that is done again happen only with
  a flaw that the properties except, and a flaw stays (`FlawStays`, `NegativeFacts`). The response is a recursive sequence, and so is the
  number of bytes in its first parts; that such functions exist is shown by the
  least number of parts without (`SumExists`, `JoinExists`), and from them what is at
  each place of a response (`AnswerIs`). `HttpAssumption` says that no part is empty, as
  a part of no bytes ends a chunked body.

Only model-checked: liveness (`RecvReturns`, `EveryDueTaskRuns`, `ClientsComeBack`,
`BuffersComeBack`, `ReaderFound`, `ComesBack`, `Returns`), which the prover does
not reach. The other properties of the passing runs are theorems, under the assumptions that
each one states.

## 5. What disagrees with its documentation

Shown by a run, and quoted with its line in `PROJECT.json`:

1. `cm_debug_out_run` may wait for ever inside a body (`dout_block`); `cm_debug_out.h:41` says "Never
   block, caller call always".
2. A callback cannot start its task again, which the test does (`task_test`).

Reached by the models, without a run of their own:

3. `XN_QueueGet` moves the read position below where "get the next" can start
   (`XN_Queue.h:120`, against line 139): put, put, get and a read of the next element go
   round the ring (`GoesRound`).
4. `cc->conn` does not say whether there is a connection (`busserver_ex.c:402`, against
   the message at line 452).
5. A first file that cannot be opened ends the recorder instead of returning an
   error (`avstorage.c:102`, `WritesToNull`, against line 114).
6. A connection that is closed during the handshake is never noticed (`DeadHandshake`); a reader that
   has lost its place may take a length for a negative one and crash (`cm_conn_ws.c:166`).
7. `get_video_data` returns 0 without a frame (`operation.c:121`), where `vdev.c:60` says
   "0 success".
8. `http_download` spins when the peer closes the connection after a read was interrupted, or
   a torn line was taken for a negative length (`Spins`); a torn line without a colon crashes it. It
   returns 0 for a body that has neither a length nor chunks, and may
   return 0 with a short file when a chunk-size line came in pieces. A write of the file that
   a signal interrupts puts bytes into it twice.
9. A packet that `fwrite` has not taken is lost and the push returns success
   (`avstorage.c:112-116`, whose test for an error never holds).
10. A reader that is started after the capture program, at a path where there was no file, is never
   found (`cm_unixsocket.c:154`).
11. A bus client whose name is a prefix of a connected one takes over its slot
   (`busserver_ex.c:57`): the other hears nothing any more, although it is connected.

## 6. Not modelled, and why

* **The sending side of the bus in pieces.** A part goes out by four `mg_send` calls
  without a lock, so the frames of two threads mix; mongoose allows no such calls at
  all from other threads, so what happens is undefined.
* **The first bus server** leaves a stale slot behind every closed connection; there is no
  invariant of its slots to check.
* **Log printing** rotates a file that other threads write, without a lock: a data race.
* **Flash configuration.** One process writes a value and then its flag; a reset between the
  two leaves the new value with the old flag. The parameter names are matched
  by `strncmp` prefixes, so that `license_res` finds `license`.
* **Binary protocol and v4** are conversions without steps. `1<<4-1` is 8 and
  `1<<16-1` is 32768 in `jkprotocolbin.c`, where all bits of a field are meant, and
  v4 writes its ack bit at another place than it reads it. No build file
  compiles `jkprotocolbin.c`.
* **Suspend, fifo, local debug** have a thread each and hardly any state;
  `cm_local_debug.c` initialises its semaphore after it has started the thread that posts it.
* **`cm_http.c`** converts strings and headers. **`cm_http_upload.c`** is one straight
  sequence of sends; it ignores their results and returns 0 once it is connected, so there
  is nothing that its result promises.
* **Left out for good**: vendored code (mongoose, jansson, libconfig, `http_parser.c`, crypto:
  most of the lines of the repository; mongoose appears as external actions),
  wrappers of system calls, conversions without state, demos and build files.

What would be worth adding: a second reader that restarts in `Capture` once the code
opens a new socket for it; in `BusServer`, what remains of `ImplementsRegistry` when
names are prefixes of each other.
