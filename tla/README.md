# Verification of the SPP server framework

SPP (`src/ServerFrameWork`) is a framework for network services on Linux. A
**controller** starts and supervises two kinds of processes: the **proxy**, which
holds the client connections, and groups of **workers**, which run the user's
service. Proxy and workers exchange requests and responses through byte rings in
System V shared memory; all processes report to the controller through a System V
message queue. Beside it the repository has two libraries, `src/libcomm` (a hash map
in shared memory, a TCP client, helpers) and `src/libprotocol` (the packets of the
data platform that services talk to), and tools (`src/tools`), of which the update
client and the report program run beside the servers. This directory holds TLA+
models of that system, TLC runs over small instances of them, and TLAPS proofs.

## Inventory

Paths are relative to `src/ServerFrameWork`, those of the last four rows to `src`.

| Component | State | Operations | Talks to | What makes it correct |
|---|---|---|---|---|
| `CShmMQ`, `CShmProducer(L)`, `CShmComsumer(L)` (`src/base/shmcommu.cpp`) | `*head_`, `*tail_`, `block_`, a mutex per role in a mapped file | `init`, `enqueue`, `dequeue`, `getstat` | proxy on one end, workers on the other, no common lock | a FIFO of whole messages under every interleaving, crash and restart |
| `CTShmCommu` (same file) | map from flow to time of arrival | `poll`, `sendto`, `check_expire` | the ring, callbacks of proxy and worker | every message that arrives reaches its callback |
| `CTSockCommu` (`src/base/sockcommu.cpp`) | listening sockets, epoll set, flow counter | accept, connect, `poll`, `sendto`, `ctrl`, `check_expire` | `CConnSet`, `CEPollFlow`, callbacks | a flow names one open connection; each is closed once, with one callback |
| `CConnSet` (`src/base/connset.cpp`) | table of connections by flow modulo size | `addconn`, `recv`, `send`, `sendfromcache`, `closeconn`, `check_expire` | caches, memory pool | slots neither leak nor collide; bytes leave in order |
| `CRawCache`, `CMemPool` (`src/base/cache.cpp`, `mempool.cpp`) | cached bytes; free blocks by size | `append`, `skip`; `allocate`, `recycle`, `release` | `CConnSet` | a block has one owner |
| `CDefaultProxy` (`src/proxy/defaultproxy.cpp`) | one connector per worker group | `ator_*` and `ctor_*` callbacks, main loop | sockets, rings | a complete request is forwarded once or answered with an error |
| `CDefaultWorker` (`src/worker/defaultworker.cpp`) with `CCommuMng` (`src/base/sockcommumng.cpp`) | back-end connections by server type | `ator_*`, `ctor_*`, `spp_sendto`, timers | rings, sockets, user code | each response goes to its request's flow; connection table and sockets agree |
| `CDefaultCtrl`, `CTProcMonSrv`, `CTProcMonCli` (`src/controller/defaultctrl.cpp`, `src/base/procmon.cpp`) | groups, members, counts, timestamps | `do_recv`, `do_check`, `do_event`, `killall`; `CTProcMonCli::run` | message queue, `fork`, `kill`, `/proc` | groups keep their size, live processes are spared |
| `CServerBase` (`src/base/serverbase.cpp`) | `flag_` | signal handlers; `reload`, `reloadmoduleconfig`, `quit` | main loops of all programs | a signal that is seen is acted on |
| `CLoad`, `CLoadTable` (`src/base/load.cpp`, `loadtable.cpp`) | load counters; a shared table without a lock | overload decision; `read`, `write` | controller, report program | what the controller writes is what the report program reads |
| `CTStat` (`src/base/stat.cpp`) | counters in a mapped file | `init_statobj`, `step`, `reset` | all processes | an identifier has one slot |
| `CShmHashMap` (`libcomm/include/ShmHashMap.hpp`, `HashMapImp.hpp`, `libcomm/src/shmhash`) | nodes in buckets and in the list of added nodes, chunks, a semaphore | `Init`, `Find`, `Insert`, `SetValue`, `Delete`, a visitor | processes of a service | no node or chunk is lost, every call is all or nothing |
| Packets (`libprotocol`) | a packet; a request or response object | `MakeReq`, `ParseRsp`, cookies, encryption | user code of a worker, relays, the data platform | what was packed is what is parsed, whatever the way |
| Update client (`tools/UpdateClient`, `libcomm/src/sockcommu/base_socket.cpp`) | versions of route tables, a connection | check of versions, fetch of tables | a configuration server | the version of the server is taken over in the end |
| Report program (`tools/ReportServer`) | its copy of the load table, a connection | report with one retry | controller (shared table), a load balancer | reports go on after every failure |

What is hard here: producers and consumers that share memory without a common
lock, at every position of a ring that wraps; processes killed in the middle of an
operation and restarted over the shared memory they left; a supervisor that knows
its processes only from messages that are lost, late or left behind by the dead;
flow numbers that wrap and outlive their connections; tables on two sides that must
agree after every error path; clients that retry over connections that break at any
point; a shared table without a lock, and a flag byte that signal handlers change.
`PROJECT.json` lists these hazards with their lines.

## Modules

### `ShmFifo`, `ShmMQ`, `ShmMQRestart`: the rings

`ShmFifo` is the promise: messages are sent, received once in order, or dropped
from the front when `msg_timeout_` is configured.

`ShmMQ` is the code. Variables `head`, `tail` and `block` are the shared segment,
`mutex` the two locks, `pc`, `reg` and `blob` the program counter and locals of each
process. `q` (the published messages and where each begins) and `got` (what each
consumer received last) are history. Each action is one access to shared memory:

| Code | Actions |
|---|---|
| `produce` → `enqueue` | `Produce` (lock), `EnqFull` or `EnqLoad` (loads and check), `EnqCopyHead`, `EnqCopyData` (the `memcpy`s), `EnqPublish` (store of `*tail_`), `Unlock` |
| `comsume` → `dequeue` → `dequeue_i` | `Comsume` (lock), `DeqEmpty` or `DeqLoad`, `DeqReadHead` (header and assertion), `DeqReadData`, then `DeqReturn` or `DeqExpired` (store of `*head_`), `Unlock` |

A byte is `<<m, k>>`, byte `k` of message `m`, so that mixed-up bytes are visible. The
branches of `enqueue` and `dequeue_i` differ only in where they split a `memcpy` at
the end of the block; `CopyIn` and `Holds` state their common effect, while `NewTail`,
`DataPos` and `NewHead` keep the branches, because the words they store differ. A
header that no single `enqueue` wrote decodes to arbitrary lengths.

The two loads at the start of each operation are one step: in a locked role each
process only races with the other side, which moves one of the two words.

`ShmMQRestart` adds `Crash` between any two accesses and `Start`, the `init` of a new
process, which keeps the segment and initialises the mutex again.

The messages of `shm_ring` and `shm_restart` carry a byte or more. Those without data are the
workers' close requests on the response ring, and on the request ring the proxy's events
(`defaultproxy.cpp:747`, `802`, `839`, `886`). `shm_ring_close` is a run with the former; the latter
go through the same lines of `enqueue` and `dequeue_i`.

### `ProcMon`: the process monitor

One group. `members`, `stale` and `curprocnum` are the controller's tables, `ctrl`, `due`
and `todo` its place in `realrun` → `run` → `do_check`, `mq` the kernel's queue, `proc` the
processes. `DoRecv` is one turn of `do_recv`; `GroupSkip`, `GroupDown`, `GroupUp`, `GroupOk`
are `check_group` with the `do_event` it leads to; `ProcDead`, `ProcSick`, `ProcOk` are
`check_proc` with its `do_event`; `Sleep`, `Reload` and `Quit` end a turn of the main loop;
`Restart` is a new controller. `Beat` is `CTProcMonCli::run`, `Exit` the end of a process
that saw `quit()`, `Die` a crash.

Time is abstracted: while the controller sleeps, any member may become older than
`heartbeat_` and the check of the group may become due. A process may take any time to
start, since the user's `spp_handle_init` runs before its first report. `PROCMON_EVENT_
OVERLOAD` is left out: every process reports `watermark_` 0 (`defaultworker.cpp:306`,
`defaultproxy.cpp:169`). `do_fork` picks the smallest free pid; which member `GroupUp` drops
is left open, because it depends on pids modulo the number of buckets. Pids are reused
only when nothing refers to them any more.

### `ConnSet`, `SockCommu`: the connections

`ConnSet` is `CConnSet` over a small kernel. `slots` is `ccs_`: each slot has the flow, the
descriptor (or, for UDP, the address), whether it is idle for longer than `expiretime_`, and
its two caches. `fdtab`, `sock`, `ep` and `ready` are the kernel's: the descriptor table, where
the smallest free number is handed out next, what a socket holds, its epoll registration with
the flow in it, and epoll's ready list. Data is counted in units; a unit of output carries the
client it is for and its number. `AddConn`, `CloseConn`, `Send`, `SendFromCache` and `Expired`
are the operations, `KSend` says what `::send` may do. `CRawCache::append` may throw.

`SockCommu` is the one thread that runs `CTSockCommu`. `Wait` takes a batch of events from
epoll. They are then worked off in any order, and each action is the whole handler of an
event, or the part of it up to a callback in which user code may call back:

| Code | Actions |
|---|---|
| `poll` | `Wait`, then per event `Accept`, `AcceptUdp`, `Abnormal`, `Writable`, `Recv`; at the end `CheckExpire` |
| the loop around `recv` | `Recv` up to the call of `CB_RECVDATA`, `RecvReturns` what follows it |
| `handle_accept_udp` | `AcceptUdp` up to `CB_RECVDATA`, then `UdpReturns` |
| `sendto` | `SendClose` (no data: close) and `SendTo` |
| `connect` | `Connect` |
| the world | `PeerConnects`, `PeerSends`, `PeerCloses`, `PeerResets`, `PeerReads`, `Ages` |

User code acts between two polls and inside `CB_RECVDATA` (`Calling`), which is where the
proxy's and the worker's loops call `sendto` and `connect`. It uses the flows under which it
was given data, for as long as it likes. `asked`, `bye` and `given` record what it was told
and what it handed over. `Connect` refuses no backend: the worker's `ctor_connect` and
`ctor_connected` always return 0, and a failing epoll is `LateFailure`. Sending or connecting
from inside the other callbacks (the worker's `EVENT_TIMEOUT`, `EVENT_DISCONNECT`) is not modelled.

### `ShmCommu`, `Proxy`, `Worker`, `Server`: the server

The composition of proxy and workers over the rings. `ShmCommu` has the two rings of each
group, `req` and `rsp`, as the bounded queues that `ShmMQ` is proved to implement; a full one
refuses, and on the workers' side messages may be dropped from the front (`Skipped`).

`Proxy` extends it by the proxy. `conn` has the open connections by flow with their cached
requests, `cur` is the `ator_recvdata` in progress:

| Code | Actions |
|---|---|
| `handle_accept` with `ator_connected`, `ator_overload` | `Accept` |
| `poll` up to `ator_recvdata` | `Recv` |
| one turn of the loop in `ator_recvdata` | `RecvBad` (`spp_handle_input` < 0), `RecvLong`, `RecvLocal`, `RecvNoRoute`, `RecvForward`, `RecvFull` |
| its end, with the skip in the cache | `RecvEnd`, and `Return` in the early ends |
| `ator_disconn`, `ator_timeout` | `Leave` |
| `ctor_recvdata` | `Respond` |
| a new process | `Restart` |

One turn of the loop is one step because the workers empty the rings meanwhile. What the service
module's entry points return is a free choice. `sent`, `lost`, `unkept`, `handled` and `got` are
history: what clients sent, what the code gave up, what a full ring should have kept in memory and
the code drops, what was handed to the module, who got whose response. `Worker` adds the worker
processes: `Poll` takes one message of the group's ring, for which `Process` answers at once,
later (`BackAnswer`), with a close request, with both, or not at all; `WorkerRestart` forgets what
it owed. `Server` is the whole, with the properties.

### `Backend`: the back-end connections of a worker

`InitRouteConfig` and `GetNodeID` are the route tables, `known` is `CCommuMng`, `conns` the
connector's connection set, `batch` the events of the poll under way. `SppSendto` is
`spp_sendto` with the reconnection (`SendAgain`), in which callbacks may overwrite the static
buffer; `SppSendbyflow` the other; `Fetch`, `Answer`, `Answered`, `Stale`, `Ended` and
`Expire` are `CTSockCommu::poll` with `ctor_recvdata`, `ctor_disconn` and `ctor_timeout`.

### `MemPool`, `RawCache`: the caches

`MemPool` has the pool's functions as operators on a record, block numbers instead of
addresses; `RawCache` the four branches of `append` and the ways of `skip` as actions, over
two caches that share the pool. Bytes are numbered, so that a lost or doubled one is seen.
`SizeAt` is the size of a block after a number of doublings, `Purged` the loop of
`release_size` that gives free blocks back to the heap from the largest size down, both as
recursive functions. The pool refuses a block past its maximum, and `append` then throws; a `new`
that throws in the middle of `extend` (`mempool.cpp:192`) is outside the model.

### `ServerBase`: the main loops

`flag` is `flag_`. `TestFlag` is the test, `ClearFlag` the `&=` with what handlers may have set
between its load and its store, `Act` what follows; `Handle` is a signal handler. The loops of
five programs differ in the order of the tests.

### `BaseSocket`, `UpdateClient`, `LoadTable`, `ReportServer`: the tools

`BaseSocket` is `CTcpClient` as an operator for each call, giving the set of its outcomes,
with a connection that is up, dead, closed or `hollow`: a descriptor that was never
connected, which `Reconnect` makes when the first connection failed, because the address it
saved is zero and `connect` to `AF_UNSPEC` succeeds. `UpdateClient` is a round of `realrun`
with `SendBlob` and `OnProcess`; the server answers, changes tables back and forth, fails and
comes back. `LoadTable` is `CLoadTable` with every access as a step, since its lock is
`CNullLock`; two processes allocate and use one item. `ReportServer` is `SendRecvWithRetry`
step by step, with the controller as the writer of the table.

`Periphery` puts `Backend`, `RawCache`, `UpdateClient`, `ReportServer` and `ServerBase`, which
share no state, side by side: a behaviour is one of one of them.

### `ChunkAlloc`, `HashMap`, `ShmHashMap`, `KeyStacks`: the hash map in shared memory

`ChunkAlloc` and `HashMap` are the pure part, with the code's function names: chunks in a free
list and in chains, nodes in buckets, in the free list and in the list of added nodes, all by
handlers. `ShmHashMap` has the processes, the semaphore and the segment; a call holds the
semaphore from beginning to end and is one action, a visitor holds it over several. A process
may die between calls, or as a visitor, whose semaphore operation is undone. `init` is not
assigned when the segment is there, so its value is a choice. `KeyStacks` is what the map
promises: a stack of data under each key. `Insert` is for a key without data, as documented;
`InsertAgain` is the exception for a key that has some, for which the code does not look.

| Code | Operators |
|---|---|
| the walk along `next_`, `node_next_`, `node_add_next_` | `Follow`, at most as long as there are handlers |
| `CChunkAllocator::malloc`, `free` | `malloc`, `free`; both take chunks from one list and put each at the head of another (`Backwards`) |
| `split`, `merge` | `split` (a piece of the data in each chunk of the chain, `Pieces`), `merge` |
| the loop of `find_node` | `Nodes`, the nodes of the bucket's list with the key, and `Sought`, the first of them |
| the others of `CHashMap` | under their own names |

`KeyStacks` counts what is stored by its places: `Stored` has a pair for each data in a stack, `InUse`
one for each chunk of each, and `Fits` bounds their numbers.

### `Pack`, `DataPlatform`, `DpClient`: the packets

`Pack` has the packers into strings and into buffers, the unpacker, the header and its check,
cookies and encryption; `DataPlatform` the request and response classes; `DpClient` a client
whose requests go through relays, which set, replace and take off cookies, write reserve
values and encrypt, to a server and back the same way. Numbers are words in base `Radix`;
what a cipher does is kept as a change it can undo, with its lengths. The sets `SimpleRequests`,
`DpComboRequests` and `AppComboRequests` are the objects that constructors and setters can make.
Relays encrypt and decrypt only while a packet has no cookie, since the cipher runs over it too.

`MCLibraries` puts the instances of the map and of the packets side by side: a behaviour is one
of one of them.

## Runs

| Run | Instance | Result |
|---|---|---|
| `shm_ring` | 2 producers, 2 consumers, both roles locked; block of 7 bytes, header of 2; messages of 3 to 5 bytes with and without extension data, one of them longer than `MAX_BLOB_DATA_LEN` | `TypeOK`, `AssertionHolds`, `PendingIntact`, `EmptyMeansEmpty`, `PendingUntouched`, `ImplementsFifo` hold |
| `shm_ring_close` | the ring from a worker to the proxy, with close requests | `AssertionHolds` is violated |
| `shm_restart` | proxy and one worker, two crashes | `AssertionHolds`, `OnlyWholeMessages`, `RestartKeepsFifo`, `HeadMoves` hold |
| `procmon` | 3 pids, group of 1, queue of 1, two crashes, one restart of the controller | `CountsMembers`, `SparesLive`, `Recovers`, `GhostsGo` hold |
| `sock_accept` | 3 clients, 2 slots, 3 descriptors, one unit from each client and one answer | `AnswersOwn`, `InputOwn`, `NoInputStranded`, `DescriptorsOwned`, `GoneOnce` hold |
| `sock_mixed` | a TCP client, a UDP client and a backend, 1 slot, 1 descriptor, two units of output | `AnswersOwn`, `NoInputStranded`, `NoOutputStranded`, `DescriptorsOwned` hold |
| `sock_late_failure` | 3 slots; a registration with epoll may fail | `AnswersOwn` is violated |
| `server` | 3 clients on 2 connections, 2 requests, one group of two workers, rings of two messages with a message timeout, one restart of the proxy | `EveryRequestOnce`, `AnswersReturn`, `DisconnectLast` hold |
| `libraries` | packets: every request class, two requests one after the other, buffers around their lengths, cookies of 0 and 3 bytes, answers whole, cut, with unknown parts and glued; map: 2 processes, 3 keys in 2 buckets, 3 nodes, 2 chunks of 2 bytes | `BufferAsString`, `TransitIntact`, `AnswerUnderstood`, `FindsItsWay`, `VisitsAll`, `NothingLost`, `ActsAsStacks` hold |
| `codec_buffer` | the packets of `libraries` | `BufferHolds` is violated |
| `shm_hash_insert` | the map of `libraries` | `OneDataPerKey` is violated |
| `periphery` | two service types with three nodes; two caches; five programs; two tables of two versions; the report program and the controller, each with up to two faults | `OneConnPerNode`, `SentAsGiven`, `CacheKeepsData`, `PoolBounded`, `SignalHeeded`, `VersionFollows`, `ReportsResume` hold |

Bounds. A block of 7 with messages of 3, 4 and 5 bytes brings head and tail to every position,
makes messages wrap in header, data and extension data, and fills the ring to the last byte it may
use; one or two messages fit at a time. In `procmon` three pids give a live member, a ghost and a
process not heard of at the same time, and a queue of one loses reports; a group
whose minimum is its maximum is shrunk to the very last process it must keep. Deadlock is checked for
the rings; the controller may quit, so it is not for `ProcMon`. `shm_ring` uses the symmetry of
processes of one role; it has no liveness property. With three clients on two slots a slot and a
descriptor are reused while an event of the connection before is still in the batch, and while
user code still knows its flow; a third descriptor lets a client be accepted that finds no slot.
One slot and one descriptor make every new connection meet a full pool or a full descriptor table,
and two units of output give partial sends behind a cached unit. `FlowMod` stands for 2^32: the
runs stay below it. `MaxFlow` stops the loop in which a refused datagram uses up a flow at every
poll. The clients of `sock_accept` are symmetric, and no liveness is checked of them: what must go
on is stated as `NoInputStranded` and `NoOutputStranded`, that an event will come. `SockCommu`
never deadlocks, since `poll` returns without an event.

In `server` a ring of two is full with two requests, or an event and a request, under way; the
third client gets the slot, but not the flow, of one that left, while the workers still owe an
answer; two lives of the proxy give its second one flows that the workers know from the first.
`NGroup` is 1: groups share nothing but the proxy, which chooses a group freely. In the map of
`libraries` two keys share a bucket, so that a node has neighbours in its bucket and in the list
of added nodes; three nodes and two chunks let the one, the other or neither run out, and a data
of three bytes needs both chunks. Of its packets the buffers are one byte shorter, one longer and
just as long, or shorter than a header; an answer is cut by one byte, a part of one also within
its header; `Radix` 8 makes a cookie reach the largest length a word can hold. In `periphery` type
1 has a node given twice in its file, and one that cannot be reached; two slots of the connector
meet three nodes; a pool of 12 units is exhausted by two caches; `FlowBound` and `MaxFault` bound
flows and faults. These instances, and those of `codec_buffer` and `shm_hash_insert`, end when
their bounds are used up, so deadlock is not checked there.

Fairness. For `HeadMoves` a consumer inside a call goes on, some consumer polls again, and
a worker that is down is started. For `Recovers` and `GhostsGo` the controller's loop goes
on, a process told to quit gets to the end of its loop, and among infinitely many sleeps
the check interval passes and the timestamp of a dead process becomes old. Nothing is
assumed of running processes: the user's code may keep one silent for ever. For `SignalHeeded`
the loop goes on, since user code and polls return. For `VersionFollows` and `ReportsResume` the
program's loop goes on, its interval passes, and the server, which is outside, works again and
answers in the end; for reports the controller goes on to write with every heartbeat, and a
server that is sent reports again and again takes one (strong fairness, because each may be lost
with its connection).

### What the violations show

* `shm_ring_close`. A worker closes a connection by a message without data
  (`defaultworker.cpp:834`). When its header ends at the last byte of the block, `enqueue`
  leaves the tail at `blocksize_`, while `dequeue_i` wraps `data_pos` to 0 and stores head 0.
  The empty ring then looks full of old bytes, and the assertion at `shmcommu.cpp:303`
  fails. A message that carries a byte cannot do this: that is proved.
* `codec_buffer`. `data_platform_protocol.h:669` says that `buf_len` is the size of the buffer and
  that `MakeReq` returns 0 or less on error, `protocol_pack.h:568` the same of a buffer that is too
  short. `FixedPacker` looks for room for every piece of the body, and not for the end mark, which
  `GetPack` writes behind a body that fills the buffer (`protocol_pack.cpp:511`).
* `shm_hash_insert`. `Insert` is documented to fail when the key exists (`ShmHashMap.hpp:230`,
  `HashMap.hpp:98`, and an error code nothing uses); it does not look, and the key has two data.
* `sock_late_failure`. When `epoll_ctl` fails for a new connection the descriptor is closed
  and the slot stays. Its expiry closes the number again, by then another client's; that
  client's slot then names a descriptor which the next one gets, with its answers.

### Stated exceptions and other disagreements

What follows was met while modelling. The models contain it; where a property would be false
because of it, the property names it as an exception.

* Rings. `pthread_mutex_init` runs in the `init` of every worker, also while another one holds
  the mutex (`shmcommu.cpp:596`): after a restart two consumers may move the head at once. The
  crash run is for a group of one, which has no lock. A message longer than
  `MAX_BLOB_DATA_LEN` is accepted and never removed (`:307`; exception of `HeadMoves`).
* Connections. `handle_accept` skips flow 0, the probe of `addconn` does not (`connset.cpp:47`
  says an overflow does not matter): a connection stored under flow 0 looks like a free slot.
  `CB_CONNECTED` hears of a flow that `addconn` may replace (`sockcommu.cpp:288`). `sendto`
  closes a connection without the disconnect callback (`:1044`). Nothing catches the
  exception of `append` for a datagram (`:371`).
* Proxy. `defaultproxy.cpp:702` says of a request that met a full ring that its data stays in
  memory; it has been counted as processed and is dropped (`RecvFull`). `unkept` has these
  requests, and `EveryRequestOnce` excepts them: it shows that nothing else is lost. Requests
  behind one stay in the cache until more data arrives. Events and close requests are dropped when a
  ring is full. After a restart of the proxy flows start again at 1 while the rings and the
  workers keep those of its predecessor: the exception of `AnswersReturn`.
* Workers. `ctor_disconn` removes a connection from `CCommuMng` before it looks up its server
  type there (`defaultworker.cpp:1108`, `1116`), so that the user's `EVENT_DISCONNECT` function
  never runs. `spp_sendto` returns 0 though nothing was sent when its first connection attempt
  fails (`:206`). UDP and Unix nodes cannot be reached: no address is kept for the first, and
  the second is connected with an Internet address; `closeconn` leaves the descriptors of UDP
  connections open.
* Monitor. `check_group` counts processes that have reported (`procmon.cpp:506`); one that is
  slow to start is started again, past `maxprocnum_`. `do_recv` writes the connection count of
  every heartbeat into the load table, also that of workers, which is 0 (`:343`), so that the
  number reported alternates between the proxy's and 0. On quit a process that was forked
  and has not reported survives (`defaultctrl.cpp:183`), as does the report program.
* Signals. A handler that runs between the load and the store of another bit's clearing loses
  its signal (`serverbase.cpp:282`); `SignalHeeded` is about bits set when a round begins.
* Tools. A first connection that fails makes every later `Reconnect` succeed without a peer
  (`base_socket.h:656`, `base_socket.cpp:427`), until a restart; a timeout in the middle of a
  packet leaves the rest of it to be read as a header (`base_socket.cpp:882`). Both are
  exceptions of `VersionFollows`, the first also of `ReportsResume`. The update client notes a
  version before it writes the file, and never writes it again when that fails
  (`default_update_client.cpp:485`); it reads files under the type as `%x` and writes them as
  `%08x` (`:356`). Two processes that start together may each allocate a block for the
  same item of the load table (`loadtable.cpp:141`): the other exception of `ReportsResume`.
* Hash map. What `Insert` does to a key that exists (`shm_hash_insert`) is the exception
  `InsertAgain` of `ActsAsStacks`. A process that opens an existing map passes on an
  uninitialised `init` and may empty it.
* Packets. A packet one byte longer than its buffer (`codec_buffer`) is the exception of
  `BufferAsString`. `UnPackBinary` adds in 32 bits: a length near 2^32 in a packet passes its
  check (`protocol_pack.cpp:779`); no packet of the runs has one. `AppComboRsp` reads no cookie,
  and response objects are not emptied before they are used again: `FindsItsWay` and
  `AnswerUnderstood` say of which objects they speak.

## Proofs

`ShmMQProofs` proves, for any number of processes, any block and header size and any set
of messages that carry at least one byte (`NonEmpty`; without it the theorems are false,
as `shm_ring_close` shows):

* `TypeCorrect`, `AssertionSafe`, `PendingSafe`, `EmptySafe`: the invariants of `shm_ring`;
* `UntouchedSafe`: the action property;
* `Refinement`: `ShmMQ` implements `ShmFifo`.

The assumptions are those of `ShmMQ`: a positive header size smaller than the block, and
`RoleAssumption`, by which a role that several processes share is locked. The inductive
invariant `IInv` says that only one process of a role is inside a call (`Exclusion`), that
the pending messages lie end to end from head to tail and never fill the ring (`Chain`),
that their bytes are there (`PendingIntact`), and what each process relies on at its place
in the code (`ProducerAt`, `ConsumerAt`). `PendingIntact` alone is not inductive: that a
copy leaves the pending messages alone follows from the room checked earlier, which no
consumer can take away. The arithmetic of the wrap is in a few lemmas (`TailAdvance`,
`HeadAdvance`, `OffsetShift`, `HeadFollowsTail`). The last of them is where a message
without data fails.

`ProcMonProofs` proves `CountCorrect` (`CountsMembers`) and `LiveSpared` (`SparesLive`) for
every process table and group size. `CountsMembers` needs that `do_check` only visits
members (`todo \subseteq members`), since `del_proc` counts down whether or not it has
found the process.

`ShmMQRestartProofs` proves `AssertionSafe`, `RestartSafe` (`OnlyWholeMessages`) and
`RestartRefines` (`RestartKeepsFifo`) for any number of crashes and starts between any two
accesses. The invariant `RInv` is that of the ring without crashes, with a process that is down
taken for an idle one: a crash then is a step in which a process forgets what it was doing, which
the lemmas `FreeStep`, `ForgetStep` and `StepOfFifo` of `ShmMQProofs` cover, and `Start` only
frees a lock that nobody else can hold. The hypotheses are `NonEmptyMsg`, as above, and `OneEach`,
one process on each side. The second cannot be dropped: with two consumers, one crash and one
start TLC finds a message that is delivered twice, because the new worker initialises the mutex
the other one holds (`shmcommu.cpp:596`).

`ServerProofs` proves, for any number of clients, connections, groups, workers and restarts
and rings of any length, `TypeCorrect` and

* `AnswersAlwaysReturn`. A flow is given to one client only, in one life of the proxy, and every
  request, event and response carries it. `OwnInv` says that for each place in which it can be:
  the rings, what workers owe, the caches, the clients' output.
* `DisconnectIsLast`. `EndInv`: what ends a connection, in a ring or seen by the workers, is
  of a connection that is over (`Over`), and behind it the ring has nothing of the
  same connection. Nothing is put for a connection that is over, since flows are not given twice.
* `RequestsAreInOnePlace` (`EveryRequestOnce`). `PlaceInv` says that no place has a request twice
  and that no two places have the same one, where what was given up, `lost` or `unkept`, is one
  place (`dropped`). It needs that clients number their requests, that only a client with
  a connection has data under way, and that the part of a cache already processed is not counted.

`SockCommuProofs` proves `TypeCorrect` and `DescriptorsAreOwned` for any number of peers, slots
and descriptors, and on top of it `InputIsOwn`, `GoneIsOnce`, `AnswersAreOwn`, `InputIsSeen`
(`NoInputStranded`) and `OutputIsSeen` (`NoOutputStranded`). The invariants:

* `Tables`: the slots, the descriptor table, the epoll registrations and the owner of each slot
  are the same relation seen from four sides, and a free slot has nothing left in it;
  `EventsOK`: no two events of a batch are of one flow, and an event whose flow is in the table
  is of that connection. `DescriptorsOwned` by itself does not survive a step that closes a
  descriptor and one that hands out its number again.
* `DataInv`: what was given to `sendto` for a peer is what the kernel took and, behind it,
  what waits in the cache (`Stream`); `AnswersOwn` speaks only of what was taken.
* `ByeOnce`: a flow that was announced as gone is in no slot and in no event.
* `InputSeen`, `OutputSeen`: what `NoInputStranded` and `NoOutputStranded` say between two
  polls, also while a batch is being worked off, when an event may be on its way instead.

All seven are under two stated conditions.
`~LateFailure`: no registration fails after `addconn` has taken the connection, without which
`AnswersOwn` is false (`sock_late_failure`). `[]NoWrap`: the flow counter stays below its
maximum. When it wraps, a connection stored under flow 0 looks like a free slot
(`connset.cpp:47`), and a flow that user code still knows may name another connection.

`PeripheryProofs` proves, for any route tables, bodies and sizes,

* `NodesHaveOneConn` (`OneConnPerNode`) and `BodiesArriveAsGiven` (`SentAsGiven`).
  `BackendInv` says how flows, connections, `CCommuMng` and the events under way fit
  together: flows grow and no two nodes share one, an event is of a connection whose flow no
  other has. Each function of the connector has a lemma (`Made`) on what it returns from tables
  that fit.
* `CachesKeepData` (`CacheKeepsData`) and `PoolStaysBounded` (`PoolBounded`). `CacheInv`: every
  block in use is of one cache, free blocks and blocks in use are of the heap and disjoint, the
  account is the sum of their sizes, and a cache lies within its block. That no two caches have
  the same block is what makes `memmove` and a new block harmless to the others.

`HashMapProofs` proves, for any number of processes, keys, buckets, nodes and chunks, any chunk
size and any data,

* `HashSound`, the inductive invariant `HashInv`. Its core is `Sound`: there are a free list, a
  list for each bucket, a list of added nodes, a free list of chunks, a chain of chunks and a data
  for each node, such that (`Shape`) the handlers in the segment link exactly these lists, forwards
  and, where the code does, backwards; each node is free or in the bucket of its key, and in the
  list of added nodes in the second case; each chunk is free or in one chain; the chain of a node
  is as long as its data need and holds them; and the counters count what they should. Beside it:
  one process at most holds the semaphore, and a visitor's node is a node in use.
* `ListsVisitAll` (`VisitsAll`) and `NothingIsLost` (`NothingLost`), which follow from `Sound`.
* `StacksImplemented` (`ActsAsStacks`): each step is one of `KeyStacks`, or none. `StackStep` says
  which, and `Fits` that there was room for it: the places of the stacks are the nodes in use, and
  their chunks are the chunks in chains, so that what the lists can hold is what the counters
  allow. An insertion is `Insert` or `InsertAgain`, as the key is there or not. The stack of a key
  is read off its nodes (`Nodes`), and a call of another key changes neither their order nor their
  chains.

`NothingLost` and `VisitsAll` are not inductive: they look at the lists from their heads only, and
a call that takes a node out of the middle relies on the links back, and on a node being in one
bucket, and its own. Each function of `CHashMap` and `CChunkAllocator` has a lemma on what it does
to the lists (`AddTake`, `AddPush`, ...), which its callers cite. `LEMMA SameSpec` takes the
theorems to the specification that the run checks, which has the stacks as a variable beside the map.

`DpClientProofs` proves, for any radix of at least 8, any requests, cookies, keys and reserve values,
any buffers and any answers,

* `TransitKeepsPackets` (`TransitIntact`). Its invariant, `ClientIInv`, says that the packet
  `Travels`: behind its body of fixed length it has the cookie last set, or none, with the offset and
  the total length that go with it (`Framed`), the body is the one it set out with, or what the key
  makes of it (`Carries`), and the fields that nobody writes are as they were. `TransitIntact` alone
  is not inductive: it reads a packet through its accessors, and says nothing of where the cookie
  is that the next `SetCookie` will replace, nor of the encryption byte that `Decrypt` goes by.
  That one function does not write into what another one relies on is one lemma on `Put`
  (`PutFrame`), which each setter cites with the places it writes to.
* `BuffersAsStrings` (`BufferAsString`). After each call the packer in the buffer has what the one in
  the string has, if all of it fits, and an error if not (`Fits`); an error is never taken back,
  although later and shorter calls may succeed. The theorem follows for packets the buffer holds
  and for those it lacks two bytes for; between them is the exception.

What the packets consist of is proved on the way: a number that is packed in w bytes is read back
(`HostNet`), every request class makes calls of bytes (`CallsAre`), and the body is these calls one
after the other (`FlattenIs`).

The assumptions on constants are the `ASSUME`s of the modules. Besides ranges of numbers:
values that stand for none are no record of the kind they are none of (`ProxyAssumption`,
`LoopAssumption`), a peer uses TCP or UDP, not both (`PeerAssumption`), every body is for a
service type that has a route (`BackendAssumption`, in which flows do not wrap), and
`CacheAssumption`: the heap does not run out, and data fit into the largest block.
The hash map needs at least one of nodes, buckets, chunks, bytes in a chunk and keys
(`HashAssumption`, `ChunkAssumption`), and data that are sequences of bytes (`DataAssumption`).
`PoolAssumption` lets block sizes be any positive numbers, `SizeAt` saying how
one follows from another: the provers have no exponentiation. For the same reason
`PowerAssumption` says what the powers of `Radix` are, up to the eighth. `ClientAssumption` and
`ServerAssumption`: requests are objects of the request classes, packets are no longer than what the
offset of a cookie, three bytes, can say (16 MB in the code), and cookies no longer than their
length, two bytes, can say (the string form of `SetCookie` refuses a longer one).

Only model-checked. The liveness properties (`HeadMoves`, `Recovers`, `GhostsGo`,
`SignalHeeded`, `VersionFollows`, `ReportsResume`), which the provers cannot do. And two
invariants of `DpClient`, `AnswerUnderstood` and `FindsItsWay`: parsing is a fold over the data with
the unpacker as its state, and what it computes for every packet would take an induction over
operators.

## Not modelled, and plan

Not modelled for good: the helpers of `libcomm` (log, configuration files, the vendored XML
reader, digests), the command-line tools `CleanTool`, `IpcKeyPrint` and `PrintVersion_Tool`,
`timer_mgr` (a demonstration service), the XML configuration, logging, `dlopen` of the user's
module, `CLoad` (`LOAD_CHECK_ENABLE` is defined by no makefile), the semaphore variant of the
ring's locks (`SLK_LINUX`, likewise), the part of `data_platform_protocol.cpp` under `#if 0`,
and `CTShmCommu::check_expire`, which no configuration enables.

Not modelled yet, or abstracted: `CTStat` (unlocked counters in a mapped file, on which no
decision depends); `fini` of `CTSockCommu` and the destructors; the reload of proxy and worker
configurations; the timers of user code; a process that dies inside a call of the hash map,
whose semaphore is then undone over half-changed lists; the start of the report and update
programs by the controller.

Next, in this order:

1. The theorems about `SockCommu` beyond the wrap of the flow counter: what still holds of
   connections that are older than the wrap.
2. An abstract specification of a connection's life that `SockCommu` implements, and liveness
   of what is cached.
3. `CTStat`; the death of a process inside a call of the hash map.
