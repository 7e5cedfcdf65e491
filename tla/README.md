# Verification of the Intro-to-OS projects

The repository holds four course projects in C. This directory holds TLA+
models of their concurrent parts, the TLC runs that check them on small
instances, and proofs checked by TLAPS. Paths below are relative to the
repository; `pr1`, `pr3` and `pr4` stand for `gios-spr-2018-pr1-master` and so on.

## 1. Inventory

| Component | State it keeps | Operations | Interacts with |
|---|---|---|---|
| Cache proxy: `pr3/cache/handle_with_cache.c`, `webproxy.c` | per handler: path, reply, offset; globals `msqid_cache_to_proxy`, `shm_fd`s; the segment `temp` | `handle_with_cache`, start, signal handler | gfserver library (called by it), simplecached (two System V queues, one POSIX segment) |
| File cache: `pr3/cache/simplecached.c` | per worker: request, `bytes_transferred`; two semaphores; two queue ids | `worker`, start, signal handler | proxy |
| Cache index: `pr3/cache/simplecache.c` | sorted table of (key, descriptor) | `simplecache_init`, `_get`, `_destroy` | simplecached |
| Proxy without cache: `pr3/server/handle_with_curl.c`, `handle_with_file.c` | per request: buffer, counters; libcurl's global state | one handler each | gfserver library, HTTP server, disk |
| gfserver library of pr3 (`gfserver.o`) | connections, threads | binary only | both proxies |
| RPC server: `pr4/rpc_mt/minifyjpeg_svc.c`, `steque.c`, `minifyjpeg.c`, `magickminify.c` | `workqueue` (front, back, N), `mylock`, thread_data per call | boss `minifyjpeg_prog_1`, `worker`, steque operations | ONC RPC (`svc_run`), RPC client, MagickCore |
| RPC client: `minify_via_rpc.c`, `minifyjpeg_main.c` | request queue, handle per thread, exit code | `worker_main`, `minify_via_rpc` | RPC server |
| RPC stubs: `minifyjpeg_clnt.c`, `minifyjpeg_xdr.c`; single-threaded server in `pr4/` | none | generated by rpcgen | |
| Getfile server: `pr1/gflib/gfserver.c` | listening socket, `gfcontext_t` per request | `gfserver_serve`, `gfs_sendheader`, `gfs_send`, `gfs_abort` | Getfile client, handler |
| Getfile client: `pr1/gflib/gfclient.c`, `gfclient_download.c` | `gfcrequest_t`: status, filelen, bytesreceived | `gfc_perform` and accessors | Getfile server |
| mtgf: `pr1/mtgf` | content table | a handler that returns `-ENOSYS` | prebuilt libraries |
| Transfer: `pr1/transfer`; echo: `pr1/echo` | counters and file position; a buffer | accept loop; send, receive | each other over TCP |

Hard behaviours, by component, and what makes the component correct:

* **Cache proxy and cache.** Up to 1024 handlers and 6200 workers share one
  segment, two bounded queues and two semaphores, and both sides block. A reply
  has no address, so order decides who gets it. The segment is released when
  the length is *queued*, not when it has been read. Descriptors are leaked,
  reads may fail with a semaphore held. Correct means: a client is told the
  truth about the path it asked for and sent that file and nothing else; no
  answer is lost or doubled; no wait is for ever; a copy is not torn.
* **RPC server.** The boss links requests without the workers' lock; the pool
  polls. Correct means: the queue is what was put in and not taken out; each
  request is served once and answered; no request takes down the process or a
  library another thread is in.
* **RPC client.** A timeout races with the answer; one handle is used again
  after a timeout. Correct means: an output file holds the reduction of its own
  input, and failure is reported.
* **Start, stop, restart of pr3/cache.** Two processes create and remove three
  kernel objects in any order, and a signal handler runs under live threads.
* **Getfile library.** TCP may cut the stream anywhere; the context is freed on
  some paths and used on others. Correct means: return code, status and bytes
  agree, and each context is freed once.
* **Transfer, echo.** The state of one connection must not reach the next.

* **Handlers of pr3/server.** The counters of the send loop meet transfers,
  reallocs, reads and sends that fail. Correct means: the header is true, success
  is the whole body, and libcurl's global state outlives its users.

`PROJECT.json` lists each hazard at its line with the property that covers it.

## 2. Modules

| Module | Models | Role |
|---|---|---|
| `FileService` | what gfserver.h and the Getfile protocol promise a client | abstract specification |
| `ProxyCache` | handle_with_cache.c and the worker of simplecached.c | detailed specification; implements `FileService` with one handler |
| `MCProxyCache` | | instances for TLC |
| `ProxyCacheProofs` | | theorems about `ProxyCache`: types, semaphores, copy, count of answers |
| `ProxyCacheSerial` | | the implementation of `FileService`, proved |
| `MinifyServer` | minifyjpeg_svc.c with steque.c at loads and stores | detailed specification |
| `MinifyRpc` | minify_via_rpc.c, minifyjpeg_main.c and the transports of minifyjpeg_svc.c | composition of client, connections and server |
| `CacheIndex` | simplecache.c | component of `CacheLifecycle` |
| `CacheLifecycle` | webproxy.c and simplecached.c as processes that come and go | composition over the kernel's queues and segment |
| `ProxyHandlers` | handle_with_curl.c and handle_with_file.c | detailed specification |
| `GetFile` | gfserver.c and gfclient.c with their programs | composition over TCP |
| `Tcp` | one port and its connections | external, shared by the next two |
| `Transfer`, `Echo` | the four programs of pr1/transfer and pr1/echo | components of `Sockets` |
| `Sockets` | all four on one host | composition |
| `ProxyHandlersProofs`, `MinifyServerProofs`, `MinifyRpcProofs`, `CacheLifecycleProofs`, `GetFileProofs`, `SocketsProofs` | | theorems about the module each is named after |
| `MCMinifyServer`, `MCMinifyRpc`, `MCCacheLifecycle`, `MCProxyHandlers`, `MCGetFile`, `MCSockets` | | instances for TLC |

### ProxyCache

State. `pc`, `want`, `status`, `hlen`, `body`, `ret` belong to the handlers
(where each is, its `path`, the header and bytes it sent, its return value);
`wpc`, `job`, `wrote` to the workers (`path_name`, `bytes_transferred`);
`reqQ` is the queue `msqid`, `respQ` the queue `msqid_cache_to_proxy`, `shm` the
segment, `cmdSem` and `respSem` the semaphores. Leaked descriptors are counted
on each side.

Granularity. A step is one call that another thread can observe or that can
block: `msgsnd`, `msgrcv`, `sem_wait`, `sem_post`, one turn of a copy loop, one
turn of the send loop. `shm_open`, `ftruncate` and `mmap` are one step
(`MapSegment`): only the `ftruncate` changes what others see. Local work (the
lookup, the formatting) belongs to the step before it.

Data. Files and the segment are measured in blocks, and a cell holds the *name
of the file its bytes are from*, so it can be seen whose bytes a client gets.
`Chunk` is BUFSIZE in blocks. The conversion of the length is modelled by what
it does: `%d` of an `(int)` on one side (`AsInt`), `atoi` into `size_t` on the
other (`AsSizeT`), with `IntMax` a constant.

Actions and code:

| Action | Code |
|---|---|
| `SendRequest` | handle_with_cache.c:42-64 |
| `ReceiveNotFound`, `ReceiveLength` | :79-111, the second with `shm_open` |
| `StreamChunk`, `StreamFail`, `StreamDone` | :114-132 |
| `LockCommand`, `ReceiveRequest`, `UnlockCommand` | simplecached.c:102-121 |
| `SendNotFound` | :121-133 |
| `LockResponse`, `MapSegment`, `MapFailed` | :176-188 |
| `CopyChunk`, `ReadError` | :189-199 |
| `SendLength`, `UnlockResponse` | :201-211 |
| `Accept`, `Return` | gfserver.o, external: it calls the handler and closes after it |

`MapFailed` stands for what happens when the descriptor limit is reached:
`shm_open` and `mmap` fail unchecked, the first `memcpy` goes to `MAP_FAILED`
and the process dies, unless the file is empty.

### MinifyServer

State. `front`, `back`, `N` are the fields of `workqueue`. `boss`, `fresh`,
`seen`, `bossN` are the boss and what it has allocated and loaded; `wpc`,
`node`, `data`, `rest`, `workN` the same of each worker; `mylock` its holder.
`item` and `next` are the fields of a node, and `live` the nodes allocated.

Granularity. The Makefile compiles without optimisation, so each `this->field`
of steque.c is an access of its own, and each is a step: `N++` is `BossLoadN`
and `BossStoreN`, `this->back->next = node` is `LoadBack` and `Link`. A worker
does its steps under the lock and the boss does not ask for it. Only accesses
between which the boss can do nothing that matters are joined: the test of
`front` in `steque_pop` and the loads of `node` and `ans` (the boss never stores
NULL there), and the load of `front` with that of `front->next`. The store to
`front` is a step of its own (`MoveFront`).

Memory. A node is a piece of the heap: `FreeNode` gives it back and `Receive`
may be given the same one, so a stale pointer may point to another request's
node. The lowest untouched node stands for all untouched ones. A store through
NULL faults; one into a freed node is caught by the address sanitizer of the
default build or goes unnoticed, and the model allows both.

`Arrives` gives the server a request while fewer than `Outstanding` are
unanswered: each client thread waits for its answer. `RejectCall` is
`svc_getargs` failing.

### CacheIndex and CacheLifecycle

`CacheIndex`: a key is a number, a table a sequence of keys; `lo`, `hi` and
`Mid` are the code's. `LoadLine` is one turn of the loop of `simplecache_init`
with its doubling, `Narrow` one turn of `simplecache_get`.

`CacheLifecycle`: the kernel keeps `key` (the queue id of each key), `queue`
(what each id holds), `segment` (the size of `temp`, -1 without it) and `shm`
(the file in it). Ids are never given twice and the first is 0, which is also
what the cache's globals hold before they are set. `msqidP`, `msqidCP` are the
proxy's globals, `msqid`, `msqidC` the cache's.

| Action | Code |
|---|---|
| `ProxyStart`, `ProxyQueue`, `ProxySignal` | webproxy.c:146-184, :186-226, :51-56 |
| `GetQueue`, `SendRequest`, `FindQueue`, `Receive`, `Stream` | handle_with_cache.c:41-132 |
| `QueueGone` | `msgsnd`, `msgrcv` of a removed queue, :61-64 and :79-84 |
| `CacheStart`, `CacheLoad`, `CacheSort`, `CacheLoadFails` | simplecached.c:217-262, simplecache.c:37-76 |
| `CacheFind`, `CacheCreate` | simplecached.c:266-310 |
| `CacheSignal`, `RemoveQueue` (twice), `Unlink` | the signal handler, :41-60, in three steps beside the threads |
| `WaitTurn`, `ReceiveRequest`, `SearchOn`, `SearchEnds`, `SendReply` | :99-134, :207-211 |
| `StatFails`, `RemoveReplies` | :139-157 |
| `LockSegment`, `MapSegment`, `CopyFile`, `ReadFails`, `Killed` | :176-199 |
| `WorkerExits` | `exit` of a worker whose queue was removed |

A file is copied and streamed in one step: `ProxyCache` has the chunks.
`orphan` records that a request has outlived its handler, in one of two ways: a
proxy was stopped with a request under way, or the handler's answer queue went
while its request stayed in the request queue.

### MinifyRpc

`up` and `down` are the two directions of each client thread's connection,
`calls` its last transaction id, `xid` the one the server's transport holds:
svctcp keeps the id of the *last call received* and answers with it, whichever
call a worker answers. `queue`, `req`, `code`, `result` are minifyjpeg_main's;
an image is the name of its input file, so `output[f]` says whose reduction is
in f's output file. `Timeout` may fire whenever a thread waits. The server's
queue is taken and put in one step; `MinifyServer` has it at loads and stores.

### ProxyHandlers

`buffer` and `size` are the curl handler's `output`, `moved` its
`bytes_transferred` (below 0 is the `size_t` past every length), `cl` its loop
bound, any value where the code has not assigned it. `WriteMemory` is the
callback with the `realloc` that may fail, `Performed` and `PerformFails` what
`curl_easy_perform` returns, `SendBuffer` and `SendFails` a turn of the loop.
`inits` counts `curl_global_init`, as libcurl does. The file handler is
`OpenFile`, `StatFails`, `ReadChunk`, `ReadFails`, `ReadDone`.

### GetFile

A request is two pieces, what is up to the directory and the name; a response is
three header cells and a cell per block. `Receives(n)` is the server's one
`recv` of n pieces into a buffer that keeps what it held before, `FirstRecv(c,
n)` the client's of n cells. `DieOfRequest`, `RefuseRequest` and `HandleRequest`
are the outcomes on gfserver.c:266-326; `ParseInvalid`, `ParseTorn`,
`ParseShort`, `ParseLong` those on gfclient.c:199-243. `SendFails` is gfs_send
after the client has gone: SIGPIPE, or the context freed, used and freed again.
`leaked` counts connections answered and never closed. The handler is a binary
(handler.o): `Response` is what it sends.

### Tcp, Transfer, Echo, Sockets

A client process makes one connection, so it names it. `Tcp` has the port, the
accept queue, bytes in flight and the ends that are closed. `Transfer` keeps the
server's counters and file position across connections, as the code does;
`FirstSend` is the unchecked send of transferserver.c:224-231, `NextSend` a turn
of the loop, `ReadClosed` the same on the file that the connection before closed.
`Echo` starts with a buffer that holds either zeros or stack contents.
`Sockets` runs both servers on the port they both default to: one binds, the
other retries.

## 3. Runs

| Run | Bounds | Question | Result |
|---|---|---|---|
| `cache_serial` | 1 handler, 2 workers, 4 paths (empty, one block, three blocks, absent), queues of 1, 2 descriptors, 3 requests, 1 read error | Is what the client sees a behaviour of `FileService`? | holds |
| `cache_shared` | 2 handlers, 2 workers, 3 paths, queues of 1, 3 requests, 1 read error | Is an answer lost or doubled, a copy torn, a wait for ever? | all hold |
| `cache_cross_talk` | 2 handlers, 2 files | Does each client get the bytes of its own path? | violated |
| `minify_one_client` | 2 workers, 4 calls, one at a time | Is the steque intact, does nothing stop the server, is each call answered? | all hold |
| `minify_two_clients` | 2 workers, 4 calls, two at a time | Is a request served twice, or a dead node read or freed by a worker? | never |
| `minify_race` | 2 workers, 3 calls, two at a time | Is each call answered? | violated |
| `minify_cleanup` | 2 workers, one call at a time | Is MagickCore torn down only when no one is in it? | violated |
| `cache_lifecycle` | 1 handler, 1 worker, 3 paths, 3 lists, 2 starts of each process, 2 requests, 1 error | Is an answer doubled, shifted or lost over restarts; does the search stay in range? | all hold |
| `minify_rpc` | 2 client threads, 3 images, 2 workers | Is an image written to another's file, a freed transport answered, a failure hidden? | only behind a timeout |
| `proxy_handlers` | 2 curl threads, 1 file thread, 3 paths, 3 requests, 2 faults, 1 descriptor | Are header, body and return value true when things fail? | all hold |
| `getfile` | 2 clients, 3 requests, 5 names, window of 4 cells | Is a kept download whole; who can stop the server? | all hold |
| `sockets` | 2 transfer clients, 1 echo client | Does a byte go to two clients; does every client end? | all hold |

What the passing properties say:

* `FileServiceSpec` (cache): header true of the path; body a prefix of that
  file; success only of the whole file; a refusal carries no body. It covers the
  overshooting `pread`, the leak at both sides and every `return -1`.
* `OneAnswerPerRequest`: the handlers in `msgrcv` are exactly as many as
  requests queued, in work, and answers queued, read errors apart. That is why
  two handlers can swap answers and still both return.
* `WholeUntilAnswered`: one worker in the segment, its copied prefix in place.
* `EveryRequestReturns`: `msgsnd` blocks with `response_mutex` held, handlers
  block in the other direction, and still each request returns, unless a worker
  left with the semaphore or the cache was killed.
* `QueueIntact`, `QueueNeverKills`, `EveryCallAnswered`: with one request at a
  time the boss and the workers do overlap (the worker polls while the boss is
  between two stores), and the order of the stores, N last, is what saves it.
* `ServedOnce`, `PopsLiveNodes`: with the race, requests are lost but never
  duplicated, although nodes are reused, and only the boss can touch a dead one.
* `NoSecondAnswer`, `AnswerIsOwn`: starting, stopping and killing either process
  at any point leaves no request that is answered twice or to the wrong handler,
  but for the two ways in which a request outlives its handler (`orphan`).
* `SearchInRange`: the comment in `simplecache_get`, "Key is in items[lo..hi] or
  not present", at every turn of every search of every table loaded.
* `KilledAfterRestart`: the spins on `msgget` order the first start so that the
  cache finds the segment, long enough; only a second start of one process
  under the other takes that away.
* `EveryRequestEnds`: a request ends although the cache may come and go, unless
  no cache runs, the request went with a queue, or a thread returned on an error.
* `OutputIsOwn`, `TransportOutlivesCall`, `OneAnswerPerCall`: connection per
  thread, transaction ids and joins before `clnt_destroy` keep calls apart, as
  long as none of them on that connection timed out. `SuccessIsOfAll` and
  `EveryRunEnds` are about the exit code and the joins.
* `HeaderIsTrue`, `BodyIsOwn`, `SuccessIsAnswered`, `GlobalStateHeld`,
  `EveryRequestReturns` (handlers): what a client of either handler is told and
  sent when opens, reads, transfers, reallocs and sends fail.
* `KeptIsWhole`: what gfclient_download keeps is the whole file, whatever was cut
  behind the header, unless its length has too many digits. `InvalidHasCause`:
  bytes of an earlier request never spoil a whole one. `DiesOfItsClientOnly`,
  `EveryPerformReturns`: what stops or holds the server, and nothing else.
* `FileGoesOnce`, `FirstHasTheFile`, `EchoIsOwn`, `DiesOfAClientOnly`,
  `EveryClientEnds`: the counters that outlive a connection harm the clients
  behind the first and no one else; an echo is never another client's message.

What the violated ones say: see `findings` in `PROJECT.json`. In
`cache_cross_talk`, h1 asks for *short*, h2 for *long*, h1 takes h2's answer. In
`minify_race`, the boss links a request to the node a worker has just read the
successor of: `front` becomes NULL, the request is never reached, `N` counts it
all the same, and the next worker stops the server on the underflow. In
`minify_cleanup`, the client that was answered calls again before the worker
that answered it reaches `magickminify_cleanup`.

Bounds and why they are enough. `QueueCap` 1 makes every `msgsnd` block at
times. `Chunk` 2 with files of 0, 1, 2 < 3 blocks gives the empty file, one read
that overshoots, a full read and a short one. Two of each thread are enough for
every pair of steps to interleave, and 3 requests for the segment to hold the
leftovers of another file. `FdLimit` 2 with 3 requests reaches the limit on
each side. In `MinifyServer`, `MaxCalls` 4 passes the queue through empty at
least three times. `SegCells` is the size of the segment before any request.
`IntMax` 3 stands for INT_MAX and no file of the runs is longer: `AsInt` says
what a longer one becomes, and `SerialImplements` excludes it.

In `CacheLifecycle`, two starts of each process give every order of stop and
restart of one under the other; lists of no, one and two keys out of order, with
`FirstCapacity` 1, make the table grow and the search go both ways and miss on
both sides; files of 0, 1, 2 cells and a segment of one cell first give the
empty, the fitting and the too long file. In `MinifyRpc`, three images on two
threads let one thread make a second call after a timeout. In `ProxyHandlers`
the page has three chunks, so that a realloc may fail and the next succeed with
bytes counted before it, and two faults may hit one request; one descriptor is
the limit after one file. In `GetFile`, a buffer of four cells gives a file that
fits behind its header, one that only just does not, and one that takes the
loop; `FdLimit` 2 of 3 requests reaches the limit. In `Sockets`, a file of more
cells than two sends, clients whose recv cuts otherwise than the server's send,
and three clients who each may get the port's other server.

`CHECK_DEADLOCK FALSE`: requests are bounded, and the programs block when there
are none left; in the cache, also after a read error or a kill. The servers of pr1
may also die, and their clients are bounded.

Fairness. `WF` of each thread's steps together: the kernel schedules a runnable
thread, and a System V queue or a semaphore that stays available to a thread is
given to it. Nothing is assumed of clients (`Accept`, `Arrives`), of read errors
or of undecodable calls. Weak fairness is what the mutex and the semaphores
justify. In the later modules likewise: each process, thread, handler or worker
that can run does; nobody has to start, stop, ask or leave. In `MinifyRpc` only
the client's threads are fair, and 5 s pass; the server may do nothing. In
`Sockets` each server is fair by itself. Strong fairness, that one of several competing threads wins
infinitely often, is not assumed and not needed: whoever wins does the work.

## 4. Proofs

Every safety invariant of the passing runs is a theorem, checked by TLAPS for
every value of the constants: any number of processes, threads, clients,
requests, files and sizes, any queue, buffer and descriptor bound. So is the
one refinement. What each rests on:

**Assumptions.** The `ASSUME` of each module, which TLC evaluates in its runs.
Most of it says that constants are of their type. The rest:

* sets of handlers, threads and workers are finite where they are counted
  (`IsFiniteSet`); the code makes them in a loop;
* `None` and the names of files, clients and programs are different things; in
  `ProxyHandlers` a NULL pointer is no buffer, in `MinifyRpc` no work item, in
  `CacheLifecycle` no queue id;
* in `MinifyRpc` no input file is named twice (`IsInjective(Workload)`): two
  calls for one name write one output file.

**Hypotheses.** Three properties hold only of one client at a time, and the
theorem says so; each is false without its hypothesis, and a violated run shows it:

* `SerialImplements` and `AnswersAreOwn`: one handler thread (`Alone`), since
  a reply has no address (`cache_cross_talk`). The first also needs that no
  file is past INT_MAX, since the header holds what `AsInt` leaves of it;
* `TypeCorrect`, `NothingKillsTheServer`, `QueueStaysIntact` of `MinifyServer`:
  `Outstanding = 1`, since two enqueues may meet a worker's dequeue
  (`minify_race`), and `N` then goes below 0.

**Inductive invariants.** Each proof module begins with its own, as named parts;
TLC checked it on the run's instance before it was proved. None of the
properties is inductive alone; what they needed:

| Module | Theorems (properties) | What the invariant adds, and why |
|---|---|---|
| `ProxyCacheProofs` | `TypeCorrect`, `CopyIsWhole` (`WholeUntilAnswered`), `AnswersAreCounted` (`OneAnswerPerRequest`) | a `sem_post` adds one, so one must know that the poster took it: `CommandLock`, `SegmentLock` (the semaphore is 0 exactly when a worker is between its calls, and no two are), `Assigned`, `CopyInPlace` (nobody else is in `map` or `copy`). The count is an invariant of cardinalities over these |
| `ProxyCacheSerial` | `SerialImplements` (`FileServiceSpec`) | at most one message or job is in flight, and where (`InFlight`); the segment holds the file of the handler that streams (`Progress`) |
| `ProxyHandlersProofs` | `TypeCorrect`, `HeadersAreTrue`, `BodiesAreOwn`, `SuccessesAreAnswered`, `GlobalStateIsHeld` | per thread: which variables of the handler are assigned at each place (`Placed`), what the client was told (`Told`), that the buffer is `output.size` cells of the page (`BufferFits`), that what was sent is the counted part of it (`Sent`) |
| `MinifyServerProofs` | `RequestsAreServedOnce` (`ServedOnce`), `LiveNodesArePopped` (`PopsLiveNodes`) | true with the race. `Heap`: the links of live nodes go to live nodes or to NULL and no two to the same one, nothing reaches the node being made, and what a worker loaded under the lock is still there at its store, although the boss stores between; `Emptied`: a node's request is taken before it is freed; `Mutex` |
| | `TypeCorrect`, `NothingKillsTheServer`, `QueueStaysIntact` | with one request, `OneAtATime`: the five places it can be (settled, being linked, queued, being taken by one worker, with one worker) fix `front`, `back`, `N` and the node; `Loaded`: what each has loaded is still true when it stores |
| `MinifyRpcProofs` | `TypeCorrect`, `OutputsAreOwn`, `TransportsOutliveCalls`, `CallsAreAnsweredOnce`, `SuccessesAreOfAll` | per connection: a reply is to a call of its thread, not of a later one, unless one timed out (`Answered`, `Fresh`), the calls under way are counted (`Counted`), a freed transport's socket is closed (`FreedIsClosed`); a file is taken once, by its owner (`Taken`); what the exit codes say (`Coded`) |
| `CacheLifecycleProofs` | `TypeCorrect`, `SearchesInRange`, `NothingAnsweredTwice`, `DiesOfRestartOnly` | which queue ids were given and to whom (`Given`), where each thread may be while its process is (`HandlersPlaced`, `WorkersPlaced`), that the table is whole and sorted while it is searched (`Loaded`), that whoever waits found its queue (`Brought`) |
| | `AnswersAreOwn` (`AnswerIsOwn`) | with one handler: the one message, job or reply on the way is of its path, true, and its file in the segment (`Own`) |
| `GetFileProofs` | `TypeCorrect`, `KeptFilesAreWhole` (`KeptIsWhole`), `InvalidsHaveCauses` (`InvalidHasCause`), `DiesOfItsClient` (`DiesOfItsClientOnly`) | a connection is untouched before its client gets to it (`Unused`), waits once (`InLine`) and carries nothing but its request till it is answered (`Unanswered`); then what is sent, in flight, and read are, in this order, one response (`Sending`, `Told`, `Got`). `Asked` are the paths the server may have read as the request, from a buffer with older bytes |
| `SocketsProofs` | `TypeCorrect`, `FileGoesToOne`, `FirstGetsTheFile`, `EchoesAreOwn`, `DiesOfItsClientOnly` | whose cells are on each connection, by the server that serves it (`Cells`, `Echoes`), that `sent`, `left` and the file position count the same cells (`Counted`), and that no client behind the first is sent one while the first has a part (`FirstGets`, `Untold`) |

Two definitions were changed so that they could be reasoned about, without a
change of what they mean: the nodes that the steque reaches are those in every
set that holds `front` and is closed under `next` (`Linked`), and the announced
length of a file is the longest beginning of its digits that has room
(`Announced`).

**Only model-checked**: liveness (`EveryRequestReturns`, `EveryCallAnswered`,
`EveryPerformReturns`, `EveryClientEnds`, `EveryRequestEnds`, `EveryRunEnds`),
since neither weak fairness over `ENABLED` nor induction over data is within
reach of the installed provers.

## 5. What the models brought to light

Besides the `findings` of `PROJECT.json`, the models follow the code where it
does what nobody wanted; the properties name these cases and exclude nothing else.

* pr3/cache: a file past INT_MAX is announced with a wrapped length, or as
  missing where the int reads -1 (simplecached.c:165, handle_with_cache.c:93).
* pr3/cache: between the removal of the two queues a handler makes the request
  queue again (handle_with_cache.c:47) and leaves a request in it; from the next
  cache on every handler takes the answer to the one before.
* pr3/cache: a cache started again under the same proxy writes to a mapping that
  failed, since it unlinked the segment that only webproxy.c:158 makes.
* pr3/cache: a signal before simplecached.c:278 removes the queue with id 0.
* pr3/server: a transfer that fails with `cl` not above 0 returns success with
  no header sent (handle_with_curl.c:118, gfserver.h:88-92); a `realloc` that
  fails leaves the send loop with a buffer of the wrong bytes, or of none, for
  ever; a path with no Content-Length is answered "not found" and leaks the
  handle, the buffer and a `curl_global_init`. The handler does not set
  CURLOPT_FAILONERROR, so an error page with a length goes out as GF_OK.
* pr3/server: handle_with_file leaks a descriptor per file.
* pr4: an answer that comes after the timeout is taken for the answer to the next
  call on that handle and written to its file (minify_via_rpc.c:19); a failed
  call is hidden by a later one of the same thread (minifyjpeg_main.c:111); what
  `write_to_file` returns is dropped (:114).
* gflib: gfclient_download keeps an empty file for a missing path, since the
  status is set to GF_OK for any header with a length; a file within a header of
  BUFSIZE is never received (gfclient.c:229); `headerfunc` is called unset
  (:145-158); the length is cut to seven digits (gfserver.c:110); a request in
  pieces is completed from the one before it (:268); the connection of a request
  served is never closed (:321); the port is a pointer to a dead frame (:365).
* transfer: the second client gets what the first left over, then reads of a
  closed file and a second `fclose` (transferserver.c:259), where
  pr1/Readme.md says "your server should be capable of handling multiple connections".
* echo: a client that leaves without a message stops the server
  (echoserver.c:196), once the buffer has been cleared.

## 6. Not modelled, and why

Command-line parsing, logging, generated XDR code, pixels: outside what the
properties are about. `shm_channel` is a stub, the steques of pr3 are not
called. mtgf has no threads and its handler is a stub; the RPC programs outside
rpc_mt are the same client (but for an exit code that is not initialised when a
thread finds no work) and a server that runs one call at a time. `malloc`
failure is not modelled except where the code tests it (`realloc` in the curl
handler); a failing `ftok` is not (it fails only without /tmp). Calls to
`curl_global_init` that overlap inside libcurl, and two threads that write to
one svctcp transport at a time, are one step each. A `socket` that returns -1
makes the connect and bind loops spin like a refused address; only the latter
is in the models. `gfserver.o` and `handler.o` are binaries and external.

## 7. Plan

Done: the models of all components of section 1 that section 6 does not leave
out; the proofs of all safety invariants of the runs, and of the one refinement.
Left, in this order:

1. Action properties worth a run and a theorem: what a restart of the cache may
   not take away (`CacheLifecycle`), what a connection may not become (`GetFile`,
   `Sockets`).
2. An abstract specification of the RPC server, a bag of requests, that
   `MinifyServer` implements with one request outstanding, proved from `OneInv`.
3. Larger instances: two handlers in `CacheLifecycle`.
