------------------------------ MODULE ProxyCache ------------------------------
(***************************************************************************)
(* The proxy and the file cache of gios-spr-2018-pr3-master/cache, once    *)
(* both are up: the handler threads of webproxy (handle_with_cache.c) send *)
(* a path on one System V queue, the worker threads of simplecached copy   *)
(* the file into the ONE shared segment every handler was given (webproxy  *)
(* .c:214-219) and send its length on a second queue.  Start, stop and     *)
(* restart of the two processes are the subject of CacheLifecycle.         *)
(*                                                                         *)
(* A file is measured in blocks.  Block i of file f is the value f in cell *)
(* i of a sequence, so a cell tells whose bytes it holds; None is a zeroed *)
(* cell.  Messages keep only what their reader looks at.                   *)
(***************************************************************************)
EXTENDS Integers, Sequences, FiniteSets

CONSTANTS
    Proxies,        \* handler threads of the proxy
    Workers,        \* worker threads of the cache
    Paths,          \* paths a client may ask for
    Cached,         \* the paths simplecache_init loaded
    Size,           \* blocks of each cached file
    Chunk,          \* BUFSIZE, in blocks
    SegCells,       \* nsegments * segsize, in blocks
    QueueCap,       \* messages a queue holds before msgsnd blocks
    IntMax,         \* INT_MAX of the (int) cast
    FdLimit,        \* descriptors each process may still open
    MaxRequests,    \* bound: requests the server accepts
    MaxReadErrors,  \* bound: failed reads of a cached file
    None            \* no path; a zeroed cell

ASSUME ConstantsAssumption ==
    /\ IsFiniteSet(Proxies) /\ IsFiniteSet(Workers)
    /\ None \notin Paths
    /\ Cached \subseteq Paths
    /\ Size \in [Cached -> Nat]
    /\ Chunk \in Nat \ {0}
    /\ SegCells \in Nat
    /\ QueueCap \in Nat \ {0}
    /\ IntMax \in Nat
    /\ FdLimit \in Nat
    /\ MaxRequests \in Nat
    /\ MaxReadErrors \in Nat

VARIABLES
    pc,          \* where each handler is
    want,        \* the path it was called with
    status,      \* the status of the header it sent
    hlen,        \* the length in that header, also its loop bound file_len
    body,        \* the blocks it sent after the header
    ret,         \* how it returned
    reqQ,        \* the queue of msqid
    respQ,       \* the queue of msqid_cache_to_proxy
    wpc,         \* where each worker is
    job,         \* the path a worker took and has not answered
    wrote,       \* its bytes_transferred
    cmdSem,      \* command_mutex
    respSem,     \* response_mutex
    shm,         \* the segment "temp"
    proxyFds,    \* descriptors leaked by the proxy
    cacheFds,    \* descriptors leaked by the cache
    accepted,    \* requests accepted so far
    readErrors,  \* reads of cached files that failed so far
    alive        \* simplecached has not been killed by SIGSEGV

reply  == <<status, hlen, body, ret>>
client == <<pc, want, reply, proxyFds, accepted>>
server == <<wpc, job, wrote, cmdSem, respSem, cacheFds, readErrors, alive>>
vars   == <<client, server, reqQ, respQ, shm>>

(***************************************************************************)
(* Helpers.                                                                *)
(***************************************************************************)
IntSpan == 2 * (IntMax + 1)          \* values of an int
SizeTSpan == IntSpan * IntSpan       \* values of a size_t

\* (int) file_len: the low bits, read as a signed number.
AsInt(n) == IF n <= IntMax THEN n ELSE ((n + IntMax + 1) % IntSpan) - (IntMax + 1)

\* An int converted to size_t.
AsSizeT(n) == IF n < 0 THEN n + SizeTSpan ELSE n

\* ftruncate: cut, or extend with zeroes.
Truncate(seg, n) == [i \in 1..n |-> IF i <= Len(seg) THEN seg[i] ELSE None]

\* The next chunk of file f copied over seg from offset off.
Filled(seg, f, off) ==
    [i \in 1..Len(seg) |-> IF off < i /\ i <= off + Chunk /\ i <= Size[f] THEN f ELSE seg[i]]

\* Where a copy or a read of one chunk ends.
ChunkEnd(off, len) == IF off + Chunk <= len THEN off + Chunk ELSE len

\* The body after one pread of the segment at the handler's offset.
Extended(sent, seg) ==
    [i \in 1..ChunkEnd(Len(sent), Len(seg)) |-> IF i <= Len(sent) THEN sent[i] ELSE seg[i]]

\* msgrcv takes the message away; a peek (MSG_COPY) would not.
Peeked(q) == q
Received(q) == Tail(q)

\* msgsnd blocks while the queue is full.
HasRoom(q) == Len(q) < QueueCap

Found(n) == [found |-> TRUE, len |-> n]
NotFound == [found |-> FALSE, len |-> 0]

\* The two sides of the tests at handle_with_cache.c:88 and 95.
IsLength(m) == m.found /\ m.len # -1

ProxyPC  == {"idle", "send", "recv", "stream", "done"}
WorkerPC == {"lockCmd", "recv", "unlockCmd", "sendNotFound", "lockResp", "map",
             "copy", "unlockResp", "gone"}

Init ==
    /\ pc = [p \in Proxies |-> "idle"]
    /\ want = [p \in Proxies |-> None]
    /\ status = [p \in Proxies |-> "none"]
    /\ hlen = [p \in Proxies |-> 0]
    /\ body = [p \in Proxies |-> << >>]
    /\ ret = [p \in Proxies |-> "none"]
    /\ reqQ = << >>
    /\ respQ = << >>
    /\ wpc = [w \in Workers |-> "lockCmd"]
    /\ job = [w \in Workers |-> None]
    /\ wrote = [w \in Workers |-> 0]
    /\ cmdSem = 1
    /\ respSem = 1
    /\ shm = [i \in 1..SegCells |-> None]
    /\ proxyFds = 0
    /\ cacheFds = 0
    /\ accepted = 0
    /\ readErrors = 0
    /\ alive = TRUE

(***************************************************************************)
(* The proxy: handle_with_cache, called by a thread of the gfserver        *)
(* library for each request.                                               *)
(***************************************************************************)

\* The library accepts a request and calls the handler.
Accept(p) ==
    /\ pc[p] = "idle"
    /\ accepted < MaxRequests
    /\ \E f \in Paths : want' = [want EXCEPT ![p] = f]
    /\ accepted' = accepted + 1
    /\ pc' = [pc EXCEPT ![p] = "send"]
    /\ UNCHANGED <<reply, proxyFds, server, reqQ, respQ, shm>>

\* msgsnd of the path; it blocks while the queue is full.
SendRequest(p) ==
    /\ pc[p] = "send"
    /\ HasRoom(reqQ)
    /\ reqQ' = Append(reqQ, want[p])
    /\ pc' = [pc EXCEPT ![p] = "recv"]
    /\ UNCHANGED <<want, reply, proxyFds, accepted, server, respQ, shm>>

\* msgrcv of type 0 takes the first message, whoever it was sent for.  Here it
\* is "NOT_FOUND", or a length that reads -1.
ReceiveNotFound(p) ==
    /\ pc[p] = "recv"
    /\ respQ # << >>
    /\ ~IsLength(Head(respQ))
    /\ respQ' = Received(respQ)
    /\ status' = [status EXCEPT ![p] = "FILE_NOT_FOUND"]
    /\ ret' = [ret EXCEPT ![p] = "ok"]
    /\ pc' = [pc EXCEPT ![p] = "done"]
    /\ UNCHANGED <<want, hlen, body, proxyFds, accepted, server, reqQ, shm>>

\* A length: the header goes out, then the segment is opened and never
\* closed.  Without a descriptor the first pread fails, after the header.
ReceiveLength(p) ==
    /\ pc[p] = "recv"
    /\ respQ # << >>
    /\ IsLength(Head(respQ))
    /\ respQ' = Received(respQ)
    /\ hlen' = [hlen EXCEPT ![p] = AsSizeT(Head(respQ).len)]
    /\ \/ /\ proxyFds < FdLimit
          /\ proxyFds' = proxyFds + 1
          /\ pc' = [pc EXCEPT ![p] = "stream"]
          /\ UNCHANGED ret
       \/ /\ proxyFds >= FdLimit
          /\ pc' = [pc EXCEPT ![p] = "done"]
          /\ ret' = [ret EXCEPT ![p] = IF Head(respQ).len = 0 THEN "ok" ELSE "fail"]
          /\ UNCHANGED proxyFds
    /\ status' = [status EXCEPT ![p] = "OK"]
    /\ UNCHANGED <<want, body, accepted, server, reqQ, shm>>

\* One turn of the loop: up to BUFSIZE bytes at the offset, however few are
\* left of file_len, and all of them sent.
StreamChunk(p) ==
    /\ pc[p] = "stream"
    /\ Len(body[p]) < hlen[p]
    /\ Len(body[p]) < Len(shm)
    /\ body' = [body EXCEPT ![p] = Extended(body[p], shm)]
    /\ UNCHANGED <<pc, want, status, hlen, ret, proxyFds, accepted, server,
                   reqQ, respQ, shm>>

\* pread finds nothing at the offset, or gfs_send came up short because the
\* client is gone.
StreamFail(p) ==
    /\ pc[p] = "stream"
    /\ Len(body[p]) < hlen[p]
    /\ ret' = [ret EXCEPT ![p] = "fail"]
    /\ pc' = [pc EXCEPT ![p] = "done"]
    /\ UNCHANGED <<want, status, hlen, body, proxyFds, accepted, server,
                   reqQ, respQ, shm>>

\* bytes_transferred has reached file_len.
StreamDone(p) ==
    /\ pc[p] = "stream"
    /\ Len(body[p]) >= hlen[p]
    /\ ret' = [ret EXCEPT ![p] = "ok"]
    /\ pc' = [pc EXCEPT ![p] = "done"]
    /\ UNCHANGED <<want, status, hlen, body, proxyFds, accepted, server,
                   reqQ, respQ, shm>>

\* The library closes the connection; the thread may be given another.
Return(p) ==
    /\ pc[p] = "done"
    /\ pc' = [pc EXCEPT ![p] = "idle"]
    /\ want' = [want EXCEPT ![p] = None]
    /\ status' = [status EXCEPT ![p] = "none"]
    /\ hlen' = [hlen EXCEPT ![p] = 0]
    /\ body' = [body EXCEPT ![p] = << >>]
    /\ ret' = [ret EXCEPT ![p] = "none"]
    /\ UNCHANGED <<proxyFds, accepted, server, reqQ, respQ, shm>>

HandlerStep(p) ==
    \/ SendRequest(p) \/ ReceiveNotFound(p) \/ ReceiveLength(p)
    \/ StreamChunk(p) \/ StreamFail(p) \/ StreamDone(p) \/ Return(p)

(***************************************************************************)
(* The cache: worker.                                                      *)
(***************************************************************************)
At(w, l) == alive /\ wpc[w] = l
Go(w, l) == wpc' = [wpc EXCEPT ![w] = l]

\* sem_wait(&response_mutex) goes through; without it, always.
NoWait == TRUE
SegmentFree == respSem > 0

\* The copy loop of simplecached.c:189 has ended; a length sent before the
\* copy would not wait for that.
Announced(w) == TRUE
CopyWhole(w) == wrote[w] >= Size[job[w]]

\* sem_post, and one forgotten.
Unposted(sem) == sem
Post(sem) == sem + 1

\* "goto wait" after "NOT_FOUND", and a fall into the end of the loop.
ToPost == "unlockResp"
ToWait == "lockCmd"

\* sem_wait(&command_mutex)
LockCommand(w) ==
    /\ At(w, "lockCmd")
    /\ cmdSem > 0
    /\ cmdSem' = cmdSem - 1
    /\ Go(w, "recv")
    /\ UNCHANGED <<client, job, wrote, respSem, cacheFds, readErrors, alive,
                   reqQ, respQ, shm>>

\* msgrcv, still holding command_mutex
ReceiveRequest(w) ==
    /\ At(w, "recv")
    /\ reqQ # << >>
    /\ job' = [job EXCEPT ![w] = Head(reqQ)]
    /\ reqQ' = Received(reqQ)
    /\ Go(w, "unlockCmd")
    /\ UNCHANGED <<client, wrote, cmdSem, respSem, cacheFds, readErrors, alive,
                   respQ, shm>>

\* sem_post(&command_mutex), then simplecache_get decides the branch
UnlockCommand(w) ==
    /\ At(w, "unlockCmd")
    /\ cmdSem' = Post(cmdSem)
    /\ Go(w, IF job[w] \in Cached THEN "lockResp" ELSE "sendNotFound")
    /\ UNCHANGED <<client, job, wrote, respSem, cacheFds, readErrors, alive,
                   reqQ, respQ, shm>>

\* msgsnd of "NOT_FOUND", without response_mutex
SendNotFound(w) ==
    /\ At(w, "sendNotFound")
    /\ HasRoom(respQ)
    /\ respQ' = Append(respQ, NotFound)
    /\ job' = [job EXCEPT ![w] = None]
    /\ Go(w, ToWait)
    /\ UNCHANGED <<client, wrote, cmdSem, respSem, cacheFds, readErrors, alive,
                   reqQ, shm>>

\* sem_wait(&response_mutex)
LockResponse(w) ==
    /\ At(w, "lockResp")
    /\ SegmentFree
    /\ respSem' = respSem - 1
    /\ Go(w, "map")
    /\ UNCHANGED <<client, job, wrote, cmdSem, cacheFds, readErrors, alive,
                   reqQ, respQ, shm>>

\* shm_open, ftruncate and mmap; neither the descriptor nor the mapping is
\* ever released.
MapSegment(w) ==
    /\ At(w, "map")
    /\ cacheFds < FdLimit
    /\ cacheFds' = cacheFds + 1
    /\ shm' = Truncate(shm, Size[job[w]])
    /\ wrote' = [wrote EXCEPT ![w] = 0]
    /\ Go(w, "copy")
    /\ UNCHANGED <<client, job, cmdSem, respSem, readErrors, alive, reqQ, respQ>>

\* Without a descriptor shm_open, ftruncate and mmap fail unchecked: the first
\* memcpy goes to MAP_FAILED and kills the process, an empty file goes on.
MapFailed(w) ==
    /\ At(w, "map")
    /\ cacheFds >= FdLimit
    /\ alive' = (Size[job[w]] = 0)
    /\ wrote' = [wrote EXCEPT ![w] = 0]
    /\ Go(w, "copy")
    /\ UNCHANGED <<client, job, cmdSem, respSem, cacheFds, readErrors, reqQ,
                   respQ, shm>>

\* One turn of the copy loop.
CopyChunk(w) ==
    /\ At(w, "copy")
    /\ ~CopyWhole(w)
    /\ shm' = Filled(shm, job[w], wrote[w])
    /\ wrote' = [wrote EXCEPT ![w] = ChunkEnd(wrote[w], Size[job[w]])]
    /\ UNCHANGED <<client, wpc, job, cmdSem, respSem, cacheFds, readErrors,
                   alive, reqQ, respQ>>

\* pread of the cached file fails: the thread returns, response_mutex taken
\* and the request unanswered.
ReadError(w) ==
    /\ At(w, "copy")
    /\ ~CopyWhole(w)
    /\ readErrors < MaxReadErrors
    /\ readErrors' = readErrors + 1
    /\ job' = [job EXCEPT ![w] = None]
    /\ Go(w, "gone")
    /\ UNCHANGED <<client, wrote, cmdSem, respSem, cacheFds, alive, reqQ,
                   respQ, shm>>

\* The copy is whole: msgsnd of its length, printed with "%d".
SendLength(w) ==
    /\ At(w, "copy")
    /\ CopyWhole(w)
    /\ HasRoom(respQ)
    /\ respQ' = Append(respQ, Found(AsInt(Size[job[w]])))
    /\ job' = [job EXCEPT ![w] = None]
    /\ Go(w, "unlockResp")
    /\ UNCHANGED <<client, wrote, cmdSem, respSem, cacheFds, readErrors, alive,
                   reqQ, shm>>

\* sem_post(&response_mutex)
UnlockResponse(w) ==
    /\ At(w, "unlockResp")
    /\ respSem' = Post(respSem)
    /\ Go(w, "lockCmd")
    /\ UNCHANGED <<client, job, wrote, cmdSem, cacheFds, readErrors, alive,
                   reqQ, respQ, shm>>

WorkerStep(w) ==
    \/ LockCommand(w) \/ ReceiveRequest(w) \/ UnlockCommand(w) \/ SendNotFound(w)
    \/ LockResponse(w) \/ MapSegment(w) \/ MapFailed(w) \/ CopyChunk(w)
    \/ SendLength(w) \/ UnlockResponse(w)

Next ==
    \/ \E p \in Proxies : Accept(p) \/ HandlerStep(p)
    \/ \E w \in Workers : WorkerStep(w) \/ ReadError(w)

Spec == Init /\ [][Next]_vars

\* A thread that can run eventually does; requests and read errors need not
\* happen.
Fairness ==
    /\ \A p \in Proxies : WF_vars(HandlerStep(p))
    /\ \A w \in Workers : WF_vars(WorkerStep(w))

FairSpec == Spec /\ Fairness

(***************************************************************************)
(* Properties.                                                             *)
(***************************************************************************)
Message == [found : BOOLEAN, len : (-(IntMax + 1)) .. IntMax]

\* Type invariant: every variable keeps its type, both queues stay within
\* what msgsnd lets in, and both semaphores stay binary.
TypeOK ==
    /\ pc \in [Proxies -> ProxyPC]
    /\ want \in [Proxies -> Paths \cup {None}]
    /\ status \in [Proxies -> {"none", "OK", "FILE_NOT_FOUND"}]
    /\ hlen \in [Proxies -> Nat]
    /\ body \in [Proxies -> Seq(Paths \cup {None})]
    /\ ret \in [Proxies -> {"none", "ok", "fail"}]
    /\ reqQ \in Seq(Paths) /\ Len(reqQ) <= QueueCap
    /\ respQ \in Seq(Message) /\ Len(respQ) <= QueueCap
    /\ wpc \in [Workers -> WorkerPC]
    /\ job \in [Workers -> Paths \cup {None}]
    /\ wrote \in [Workers -> Nat]
    /\ cmdSem \in {0, 1}
    /\ respSem \in {0, 1}
    /\ shm \in Seq(Paths \cup {None})
    /\ proxyFds \in Nat /\ cacheFds \in Nat
    /\ accepted \in Nat /\ readErrors \in Nat
    /\ alive \in BOOLEAN

Waiting == {p \in Proxies : pc[p] = "recv"}
Busy    == {w \in Workers : job[w] # None}

\* The handlers waiting in msgrcv are as many as the answers still to come:
\* no request is lost or answered twice on its way through the two queues and
\* the workers (handle_with_cache.c:64-79, simplecached.c:102-211), except
\* the ones a read error at simplecached.c:192-195 left unanswered.
OneAnswerPerRequest ==
    Cardinality(Waiting) = Len(reqQ) + Cardinality(Busy) + Len(respQ) + readErrors

\* Workers between sem_wait and sem_post of response_mutex, the thread that
\* returned at simplecached.c:194 among them.
InSegment(w) == wpc[w] \in {"map", "copy", "unlockResp", "gone"}

\* What the worker in the copy loop has copied is in place: the segment is as
\* long as its file and holds the file up to bytes_transferred.
CopyInPlace ==
    \A w \in Workers : wpc[w] = "copy" /\ alive /\ Size[job[w]] > 0 =>
        /\ wrote[w] <= Size[job[w]]
        /\ Len(shm) = Size[job[w]]
        /\ \A i \in 1..wrote[w] : shm[i] = job[w]

\* response_mutex gives the segment to one worker at a time, so a file is whole
\* when its length is sent (simplecached.c:176-211).
WholeUntilAnswered ==
    /\ \A v, w \in Workers : InSegment(v) /\ InSegment(w) => v = w
    /\ CopyInPlace

\* What the client is sent is the file it asked for, block by block and never
\* beyond its end, and the handler reports success only of the whole of it
\* (handle_with_cache.c:116-132).
BodyOfPath ==
    \A p \in Proxies :
        /\ status[p] = "OK" => \A i \in 1..Len(body[p]) : body[p][i] = want[p]
        /\ status[p] = "OK" => Len(body[p]) <= Size[want[p]]
        /\ status[p] = "OK" /\ ret[p] = "ok" => Len(body[p]) = Size[want[p]]

\* Every request handed to the handler is answered: with both queues bounded
\* and two mutexes in the workers nobody waits on everybody.  The exceptions
\* are a worker that returned with response_mutex taken (simplecached.c:194)
\* and a killed cache (handle_with_cache.c:79-84).
EveryRequestReturns ==
    \A p \in Proxies : pc[p] = "send" ~> (pc[p] = "done" \/ readErrors > 0 \/ ~alive)

(***************************************************************************)
(* A client of the proxy sees a FileService.                               *)
(***************************************************************************)
File == INSTANCE FileService WITH Clients <- Proxies, ask <- want,
            status <- status, len <- hlen, sent <- body, ret <- ret

FileServiceSpec == File!Spec
===============================================================================
