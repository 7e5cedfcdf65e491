--------------------------- MODULE CacheLifecycle ---------------------------
(***************************************************************************)
(* webproxy and simplecached of gios-spr-2018-pr3-master/cache as          *)
(* processes that start, are stopped by a signal, die and start again,     *)
(* while the two message queues and the segment they share stay in the     *)
(* kernel.  ProxyCache has one life of both with every chunk; here a file  *)
(* is copied and streamed in one step, and a queue has an id and a key.    *)
(***************************************************************************)
EXTENDS CacheIndex, FiniteSets

CONSTANTS
    Handlers,      \* threads of the proxy
    Size,          \* cells of each file
    SegCells,      \* what the proxy gives the segment: nsegments * segsize
    MaxProxies, MaxCaches, MaxRequests, MaxErrors,   \* bounds on what happens
    None

Workers == Threads

ASSUME LifecycleAssumption ==
    /\ IsFiniteSet(Handlers) /\ IsFiniteSet(Threads)
    /\ Size \in [Keys -> Nat] /\ SegCells \in Nat
    /\ None \notin Nat      \* neither a path nor the id of a queue
    /\ {MaxProxies, MaxCaches, MaxRequests, MaxErrors} \subseteq Nat

VARIABLES
    key, queue, made,      \* the id of each key; what each queue holds; ids given out
    segment, shm,          \* cells of "temp", -1 without it; the file in it
    ppc, proxies,          \* the proxy process; how often it was started
    hpc, want, answer,     \* a handler: where it is, its path, what its client got
    on,                    \* what its msgget returned, or its msgrcv waits on
    msqidP, msqidCP,       \* the proxy's msqid and msqid_cache_to_proxy; -1 is None
    left,                  \* history: handlers that stopped waiting for a reply
    accepted,
    cpc, caches, ended,    \* the cache process; its starts; how the last one ended
    list, msqid, msqidC,   \* its list, msqid and msqid_cache_to_proxy
    wpc, job, errors       \* a worker: where it is, its request; errors so far

kernel == <<key, queue, made, segment, shm>>
proxy == <<ppc, proxies, hpc, want, answer, on, msqidP, msqidCP, left, accepted>>
cacheMain == <<cpc, caches, ended, list, msqid, msqidC>>
cache == <<cacheMain, wpc, job, errors, table, search>>
vars == <<kernel, proxy, cache>>

\* What the client of a handler got: a kind, the length announced, the file.
Answer(kind, n, f) == [kind |-> kind, len |-> n, file |-> f]
NoAnswer == Answer("none", 0, None)

Init ==
    /\ key = [k \in {"req", "resp"} |-> None] /\ queue = << >> /\ made = 0
    /\ segment = -1 /\ shm = None
    /\ ppc = "down" /\ proxies = 0 /\ left = 0 /\ accepted = 0
    /\ hpc = [h \in Handlers |-> "idle"] /\ want = [h \in Handlers |-> None]
    /\ answer = [h \in Handlers |-> NoAnswer] /\ on = [h \in Handlers |-> None]
    /\ msqidP = 0 /\ msqidCP = 0
    /\ cpc = "down" /\ caches = 0 /\ ended = "never" /\ msqid = 0 /\ msqidC = 0
    /\ list \in Lists
    /\ wpc = [w \in Workers |-> "off"] /\ job = [w \in Workers |-> None]
    /\ errors = 0
    /\ IndexInit

\* The requests somebody waits for, and what is on its way for them.
Waiting == {h \in Handlers : hpc[h] \in {"find", "keepResp", "recv", "wait"}}
Busy == {w \in Workers : job[w] # None}
Pending(k) == IF key[k] = None THEN 0 ELSE Len(queue[key[k]])
Tokens == Pending("req") + Cardinality(Busy) + Pending("resp")

-----------------------------------------------------------------------------
(* The kernel: an id is never given twice, and the first is 0.             *)

Lives(id) == id \in DOMAIN queue
\* A queue was removed, now or long ago.
Removed == \E id \in 0..made - 1 : ~Lives(id)
KeyId(k) == IF key[k] = None THEN made ELSE key[k]

\* msgget(key, IPC_CREAT)
MsgGet(k) ==
    /\ key' = [key EXCEPT ![k] = KeyId(k)]
    /\ IF key[k] # None THEN UNCHANGED <<queue, made>>
       ELSE /\ queue' = [i \in DOMAIN queue \cup {made} |-> IF i = made THEN << >> ELSE queue[i]]
            /\ made' = made + 1
    /\ UNCHANGED <<segment, shm>>

\* msgctl(id, IPC_RMID); EINVAL for an id that names none.
MsgRemove(id) ==
    /\ queue' = [i \in DOMAIN queue \ {id} |-> queue[i]]
    /\ key' = [k \in DOMAIN key |-> IF key[k] = id THEN None ELSE key[k]]
    /\ UNCHANGED <<made, segment, shm>>

Enqueue(id, m) ==
    /\ queue' = [queue EXCEPT ![id] = Append(@, m)]
    /\ UNCHANGED <<key, made, segment, shm>>
\* Mutant: a message stays in its queue.
Peek(id) == id \in DOMAIN queue /\ UNCHANGED <<key, queue, made, segment, shm>>

Dequeue(id) ==
    /\ queue' = [queue EXCEPT ![id] = Tail(@)]
    /\ UNCHANGED <<key, made, segment, shm>>

-----------------------------------------------------------------------------
(* webproxy                                                                *)

\* Mutant: the segment is left to the first request.
ProxyStartBare ==
    /\ ppc = "down" /\ proxies < MaxProxies
    /\ ppc' = "segment" /\ proxies' = proxies + 1
    /\ UNCHANGED <<kernel, hpc, want, answer, on, msqidP, msqidCP, left, accepted, cache>>

\* The segment: made, or cut to its first size with what is in it.
ProxyStart ==
    /\ ppc = "down" /\ proxies < MaxProxies
    /\ ppc' = "segment" /\ proxies' = proxies + 1
    /\ segment' = SegCells /\ shm' = IF segment = -1 THEN None ELSE shm
    /\ UNCHANGED <<key, queue, made, hpc, want, answer, on, msqidP, msqidCP, left, accepted, cache>>

\* Its queue, the old one if there is one; then it serves.
ProxyQueue ==
    /\ ppc = "segment" /\ ppc' = "up"
    /\ MsgGet("req")
    /\ UNCHANGED <<proxies, hpc, want, answer, on, msqidP, msqidCP, left, accepted, cache>>

\* The signal handler removes nothing.
ProxySignal ==
    /\ ppc # "down" /\ ppc' = "down"
    /\ hpc' = [h \in Handlers |-> "idle"] /\ want' = [h \in Handlers |-> None]
    /\ answer' = [h \in Handlers |-> NoAnswer]
    /\ on' = [h \in Handlers |-> None] /\ left' = left + Cardinality(Waiting)
    /\ msqidP' = 0 /\ msqidCP' = 0
    /\ UNCHANGED <<proxies, accepted, kernel, cache>>

Accept(h) ==
    /\ ppc = "up" /\ hpc[h] = "idle" /\ accepted < MaxRequests
    /\ accepted' = accepted + 1
    /\ \E f \in Keys : want' = [want EXCEPT ![h] = f]
    /\ answer' = [answer EXCEPT ![h] = NoAnswer]
    /\ hpc' = [hpc EXCEPT ![h] = "get"]
    /\ UNCHANGED <<ppc, proxies, on, msqidP, msqidCP, left, kernel, cache>>

Go(h, l) == hpc' = [hpc EXCEPT ![h] = l]
Same == UNCHANGED <<ppc, proxies, want, answer, accepted, cache>>

\* msgget: a queue the cache has removed is made again.
GetQueue(h) ==
    /\ hpc[h] = "get" /\ Go(h, "keepReq")
    /\ MsgGet("req") /\ on' = [on EXCEPT ![h] = KeyId("req")]
    /\ UNCHANGED <<msqidP, msqidCP, left>> /\ Same

\* What msgget returned is stored in a variable all handlers share.
KeepRequests(h) ==
    /\ hpc[h] = "keepReq" /\ Go(h, "send")
    /\ msqidP' = on[h]
    /\ UNCHANGED <<on, msqidCP, left, kernel>> /\ Same

SendRequest(h) ==
    /\ hpc[h] = "send" /\ Lives(msqidP) /\ Go(h, "find")
    /\ Enqueue(msqidP, want[h])
    /\ UNCHANGED <<on, msqidP, msqidCP, left>> /\ Same

\* A turn of the spin on msgget, which is -1 until a cache has made its queue.
FindQueue(h) ==
    /\ hpc[h] = "find" /\ Go(h, "keepResp")
    /\ on' = [on EXCEPT ![h] = key["resp"]]
    /\ UNCHANGED <<msqidP, msqidCP, left, kernel>> /\ Same

\* The -1, too, is stored where the others read.
KeepReplies(h) ==
    /\ hpc[h] = "keepResp" /\ Go(h, IF on[h] = None THEN "find" ELSE "recv")
    /\ msqidCP' = on[h]
    /\ UNCHANGED <<on, msqidP, left, kernel>> /\ Same

\* msgrcv is called with what the variable holds by now.
CallReceive(h) ==
    /\ hpc[h] = "recv" /\ Go(h, "wait")
    /\ on' = [on EXCEPT ![h] = msqidCP]
    /\ UNCHANGED <<msqidP, msqidCP, left, kernel>> /\ Same

Answered(h, a) ==
    /\ answer' = [answer EXCEPT ![h] = a] /\ Go(h, "idle") /\ on' = [on EXCEPT ![h] = None]
    /\ UNCHANGED <<ppc, proxies, want, msqidP, msqidCP, accepted, cache>>

\* msgsnd to, or msgrcv from, an id that names no queue: "not found", of which
\* the cache knows nothing.
QueueGone(h) ==
    /\ \/ hpc[h] = "send" /\ ~Lives(msqidP)
       \/ hpc[h] = "wait" /\ ~Lives(on[h])
    /\ Answered(h, Answer("not found", 0, None)) /\ UNCHANGED kernel
    /\ left' = IF hpc[h] = "wait" THEN left + 1 ELSE left

NotFound == [found |-> FALSE, len |-> 0]
Found(f) == [found |-> TRUE, len |-> Size[f]]

Receive(h) ==
    /\ hpc[h] = "wait" /\ Lives(on[h]) /\ queue[on[h]] # << >>
    /\ Dequeue(on[h]) /\ UNCHANGED left
    /\ LET r == Head(queue[on[h]])
       IN IF ~r.found THEN Answered(h, Answer("not found", 0, None))
          ELSE /\ Go(h, "stream")
               /\ answer' = [answer EXCEPT ![h] = Answer("header", r.len, None)]
               /\ UNCHANGED <<ppc, proxies, want, on, msqidP, msqidCP, accepted, cache>>

\* shm_open and the loop of pread: without the segment, or with a shorter one,
\* -1 after the header.
Stream(h) ==
    /\ hpc[h] = "stream" /\ UNCHANGED <<left, kernel>>
    /\ LET n == answer[h].len
       IN Answered(h, IF n = 0 THEN Answer("OK", 0, None)
                      ELSE IF segment < n THEN Answer("cut short", n, None)
                      ELSE Answer("OK", n, shm))

HandlerStep(h) ==
    \/ GetQueue(h) \/ KeepRequests(h) \/ SendRequest(h) \/ FindQueue(h) \/ KeepReplies(h)
    \/ CallReceive(h) \/ QueueGone(h) \/ Receive(h) \/ Stream(h)

-----------------------------------------------------------------------------
(* simplecached: main and the signal handler                               *)

CacheStart ==
    /\ cpc = "down" /\ caches < MaxCaches
    /\ cpc' = "load" /\ caches' = caches + 1
    /\ OpenList(list)
    /\ UNCHANGED <<ended, list, msqid, msqidC, wpc, job, errors, search, kernel, proxy>>

CacheLoad ==
    /\ cpc = "load" /\ LoadLine
    /\ UNCHANGED <<cacheMain, wpc, job, errors, kernel, proxy>>

CacheSort ==
    /\ cpc = "load" /\ SortTable /\ cpc' = "find"
    /\ UNCHANGED <<caches, ended, list, msqid, msqidC, wpc, job, errors, kernel, proxy>>

\* The process ends, with all its threads.
Ends(how) ==
    /\ cpc' = "down" /\ ended' = how
    /\ wpc' = [w \in Workers |-> "off"] /\ job' = [w \in Workers |-> None]
    /\ msqid' = 0 /\ msqidC' = 0 /\ ClearIndex
    /\ UNCHANGED <<caches, list, proxy>>

\* A file of the list cannot be opened.
CacheLoadFails ==
    /\ cpc = "load" /\ rest # << >> /\ errors < MaxErrors
    /\ errors' = errors + 1 /\ Ends("exit") /\ UNCHANGED kernel

\* The spin on msgget ends once a proxy has made its queue.
CacheFind ==
    /\ cpc = "find" /\ key["req"] # None
    /\ msqid' = key["req"] /\ cpc' = "create"
    /\ UNCHANGED <<caches, ended, list, msqidC, wpc, job, errors, table, search, kernel, proxy>>

CacheCreate ==
    /\ cpc = "create" /\ MsgGet("resp")
    /\ msqidC' = KeyId("resp") /\ cpc' = "run"
    /\ wpc' = [w \in Workers |-> "wait"]
    /\ UNCHANGED <<caches, ended, list, msqid, job, errors, table, search, proxy>>

\* SIGINT or SIGTERM, from when the handlers are installed.
CacheSignal ==
    /\ cpc \in {"load", "find", "create", "run"}
    /\ cpc' = "rmReq"
    /\ UNCHANGED <<caches, ended, list, msqid, msqidC, wpc, job, errors, table, search, kernel, proxy>>

\* msgctl of both queues, while the workers run on; an id not yet set is 0.
RemoveQueue(from, id, to) ==
    /\ cpc = from /\ MsgRemove(id) /\ cpc' = to
    /\ UNCHANGED <<caches, ended, list, msqid, msqidC, wpc, job, errors, table, search, proxy>>

Unlink ==
    /\ cpc = "unlink" /\ Ends("signal")
    /\ segment' = -1 /\ shm' = None
    /\ UNCHANGED <<key, queue, made, errors>>

CacheStep ==
    \/ CacheLoad \/ CacheSort \/ CacheFind \/ CacheCreate
    \/ RemoveQueue("rmReq", msqid, "rmResp") \/ RemoveQueue("rmResp", msqidC, "unlink")
    \/ Unlink

-----------------------------------------------------------------------------
(* simplecached: worker                                                    *)

Turn(w, l) == wpc' = [wpc EXCEPT ![w] = l]
Calm == UNCHANGED <<cacheMain, errors, proxy>>

\* command_mutex is held from here to the end of msgrcv.
WaitTurn(w) ==
    /\ wpc[w] = "wait" /\ \A v \in Workers : wpc[v] # "recv"
    /\ Turn(w, "recv") /\ Calm /\ UNCHANGED <<job, table, search, kernel>>

ReceiveRequest(w) ==
    /\ wpc[w] = "recv" /\ Lives(msqid) /\ queue[msqid] # << >>
    /\ Dequeue(msqid) /\ job' = [job EXCEPT ![w] = Head(queue[msqid])]
    /\ StartSearch(w, Head(queue[msqid]))
    /\ Turn(w, "search") /\ Calm /\ UNCHANGED table

\* simplecache_get
SearchOn(w) ==
    /\ wpc[w] = "search" /\ Narrow(w)
    /\ Calm /\ UNCHANGED <<wpc, job, kernel>>

SearchEnds(w) ==
    /\ wpc[w] = "search" /\ (Exhausted(w) \/ Hit(w))
    /\ Turn(w, IF Hit(w) THEN "stat" ELSE "notFound")
    /\ Calm /\ UNCHANGED <<job, table, search, kernel>>

\* Mutant: a worker ends at the first file it does not have.
ReplyAndEnd(w) ==
    /\ wpc[w] \in {"notFound", "statFailed", "reply"} /\ Lives(msqidC)
    /\ Enqueue(msqidC, IF wpc[w] = "reply" THEN Found(job[w]) ELSE NotFound)
    /\ job' = [job EXCEPT ![w] = None]
    /\ Turn(w, CASE wpc[w] = "statFailed" -> "rmid"
               [] wpc[w] = "notFound" -> "gone" [] wpc[w] = "reply" -> "wait")
    /\ Calm /\ UNCHANGED <<table, search>>

\* After fstat failed the queue is removed and the thread returns.
SendReply(w) ==
    /\ wpc[w] \in {"notFound", "statFailed", "reply"} /\ Lives(msqidC)
    /\ Enqueue(msqidC, IF wpc[w] = "reply" THEN Found(job[w]) ELSE NotFound)
    /\ job' = [job EXCEPT ![w] = None]
    /\ Turn(w, IF wpc[w] = "statFailed" THEN "rmid" ELSE "wait")
    /\ Calm /\ UNCHANGED <<table, search>>

\* msgrcv, msgsnd or msgctl of a queue that was removed: exit.
WorkerExits(w) ==
    /\ \/ wpc[w] = "recv" /\ ~Lives(msqid)
       \/ wpc[w] \in {"notFound", "statFailed", "reply", "rmid"} /\ ~Lives(msqidC)
    /\ Ends("exit") /\ UNCHANGED <<errors, kernel>>

StatFails(w) ==
    /\ wpc[w] = "stat" /\ errors < MaxErrors
    /\ errors' = errors + 1
    /\ Turn(w, "statFailed") /\ UNCHANGED <<cacheMain, proxy, kernel, job, table, search>>

RemoveReplies(w) ==
    /\ wpc[w] = "rmid" /\ Lives(msqidC) /\ MsgRemove(msqidC)
    /\ Turn(w, "gone") /\ Calm /\ UNCHANGED <<job, table, search>>

\* response_mutex is held from here to the end of the reply's msgsnd.
LockSegment(w) ==
    /\ wpc[w] = "stat" /\ \A v \in Workers : wpc[v] \notin {"map", "copy", "unmapped", "reply", "stuck"}
    /\ Turn(w, "map") /\ Calm /\ UNCHANGED <<job, table, search, kernel>>

MapSegment(w) ==
    /\ wpc[w] = "map" /\ segment # -1
    /\ segment' = Size[job[w]]
    /\ Turn(w, "copy") /\ Calm /\ UNCHANGED <<job, table, search, key, queue, made, shm>>

\* shm_open, and with it mmap, fail, and nobody looks.
MapNothing(w) ==
    /\ wpc[w] = "map" /\ segment = -1
    /\ Turn(w, "unmapped") /\ Calm /\ UNCHANGED <<job, table, search, kernel>>

CopyFile(w) ==
    /\ wpc[w] = "copy" /\ segment >= Size[job[w]]
    /\ shm' = job[w]
    /\ Turn(w, "reply") /\ Calm /\ UNCHANGED <<job, table, search, key, queue, made, segment>>

\* Of an empty file there is nothing to copy.
CopyNothing(w) ==
    /\ wpc[w] = "unmapped" /\ Size[job[w]] = 0
    /\ Turn(w, "reply") /\ Calm /\ UNCHANGED <<job, table, search, kernel>>

\* A copy to where nothing is mapped, or past what is left of the segment:
\* SIGSEGV, SIGBUS.
Killed(w) ==
    /\ \/ wpc[w] = "unmapped" /\ Size[job[w]] > 0
       \/ wpc[w] = "copy" /\ segment < Size[job[w]]
    /\ Ends("killed") /\ UNCHANGED <<errors, kernel>>

\* pread of the cached file fails: the thread returns with response_mutex.
ReadFails(w) ==
    /\ wpc[w] \in {"copy", "unmapped"} /\ Size[job[w]] > 0 /\ errors < MaxErrors
    /\ errors' = errors + 1 /\ job' = [job EXCEPT ![w] = None]
    /\ Turn(w, "stuck") /\ UNCHANGED <<cacheMain, proxy, table, search, kernel>>

WorkerStep(w) ==
    \/ WaitTurn(w) \/ ReceiveRequest(w) \/ SearchOn(w) \/ SearchEnds(w) \/ SendReply(w)
    \/ WorkerExits(w) \/ RemoveReplies(w) \/ LockSegment(w) \/ MapSegment(w)
    \/ MapNothing(w) \/ CopyFile(w) \/ CopyNothing(w) \/ Killed(w)

-----------------------------------------------------------------------------
\* What the user does, and what goes wrong by itself.
Environment ==
    \/ ProxyStart \/ ProxySignal \/ CacheStart \/ CacheSignal \/ CacheLoadFails
    \/ \E h \in Handlers : Accept(h)
    \/ \E w \in Workers : StatFails(w) \/ ReadFails(w)

Next ==
    \/ Environment \/ ProxyQueue \/ CacheStep
    \/ \E h \in Handlers : HandlerStep(h)
    \/ \E w \in Workers : WorkerStep(w)

Spec == Init /\ [][Next]_vars

\* Every process and thread that can run does; nobody has to start, stop or
\* ask anything.
FairSpec ==
    /\ Spec
    /\ WF_vars(ProxyQueue) /\ WF_vars(CacheStep)
    /\ \A h \in Handlers : WF_vars(HandlerStep(h))
    /\ \A w \in Workers : WF_vars(WorkerStep(w))

-----------------------------------------------------------------------------

\* The keys name live queues of their kind, every process, thread and
\* connection is in a state of its own, and a table has room for another line.
TypeOK ==
    /\ key \in [{"req", "resp"} -> DOMAIN queue \cup {None}] /\ DOMAIN queue \subseteq 0..made - 1
    /\ segment \in Nat \cup {-1} /\ shm \in Keys \cup {None}
    /\ ppc \in {"down", "segment", "up"}
    /\ hpc \in [Handlers -> {"idle", "get", "keepReq", "send", "find", "keepResp", "recv", "wait",
                             "stream"}]
    /\ on \in [Handlers -> Nat \cup {None}]
    /\ want \in [Handlers -> Keys \cup {None}]
    /\ cpc \in {"down", "load", "find", "create", "run", "rmReq", "rmResp", "unlink"}
    /\ wpc \in [Workers -> {"off", "wait", "recv", "search", "stat", "notFound", "statFailed",
                            "rmid", "map", "copy", "unmapped", "reply", "gone", "stuck"}]
    /\ job \in [Workers -> Keys \cup {None}]
    /\ cpc # "down" => Len(items) < capacity
    /\ items \in Seq(Keys)

\* Whatever is stopped, killed and started again, a request is replied to once
\* at most: there are never more requests and replies about than handlers that
\* wait for one, and handlers that waited for one and left without it, because
\* the proxy was stopped or the queue they waited on was removed.
NoSecondAnswer == Tokens <= Cardinality(Waiting) + left

\* The client of a proxy's only handler is told OK of its own file, which it
\* gets whole, and "not found" only of a path that is not on the list, unless it
\* or one before it left without its reply; and "not found" also of a file on
\* the list once a queue was removed or fstat failed.
AnswerIsOwn ==
    \A h \in Handlers : hpc[h] = "idle" /\ left = 0 =>
        /\ answer[h].kind = "not found" => want[h] \notin Range(list) \/ errors > 0 \/ Removed
        /\ answer[h].kind = "OK" =>
              /\ answer[h].len = Size[want[h]]
              /\ answer[h].file = IF Size[want[h]] = 0 THEN None ELSE want[h]

\* simplecache_get's comment, for every thread that searches.
SearchInRange == \A w \in Workers : wpc[w] = "search" => InRange(w)

\* The order in which the two start up protects the cache: it dies of the
\* segment only once one of them has been started a second time.
KilledAfterRestart == ended = "killed" => proxies > 1 \/ caches > 1

\* What keeps a handler waiting: no cache that runs, a request that went with
\* a queue or a cache, or a thread that returned.
Abandoned(h) ==
    /\ h \in Waiting
    /\ cpc # "run" \/ Tokens = 0 \/ errors > 0

\* Otherwise every request a proxy accepts ends, however often the other
\* process comes and goes.
EveryRequestEnds ==
    \A h \in Handlers : []<>(hpc[h] = "idle") \/ <>[]Abandoned(h)
=============================================================================
