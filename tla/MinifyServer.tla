---------------------------- MODULE MinifyServer ----------------------------
(***************************************************************************)
(* The RPC server of gios-spr-2018-pr4-master/rpc_mt (minifyjpeg_svc.c):   *)
(* svc_run calls the boss, minifyjpeg_prog_1, for each request; the boss   *)
(* links it into a steque WITHOUT mylock, and workers take from that       *)
(* steque under mylock.  The steque is modelled at the loads and stores of *)
(* steque.c: the Makefile builds without optimisation, so each this->field *)
(* in the source is an access of its own.                                  *)
(*                                                                         *)
(* Call c is the c-th request received, and names its thread_data.  A      *)
(* steque node is a piece of the heap: free gives it back and malloc may   *)
(* hand it out again.  0 is NULL.                                          *)
(***************************************************************************)
EXTENDS Integers, FiniteSets

CONSTANTS
    Workers,      \* worker threads
    Outstanding,  \* client threads: each waits for its answer before the next call
    MaxCalls      \* bound: requests sent to the server

\* minifyjpeg_svc.c:174 lets -t 0 through: a server without workers.
ASSUME ServerAssumption ==
    /\ IsFiniteSet(Workers) /\ 0 \notin Workers
    /\ Outstanding \in Nat \ {0}
    /\ MaxCalls \in Nat

Calls == 1..MaxCalls
Nodes == 1..MaxCalls    \* enough: a call allocates one
Null == 0

VARIABLES
    front, back, N,  \* the fields of workqueue
    item, next,      \* node->item, node->next
    live,            \* nodes malloc'ed and not freed
    boss,            \* where the boss is
    fresh,           \* the node it allocated last
    seen,            \* the this->back it loaded to reach ->next
    bossN,           \* the N its N++ loaded
    received,        \* requests received so far; also the boss's current one
    wpc,             \* where each worker is
    node,            \* the node a worker pops
    data,            \* the request on it: ans, then data_ptr
    rest,            \* the this->front->next it loaded
    workN,           \* the N its N-- loaded
    mylock,          \* the worker holding it
    answered,        \* requests the client has a reply to
    server           \* running, or what ended the process

queue == <<front, back, N, item, next, live>>
bossVars == <<boss, fresh, seen, bossN, received>>
workerVars == <<wpc, node, data, rest, workN, mylock>>
vars == <<queue, bossVars, workerVars, answered, server>>

Init ==
    /\ front = Null /\ back = Null /\ N = 0
    /\ item = [n \in Nodes |-> Null] /\ next = [n \in Nodes |-> Null]
    /\ live = {}
    /\ boss = "idle" /\ fresh = Null /\ seen = Null /\ bossN = 0 /\ received = 0
    /\ wpc = [w \in Workers |-> "lock"]
    /\ node = [w \in Workers |-> Null]
    /\ data = [w \in Workers |-> Null]
    /\ rest = [w \in Workers |-> Null]
    /\ workN = [w \in Workers |-> 0]
    /\ mylock = Null
    /\ answered = {}
    /\ server = "up"

(***************************************************************************)
(* The boss: minifyjpeg_prog_1 and, inlined, steque_enqueue.               *)
(***************************************************************************)
BossAt(l) == server = "up" /\ boss = l

\* What this->N++ stores; and an increment forgotten, or done twice.
NotCounted(n) == n
CountedTwice(n) == n + 2
Counted(n) == n + 1

\* A request arrives from one of the clients that is not waiting.
Arrives ==
    /\ BossAt("idle")
    /\ received < MaxCalls
    /\ received - Cardinality(answered) < Outstanding
    /\ received' = received + 1

\* A node malloc may return: one that was freed, or the next untouched one (the
\* untouched ones differ in nothing).
Allocable(n) ==
    /\ n \notin live
    /\ \A m \in 1..(n - 1) : item[m] # Null

\* svc_getargs decodes it, and a node is allocated and filled in.
Receive ==
    /\ Arrives
    /\ \E n \in Nodes :
          /\ Allocable(n)
          /\ fresh' = n
          /\ live' = live \cup {n}
          /\ item' = [item EXCEPT ![n] = received']
          /\ next' = [next EXCEPT ![n] = Null]
    /\ boss' = "testBack"
    /\ UNCHANGED <<front, back, N, seen, bossN, workerVars, answered, server>>

\* svc_getargs fails: svcerr_decode is the reply.
RejectCall ==
    /\ Arrives
    /\ answered' = answered \cup {received + 1}
    /\ UNCHANGED <<queue, boss, fresh, seen, bossN, workerVars, server>>

\* if (this->back == NULL)
TestBack ==
    /\ BossAt("testBack")
    /\ boss' = IF back = Null THEN "setFront" ELSE "loadBack"
    /\ UNCHANGED <<queue, fresh, seen, bossN, received, workerVars, answered, server>>

\* this->front = node
SetFront ==
    /\ BossAt("setFront")
    /\ front' = fresh
    /\ boss' = "setBack"
    /\ UNCHANGED <<back, N, item, next, live, fresh, seen, bossN, received,
                   workerVars, answered, server>>

\* The load of this->back in this->back->next
LoadBack ==
    /\ BossAt("loadBack")
    /\ seen' = back
    /\ boss' = "link"
    /\ UNCHANGED <<queue, fresh, bossN, received, workerVars, answered, server>>

\* An access to a node not allocated: through NULL it faults, in a freed node
\* it is caught by the sanitizer of the default build or goes unnoticed.
MayFault(n) == n \notin live
MayPass(n) == n \in Nodes

\* The store to ->next
Link ==
    /\ BossAt("link")
    /\ \/ /\ MayPass(seen)
          /\ next' = [next EXCEPT ![seen] = fresh]
          /\ UNCHANGED server
       \/ /\ MayFault(seen)
          /\ server' = "memoryFault"
          /\ UNCHANGED next
    /\ boss' = "setBack"
    /\ UNCHANGED <<front, back, N, item, live, fresh, seen, bossN, received,
                   workerVars, answered>>

\* this->back = node
SetBack ==
    /\ BossAt("setBack")
    /\ back' = fresh
    /\ boss' = "loadN"
    /\ UNCHANGED <<front, N, item, next, live, fresh, seen, bossN, received,
                   workerVars, answered, server>>

\* this->N++, a load and a store
BossLoadN ==
    /\ BossAt("loadN")
    /\ bossN' = N
    /\ boss' = "storeN"
    /\ UNCHANGED <<queue, fresh, seen, received, workerVars, answered, server>>

BossStoreN ==
    /\ BossAt("storeN")
    /\ N' = Counted(bossN)
    /\ boss' = "idle"
    /\ UNCHANGED <<front, back, item, next, live, fresh, seen, bossN, received,
                   workerVars, answered, server>>

BossStep ==
    \/ TestBack \/ SetFront \/ LoadBack \/ Link \/ SetBack \/ BossLoadN \/ BossStoreN

(***************************************************************************)
(* A worker and, inlined, steque_isempty and steque_pop.                   *)
(***************************************************************************)
At(w, l) == server = "up" /\ wpc[w] = l
Go(w, l) == wpc' = [wpc EXCEPT ![w] = l]

\* "if (this->front == NULL) this->back = NULL", and its absence.
StraightToFree == "free"
AfterUnlink == IF front = Null THEN "clearBack" ELSE "free"

\* What is loaded for the store to front: the link, or the node itself.
Kept(n) == n
Unlinked(n) == next[n]

\* mylock lets the worker in; and a worker that does not ask.
NoLock == TRUE
LockFree == mylock = Null

\* pthread_mutex_lock(&mylock)
Lock(w) ==
    /\ At(w, "lock")
    /\ LockFree
    /\ mylock' = w
    /\ Go(w, "test")
    /\ UNCHANGED <<queue, bossVars, node, data, rest, workN, answered, server>>

\* while (!steque_isempty(&workqueue)); an empty queue is polled again
TestEmpty(w) ==
    /\ At(w, "test")
    /\ \/ N # 0 /\ Go(w, "pop") /\ UNCHANGED mylock
       \/ N = 0 /\ Go(w, "lock") /\ mylock' = Null
    /\ UNCHANGED <<queue, bossVars, node, data, rest, workN, answered, server>>

\* steque_pop: underflow ends the process, else the node and its item are
\* taken.  (The boss never stores NULL in front.)
Pop(w) ==
    /\ At(w, "pop")
    /\ \/ /\ front = Null
          /\ server' = "underflow"
          /\ UNCHANGED <<node, data, wpc>>
       \/ /\ front # Null
          /\ node' = [node EXCEPT ![w] = front]
          /\ data' = [data EXCEPT ![w] = item[front]]
          /\ Go(w, "loadNext")
          /\ UNCHANGED server
    /\ UNCHANGED <<queue, bossVars, rest, workN, mylock, answered>>

\* this->front = this->front->next, the loads and the store
LoadNext(w) ==
    /\ At(w, "loadNext")
    /\ rest' = [rest EXCEPT ![w] = Unlinked(front)]
    /\ Go(w, "setFront")
    /\ UNCHANGED <<queue, bossVars, node, data, workN, mylock, answered, server>>

MoveFront(w) ==
    /\ At(w, "setFront")
    /\ front' = rest[w]
    /\ Go(w, "testFront")
    /\ UNCHANGED <<back, N, item, next, live, bossVars, node, data, rest, workN,
                   mylock, answered, server>>

\* The test and the store of "if (this->front == NULL) this->back = NULL"
TestFront(w) ==
    /\ At(w, "testFront")
    /\ Go(w, AfterUnlink)
    /\ UNCHANGED <<queue, bossVars, node, data, rest, workN, mylock, answered, server>>

ClearBack(w) ==
    /\ At(w, "clearBack")
    /\ back' = Null
    /\ Go(w, "free")
    /\ UNCHANGED <<front, N, item, next, live, bossVars, node, data, rest, workN,
                   mylock, answered, server>>

\* free(node)
FreeNode(w) ==
    /\ At(w, "free")
    /\ live' = live \ {node[w]}
    /\ Go(w, "loadN")
    /\ UNCHANGED <<front, back, N, item, next, bossVars, node, data, rest, workN,
                   mylock, answered, server>>

\* The load of this->N--
LoadN(w) ==
    /\ At(w, "loadN")
    /\ workN' = [workN EXCEPT ![w] = N]
    /\ Go(w, "storeN")
    /\ UNCHANGED <<queue, bossVars, node, data, rest, mylock, answered, server>>

\* The store of this->N--, and pthread_mutex_unlock
StoreN(w) ==
    /\ At(w, "storeN")
    /\ N' = workN[w] - 1
    /\ mylock' = Null
    /\ Go(w, "minify")
    /\ UNCHANGED <<front, back, item, next, live, bossVars, node, data, rest, workN,
                   answered, server>>

\* magickminify, outside the lock: it ends the process on an image it cannot
\* read; otherwise svc_sendreply follows.
Minify(w) ==
    /\ At(w, "minify")
    /\ \/ /\ answered' = answered \cup {data[w]}
          /\ Go(w, "cleanup")
          /\ UNCHANGED server
       \/ /\ server' = "badImage"
          /\ UNCHANGED <<answered, wpc>>
    /\ UNCHANGED <<queue, bossVars, node, data, rest, workN, mylock>>

\* minifyjpeg_prog_1_freeresult calls magickminify_cleanup; free(data_ptr)
Cleanup(w) ==
    /\ At(w, "cleanup")
    /\ data' = [data EXCEPT ![w] = Null]
    /\ Go(w, "lock")
    /\ UNCHANGED <<queue, bossVars, node, rest, workN, mylock, answered, server>>

WorkerStep(w) ==
    \/ Lock(w) \/ TestEmpty(w) \/ Pop(w) \/ LoadNext(w) \/ MoveFront(w)
    \/ TestFront(w) \/ ClearBack(w) \/ FreeNode(w) \/ LoadN(w) \/ StoreN(w) \/ Minify(w) \/ Cleanup(w)

Next == Receive \/ RejectCall \/ BossStep \/ \E w \in Workers : WorkerStep(w)

Spec == Init /\ [][Next]_vars

\* Threads that can run do; clients need not call.
FairSpec == Spec /\ WF_vars(BossStep) /\ \A w \in Workers : WF_vars(WorkerStep(w))

(***************************************************************************)
(* Properties.                                                             *)
(***************************************************************************)
BossPC == {"idle", "testBack", "setFront", "loadBack", "link", "setBack", "loadN", "storeN"}
WorkerPC == {"lock", "test", "pop", "loadNext", "setFront", "testFront", 
             "clearBack", "free", "loadN", "storeN", "minify", "cleanup"}
Pointer == Nodes \cup {Null}
Request == Calls \cup {Null}

\* Type invariant; the counter of the steque never leaves 0 .. MaxCalls.
TypeOK ==
    /\ front \in Pointer /\ back \in Pointer /\ fresh \in Pointer /\ seen \in Pointer
    /\ N \in 0..MaxCalls /\ bossN \in 0..MaxCalls
    /\ workN \in [Workers -> 0..MaxCalls]
    /\ item \in [Nodes -> Request] /\ next \in [Nodes -> Pointer]
    /\ live \subseteq Nodes /\ answered \subseteq Calls
    /\ received \in 0..MaxCalls
    /\ boss \in BossPC
    /\ wpc \in [Workers -> WorkerPC]
    /\ node \in [Workers -> Pointer] /\ rest \in [Workers -> Pointer]
    /\ data \in [Workers -> Request]
    /\ mylock \in Workers \cup {Null}
    /\ server \in {"up", "underflow", "memoryFault", "badImage"}

\* The nodes reached from the front: those in every set that has the front and,
\* of each node in it, the next.
Closed(S) == \A n \in S \cap Nodes : next[n] \in S
Linked == {n \in Nodes : \A S \in SUBSET Pointer : front \in S /\ Closed(S) => n \in S}

\* Requests received and neither answered nor with a worker.
Pending == ((1..received) \ answered) \ {data[w] : w \in Workers}

\* Whenever neither the boss nor a worker is inside the steque, its list holds
\* exactly the requests still to be taken, back is its last node and N its
\* length (steque.c:11-25 against steque.c:49-69 under two threads).
QueueIntact ==
    server = "up" /\ boss = "idle" /\ mylock = Null =>
        /\ Linked \subseteq live
        /\ {item[n] : n \in Linked} = Pending
        /\ N = Cardinality(Pending) /\ N = Cardinality(Linked)
        /\ IF Linked = {} THEN back = Null ELSE back \in Linked /\ next[back] = Null

\* No request stops the server but an image magickminify cannot read
\* (magickminify.c:24-25): steque_pop never underflows and the boss never
\* writes through a dead node.
QueueNeverKills == server \notin {"underflow", "memoryFault"}

\* Even while the boss races with them, two workers never serve the same
\* request, and a request answered is not served again (minifyjpeg_svc.c:65-96).
ServedOnce ==
    /\ \A v, w \in Workers : v # w /\ data[v] # Null => data[v] # data[w]
    /\ \A w \in Workers : wpc[w] = "minify" => data[w] \notin answered

\* What a worker does in steque_pop is safe in memory even while the boss races
\* with it: the nodes it reads and frees are allocated (steque.c:58-64).  Only
\* the boss can touch a dead node.
PopsLiveNodes ==
    \A w \in Workers :
        /\ wpc[w] \in {"pop", "loadNext"} /\ front # Null => front \in live
        /\ wpc[w] \in {"setFront", "testFront", "clearBack", "free"} => node[w] \in live

\* What the boss received is picked up by a worker and answered
\* (the comment at minifyjpeg_svc.c:56).
EveryCallAnswered ==
    \A c \in Calls : c <= received ~> (c \in answered \/ server = "badImage")

\* MagickCoreTerminus takes down the library for the whole process, so no other
\* worker may be minifying when one calls it (minifyjpeg.c:21-25).
CleanupAlone ==
    \A v, w \in Workers : v # w /\ wpc[v] = "cleanup" => wpc[w] # "minify"
===============================================================================
