------------------------- MODULE MinifyServerProofs -------------------------
(***************************************************************************)
(* What the RPC server promises, for any number of workers and requests:   *)
(* first under the race of the boss with the workers, however many clients *)
(* there are, then with one request at a time.                             *)
(***************************************************************************)
EXTENDS MinifyServer, FiniteSetTheorems, TLAPS

(***************************************************************************)
(* The inductive invariant under the race.  N may be anything: increments  *)
(* and decrements get lost.                                                *)
(***************************************************************************)
Types ==
    /\ front \in Pointer /\ back \in Pointer /\ fresh \in Pointer /\ seen \in Pointer
    /\ boss # "idle" => fresh \in Nodes
    /\ N \in Int /\ bossN \in Int /\ workN \in [Workers -> Int]
    /\ item \in [Nodes -> Request] /\ next \in [Nodes -> Pointer]
    /\ live \subseteq Nodes /\ answered \subseteq Calls
    /\ received \in 0..MaxCalls
    /\ boss \in BossPC
    /\ wpc \in [Workers -> WorkerPC]
    /\ node \in [Workers -> Pointer] /\ rest \in [Workers -> Pointer]
    /\ data \in [Workers -> Request]
    /\ mylock \in Workers \cup {Null}

\* Where a worker has mylock, where it has a node, and where the node is out
\* of the list.
Inside == {"test", "pop", "loadNext", "setFront", "testFront", "clearBack", "free",
           "loadN", "storeN"}
Taken == {"loadNext", "setFront", "testFront", "clearBack", "free"}
Out == {"testFront", "clearBack", "free"}

Mutex == \A w \in Workers : wpc[w] \in Inside <=> mylock = w

\* Who has seen an empty list: back is NULL only when front is, and no worker
\* is about to take the last node, except while the boss is between its stores.
Emptied ==
    /\ boss = "setFront" => back = Null
    /\ \A w \in Workers : wpc[w] = "clearBack" => front = Null
    /\ back = Null /\ boss # "setBack" =>
          /\ front = Null
          /\ \A w \in Workers : wpc[w] \in Taken => wpc[w] = "free"

\* No node that is allocated has n for a successor.
Unreached(n) == \A m \in live : next[m] # n

\* Links between allocated nodes never dangle, and no two end in one node.
LinksLive == \A m \in live : next[m] \in live \cup {Null}
LinksApart == \A m, n \in live : next[m] = next[n] /\ next[m] # Null => m = n

\* A node the boss has not linked yet is allocated, and in nobody's hands.
NotLinkedYet == boss \in {"testBack", "setFront", "loadBack", "link"}
FreshApart ==
    NotLinkedYet =>
        /\ fresh \in live /\ Unreached(fresh) /\ front # fresh
        /\ \A w \in Workers :
              /\ wpc[w] \in Taken => node[w] # fresh
              /\ wpc[w] = "setFront" => rest[w] # fresh

\* The first node is allocated, and the node before it is one taken out.
FrontLive ==
    front # Null =>
        /\ front \in live
        /\ \A m \in live : next[m] = front =>
              \E w \in Workers : wpc[w] \in Out /\ node[w] = m

\* Until it is moved, front is the node a worker takes,
AtFront ==
    \A w \in Workers : wpc[w] \in {"loadNext", "setFront"} => front # Null /\ node[w] = front

\* what it is to be moved to comes after that node and no other,
RestLive ==
    \A w \in Workers : wpc[w] = "setFront" /\ rest[w] # Null =>
        /\ rest[w] \in live /\ rest[w] # node[w]
        /\ \A m \in live : next[m] = rest[w] => m = node[w]

\* and a node taken is allocated until it is freed, and nothing leads to it.
NodeApart ==
    \A w \in Workers : wpc[w] \in Taken =>
        /\ node[w] \in live /\ Unreached(node[w])
        /\ wpc[w] \in Out => front # node[w]

Heap ==
    /\ LinksLive /\ LinksApart /\ FreshApart /\ FrontLive /\ AtFront /\ RestLive /\ NodeApart

\* Each request is on one node or with one worker until it is answered.
Requests ==
    /\ \A m, n \in live : item[m] = item[n] => m = n
    /\ \A n \in live :
          /\ item[n] \in 1..received /\ item[n] \notin answered
          /\ \A w \in Workers : data[w] = item[n] => wpc[w] \in Taken /\ node[w] = n
    /\ \A w \in Workers :
          /\ wpc[w] \in {"lock", "test", "pop"} <=> data[w] = Null
          /\ data[w] # Null => data[w] \in 1..received
          /\ wpc[w] # "cleanup" => data[w] \notin answered
    /\ \A v, w \in Workers : v # w /\ data[v] # Null => data[v] # data[w]
    /\ \A c \in answered : c <= received

IInv == Types /\ Mutex /\ Emptied /\ Heap /\ Requests

\* The initial state.
LEMMA InitState == Init => IInv
  BY ServerAssumption
     DEF Init, IInv, Types, Mutex, Emptied, Heap, Requests, LinksLive, LinksApart,
         FreshApart, NotLinkedYet, FrontLive, AtFront, RestLive, NodeApart, Unreached, Pointer, Nodes,
         Calls, Request, Null, BossPC, WorkerPC, Inside, Taken, Out

BossActions == Receive \/ RejectCall \/ BossStep

\* The boss keeps the types.
LEMMA BossTypes == ASSUME IInv, BossActions PROVE Types'
<1>. USE DEF IInv, Types, Arrives, BossAt, Pointer, Nodes, Calls, Request, Null, BossPC, Allocable
<1>1. CASE Receive
  BY <1>1, ServerAssumption DEF Receive, workerVars
<1>2. CASE RejectCall
  BY <1>2, ServerAssumption DEF RejectCall, workerVars, queue
<1>3. CASE TestBack
  BY <1>3 DEF TestBack, workerVars, queue
<1>4. CASE SetFront
  BY <1>4 DEF SetFront, workerVars
<1>5. CASE LoadBack
  BY <1>5 DEF LoadBack, workerVars, queue
<1>6. CASE Link
  BY <1>6 DEF Link, workerVars, MayPass, MayFault
<1>7. CASE SetBack
  BY <1>7 DEF SetBack, workerVars
<1>8. CASE BossLoadN
  BY <1>8 DEF BossLoadN, workerVars, queue
<1>9. CASE BossStoreN
  BY <1>9 DEF BossStoreN, workerVars, Counted
<1>. QED
  BY <1>1, <1>2, <1>3, <1>4, <1>5, <1>6, <1>7, <1>8, <1>9 DEF BossActions, BossStep

\* The boss leaves the workers where they are, and the empty list empty.
LEMMA BossEmptied == ASSUME IInv, BossActions PROVE Mutex' /\ Emptied'
<1>. USE DEF IInv, Types, Mutex, Emptied, Arrives, BossAt, Pointer, Nodes, Null
<1>1. CASE Receive
  BY <1>1 DEF Receive, workerVars
<1>2. CASE RejectCall
  BY <1>2 DEF RejectCall, workerVars, queue
<1>3. CASE TestBack
  BY <1>3 DEF TestBack, workerVars, queue
<1>4. CASE SetFront
  BY <1>4 DEF SetFront, workerVars, Taken
<1>5. CASE LoadBack
  BY <1>5 DEF LoadBack, workerVars, queue
<1>6. CASE Link
  BY <1>6 DEF Link, workerVars
<1>7. CASE SetBack
  BY <1>7 DEF SetBack, workerVars
<1>8. CASE BossLoadN
  BY <1>8 DEF BossLoadN, workerVars, queue
<1>9. CASE BossStoreN
  BY <1>9 DEF BossStoreN, workerVars
<1>. QED
  BY <1>1, <1>2, <1>3, <1>4, <1>5, <1>6, <1>7, <1>8, <1>9 DEF BossActions, BossStep

\* The boss and the heap: a new node, the link to it, and front set to it are
\* what counts.
LEMMA BossHeap == ASSUME IInv, BossActions PROVE Heap'
<1>. USE DEF IInv, Types, Heap, Arrives, BossAt, NotLinkedYet, Unreached
<1>1. CASE Receive
  <2>1. PICK n \in Nodes : /\ n \notin live /\ fresh' = n /\ live' = live \cup {n}
                           /\ next' = [next EXCEPT ![n] = Null]
    BY <1>1 DEF Receive, Allocable
  <2>2. /\ UNCHANGED <<front, wpc, node, rest>> /\ n # Null /\ Null \notin live
        /\ next'[n] = Null /\ \A m \in live : next'[m] = next[m]
    BY <1>1, <2>1 DEF Receive, workerVars, Nodes, Null
  <2>3. LinksLive' /\ LinksApart'
    BY <2>1, <2>2 DEF LinksLive, LinksApart
  <2>4. FreshApart'
    BY <2>1, <2>2 DEF FreshApart, LinksLive, FrontLive, RestLive, NodeApart, Pointer
  <2>5. FrontLive' /\ AtFront'
    BY <2>1, <2>2 DEF FrontLive, AtFront
  <2>6. RestLive' /\ NodeApart'
    BY <2>1, <2>2 DEF RestLive, NodeApart, Pointer
  <2>. QED
    BY <2>3, <2>4, <2>5, <2>6
<1>4. CASE SetFront
  <2>1. /\ front' = fresh /\ boss = "setFront" /\ boss' = "setBack" /\ front = Null
        /\ UNCHANGED <<live, next, wpc, node, rest>>
        /\ \A w \in Workers : wpc[w] \in Taken => wpc[w] = "free"
    BY <1>4 DEF SetFront, workerVars, Emptied
  <2>2. LinksLive' /\ LinksApart' /\ RestLive' /\ FreshApart' /\ AtFront'
    BY <2>1 DEF LinksLive, LinksApart, RestLive, FreshApart, AtFront, Taken
  <2>3. FrontLive' /\ NodeApart'
    BY <2>1 DEF FrontLive, NodeApart, FreshApart
  <2>. QED
    BY <2>2, <2>3
<1>6. CASE Link
  <2>1. /\ boss = "link" /\ boss' = "setBack" /\ UNCHANGED <<live, front, wpc, node, rest>>
        /\ \A m \in live : next'[m] = next[m] \/ (m = seen /\ next'[m] = fresh)
    BY <1>6 DEF Link, workerVars, MayPass
  <2>2. LinksLive' /\ LinksApart' /\ FreshApart' /\ AtFront'
    BY <2>1 DEF LinksLive, LinksApart, FreshApart, AtFront
  <2>3. FrontLive' /\ RestLive' /\ NodeApart'
    BY <2>1 DEF FrontLive, RestLive, NodeApart, FreshApart
  <2>. QED
    BY <2>2, <2>3
<1>7. CASE RejectCall \/ TestBack \/ LoadBack \/ SetBack \/ BossLoadN \/ BossStoreN
  <2>1. /\ UNCHANGED <<front, live, next, wpc, node, rest, fresh>>
        /\ NotLinkedYet' => NotLinkedYet
    BY <1>7 DEF RejectCall, TestBack, LoadBack, SetBack, BossLoadN, BossStoreN, workerVars, queue
  <2>. QED
    BY <2>1 DEF LinksLive, LinksApart, FreshApart, FrontLive, AtFront, RestLive, NodeApart
<1>. QED
  BY <1>1, <1>4, <1>6, <1>7 DEF BossActions, BossStep

\* The boss puts a request nobody has on a node nobody has.
LEMMA BossRequests == ASSUME IInv, BossActions PROVE Requests'
<1>. USE DEF IInv, Types, Requests, Arrives, BossAt
<1>1. CASE Receive
  <2>1. PICK n \in Nodes : /\ n \notin live /\ live' = live \cup {n}
                           /\ item' = [item EXCEPT ![n] = received']
    BY <1>1 DEF Receive, Allocable
  <2>2. /\ UNCHANGED <<wpc, node, data, answered>> /\ received' = received + 1
        /\ item'[n] = received + 1 /\ \A m \in live : item'[m] = item[m]
    BY <1>1, <2>1 DEF Receive, workerVars
  <2>3. \A m \in live : item[m] # received + 1
    BY <2>2
  <2>4. /\ received + 1 \notin answered
        /\ \A w \in Workers : data[w] # received + 1
    BY <2>2 DEF Null
  <2>5. \A m, k \in live' : item'[m] = item'[k] => m = k
    BY <2>1, <2>2, <2>3
  <2>6. \A m \in live' :
           /\ item'[m] \in 1..received' /\ item'[m] \notin answered'
           /\ \A w \in Workers : data'[w] = item'[m] => wpc'[w] \in Taken /\ node'[w] = m
    BY <2>1, <2>2, <2>4
  <2>7. \A w \in Workers : data'[w] # Null => data'[w] \in 1..received'
    BY <2>2
  <2>8. \A c \in answered' : c <= received'
    BY <2>2 DEF Calls
  <2>. QED
    BY <2>2, <2>5, <2>6, <2>7, <2>8
<1>2. CASE RejectCall
  <2>1. /\ UNCHANGED <<wpc, node, data, live, item>> /\ received' = received + 1
        /\ answered' = answered \cup {received + 1}
    BY <1>2 DEF RejectCall, workerVars, queue
  <2>2. /\ \A m \in live : item[m] # received + 1 /\ item[m] \in 1..received'
        /\ \A w \in Workers :
              data[w] # received + 1 /\ (data[w] # Null => data[w] \in 1..received')
        /\ \A c \in answered' : c <= received'
    BY <2>1 DEF Null, Calls
  <2>. QED
    BY <2>1, <2>2
<1>3. CASE BossStep
  <2>1. UNCHANGED <<live, item, received, answered, wpc, node, data>>
    BY <1>3 DEF BossStep, TestBack, SetFront, LoadBack, Link, SetBack, BossLoadN, BossStoreN,
                workerVars, queue
  <2>. QED
    BY <2>1
<1>. QED
  BY <1>1, <1>2, <1>3 DEF BossActions

\* A worker keeps the types.
LEMMA WorkerTypes == ASSUME IInv, NEW w \in Workers, WorkerStep(w) PROVE Types'
<1>. USE DEF IInv, Types, At, Go, Pointer, Nodes, Calls, Request, Null, WorkerPC
<1>1. CASE Lock(w) \/ TestEmpty(w)
  BY <1>1 DEF Lock, TestEmpty, bossVars, queue
<1>2. CASE Pop(w)
  BY ZenonT(60), <1>2 DEF Pop, bossVars, queue
<1>3. CASE LoadNext(w)
  BY <1>3 DEF LoadNext, Unlinked, AtFront, Heap, bossVars, queue
<1>4. CASE MoveFront(w)
  BY <1>4 DEF MoveFront, bossVars
<1>5. CASE TestFront(w)
  BY <1>5 DEF TestFront, AfterUnlink, bossVars, queue
<1>6. CASE ClearBack(w) \/ FreeNode(w)
  BY <1>6 DEF ClearBack, FreeNode, bossVars
<1>7. CASE LoadN(w)
  BY <1>7 DEF LoadN, bossVars, queue
<1>8. CASE StoreN(w)
  BY <1>8 DEF StoreN, bossVars
<1>9. CASE Minify(w)
  <2>1. /\ UNCHANGED <<queue, bossVars, node, data, rest, workN, mylock>>
        /\ wpc[w] = "minify" /\ wpc' \in [Workers -> WorkerPC]
        /\ answered' = answered \/ answered' = answered \cup {data[w]}
    BY <1>9 DEF Minify
  <2>2. data[w] \in Calls
    BY <2>1 DEF Requests
  <2>. QED
    BY <2>1, <2>2 DEF bossVars, queue
<1>10. CASE Cleanup(w)
  BY <1>10 DEF Cleanup, bossVars, queue
<1>. QED
  BY <1>1, <1>2, <1>3, <1>4, <1>5, <1>6, <1>7, <1>8, <1>9, <1>10 DEF WorkerStep

\* A worker is in the steque with mylock only, and leaves back NULL only with
\* front.
LEMMA WorkerEmptied == ASSUME IInv, NEW w \in Workers, WorkerStep(w) PROVE Mutex' /\ Emptied'
<1>. USE DEF IInv, Types, At, Go, Null, Inside, Taken
<1>. Null \notin Workers
  BY ServerAssumption
<1>1. CASE Lock(w) \/ TestEmpty(w)
  BY <1>1 DEF Lock, LockFree, TestEmpty, bossVars, queue, Mutex, Emptied
<1>2. CASE Pop(w)
  BY <1>2 DEF Pop, bossVars, queue, Mutex, Emptied
<1>3. CASE LoadNext(w)
  BY <1>3 DEF LoadNext, bossVars, queue, Mutex, Emptied
<1>4. CASE MoveFront(w)
  BY <1>4 DEF MoveFront, bossVars, Mutex, Emptied
<1>5. CASE TestFront(w)
  BY <1>5 DEF TestFront, AfterUnlink, bossVars, queue, Mutex, Emptied
<1>6. CASE ClearBack(w)
  BY <1>6 DEF ClearBack, bossVars, Mutex, Emptied
<1>7. CASE FreeNode(w) \/ LoadN(w)
  BY <1>7 DEF FreeNode, LoadN, bossVars, queue, Mutex, Emptied
<1>8. CASE StoreN(w)
  BY <1>8 DEF StoreN, bossVars, Mutex, Emptied
<1>9. CASE Minify(w) \/ Cleanup(w)
  BY <1>9 DEF Minify, Cleanup, bossVars, queue, Mutex, Emptied
<1>. QED
  BY <1>1, <1>2, <1>3, <1>4, <1>5, <1>6, <1>7, <1>8, <1>9 DEF WorkerStep

\* A worker takes the first node of the list and moves front to the next.
LEMMA WorkerHeap == ASSUME IInv, NEW w \in Workers, WorkerStep(w) PROVE Heap'
<1>. USE DEF IInv, Types, Heap, At, Go, NotLinkedYet, Unreached, Taken, Out
<1>0. ASSUME wpc[w] \in Inside PROVE \A v \in Workers : v # w => wpc[v] \notin Inside
  BY <1>0 DEF Mutex
<1>1. CASE Lock(w) \/ TestEmpty(w) \/ Minify(w) \/ Cleanup(w) \/ LoadN(w) \/ StoreN(w)
  <2>1. /\ UNCHANGED <<front, live, next, boss, fresh, node, rest>>
        /\ wpc[w] \notin Taken /\ wpc'[w] \notin Taken
        /\ \A v \in Workers : v # w => wpc'[v] = wpc[v]
    BY <1>1 DEF Lock, TestEmpty, Minify, Cleanup, LoadN, StoreN, bossVars, queue
  <2>. QED
    BY <2>1 DEF LinksLive, LinksApart, FreshApart, FrontLive, AtFront, RestLive, NodeApart
<1>2. CASE Pop(w)
  <2>1. /\ UNCHANGED <<front, live, next, boss, fresh, rest>>
        /\ \A v \in Workers : v # w => wpc'[v] = wpc[v] /\ node'[v] = node[v]
        /\ wpc[w] = "pop"
        /\ \/ wpc' = wpc /\ node' = node
           \/ wpc'[w] = "loadNext" /\ node'[w] = front /\ front # Null
    BY <1>2 DEF Pop, bossVars, queue
  <2>2. \A v \in Workers : wpc[v] \notin Taken
    BY <2>1, <1>0 DEF Inside
  <2>3. LinksLive' /\ LinksApart' /\ FreshApart' /\ FrontLive'
    BY <2>1, <2>2 DEF LinksLive, LinksApart, FreshApart, FrontLive
  <2>4. AtFront' /\ RestLive'
    BY <2>1, <2>2 DEF AtFront, RestLive
  <2>5. NodeApart'
    BY <2>1, <2>2 DEF NodeApart, FrontLive
  <2>. QED
    BY <2>3, <2>4, <2>5
<1>3. CASE LoadNext(w)
  <2>1. /\ UNCHANGED <<front, live, next, boss, fresh, node>>
        /\ \A v \in Workers : v # w => wpc'[v] = wpc[v] /\ rest'[v] = rest[v]
        /\ wpc[w] = "loadNext" /\ wpc'[w] = "setFront"
        /\ rest'[w] = next[front] /\ front # Null /\ node[w] = front /\ front \in live
    BY <1>3 DEF LoadNext, Unlinked, AtFront, FrontLive, bossVars, queue
  <2>2. \A v \in Workers : v # w => wpc[v] \notin Taken
    BY <2>1, <1>0 DEF Inside
  <2>3. LinksLive' /\ LinksApart' /\ FrontLive' /\ AtFront' /\ NodeApart'
    BY <2>1, <2>2 DEF LinksLive, LinksApart, FrontLive, AtFront, NodeApart
  <2>4. FreshApart'
    BY <2>1, <2>2 DEF FreshApart
  <2>5. RestLive'
    BY <2>1, <2>2 DEF RestLive, LinksLive, LinksApart, NodeApart
  <2>. QED
    BY <2>3, <2>4, <2>5
<1>4. CASE MoveFront(w)
  <2>1. /\ UNCHANGED <<live, next, boss, fresh, node, rest>>
        /\ \A v \in Workers : v # w => wpc'[v] = wpc[v]
        /\ wpc[w] = "setFront" /\ wpc'[w] = "testFront" /\ front' = rest[w]
    BY <1>4 DEF MoveFront, bossVars
  <2>2. \A v \in Workers : v # w => wpc[v] \notin Taken
    BY <2>1, <1>0 DEF Inside
  <2>3. LinksLive' /\ LinksApart' /\ AtFront' /\ RestLive' /\ FreshApart'
    BY <2>1, <2>2 DEF LinksLive, LinksApart, AtFront, RestLive, FreshApart
  <2>4. FrontLive'
    BY <2>1, <2>2 DEF FrontLive, RestLive
  <2>5. node[w] # rest[w]
    BY <2>1 DEF RestLive, AtFront
  <2>6. NodeApart'
    BY <2>1, <2>2, <2>5 DEF NodeApart
  <2>. QED
    BY <2>3, <2>4, <2>6
<1>5. CASE TestFront(w) \/ ClearBack(w)
  <2>1. /\ UNCHANGED <<front, live, next, boss, fresh, node, rest>>
        /\ \A v \in Workers : v # w => wpc'[v] = wpc[v]
        /\ wpc[w] \in Out /\ wpc'[w] \in Out
    BY <1>5 DEF TestFront, AfterUnlink, ClearBack, bossVars, queue
  <2>2. LinksLive' /\ LinksApart' /\ AtFront' /\ RestLive' /\ FreshApart'
    BY <2>1 DEF LinksLive, LinksApart, AtFront, RestLive, FreshApart
  <2>3. FrontLive'
    BY <2>1 DEF FrontLive
  <2>4. NodeApart'
    BY <2>1 DEF NodeApart
  <2>. QED
    BY <2>2, <2>3, <2>4
<1>6. CASE FreeNode(w)
  <2>1. /\ UNCHANGED <<front, next, boss, fresh, node, rest>> /\ live' = live \ {node[w]}
        /\ \A v \in Workers : v # w => wpc'[v] = wpc[v]
        /\ wpc[w] = "free" /\ wpc'[w] = "loadN"
    BY <1>6 DEF FreeNode, bossVars
  <2>2. \A v \in Workers : v # w => wpc[v] \notin Taken
    BY <2>1, <1>0 DEF Inside
  <2>3. Unreached(node[w]) /\ front # node[w]
    BY <2>1 DEF NodeApart
  <2>4. LinksLive' /\ LinksApart' /\ FreshApart'
    BY <2>1, <2>2, <2>3 DEF LinksLive, LinksApart, FreshApart
  <2>5. FrontLive'
    BY <2>1, <2>2, <2>3 DEF FrontLive
  <2>6. AtFront' /\ RestLive' /\ NodeApart'
    BY <2>1, <2>2 DEF AtFront, RestLive, NodeApart
  <2>. QED
    BY <2>4, <2>5, <2>6
<1>. QED
  BY <1>1, <1>2, <1>3, <1>4, <1>5, <1>6 DEF WorkerStep

\* A request goes from its node to one worker, and from it to its client.
LEMMA WorkerRequests == ASSUME IInv, NEW w \in Workers, WorkerStep(w) PROVE Requests'
<1>. USE DEF IInv, Types, Requests, At, Go, Taken
<1>1. CASE Lock(w) \/ TestEmpty(w)
  BY <1>1 DEF Lock, TestEmpty, bossVars, queue
<1>2. CASE Pop(w)
  <2>1. CASE front # Null
    <3>1. /\ UNCHANGED <<live, item, answered, received>> /\ front \in live
          /\ wpc[w] = "pop" /\ wpc'[w] = "loadNext" /\ node'[w] = front
          /\ data'[w] = item[front]
          /\ \A v \in Workers : v # w =>
                wpc'[v] = wpc[v] /\ node'[v] = node[v] /\ data'[v] = data[v]
      BY <1>2, <2>1 DEF Pop, Heap, FrontLive, bossVars, queue
    <3>2. \A v \in Workers : wpc[v] \notin Taken
      BY <3>1 DEF Mutex, Inside
    <3>3. \A v \in Workers, n \in live : data[v] # item[n]
      BY <3>2
    <3>4. item[front] # Null
      BY <3>1 DEF Null
    <3>. QED
      BY <3>1, <3>2, <3>3, <3>4
  <2>2. CASE front = Null
    BY <1>2, <2>2 DEF Pop, bossVars, queue
  <2>. QED
    BY <2>1, <2>2
<1>3. CASE LoadNext(w)
  BY <1>3 DEF LoadNext, bossVars, queue
<1>4. CASE MoveFront(w) \/ TestFront(w) \/ ClearBack(w)
  BY <1>4 DEF MoveFront, TestFront, AfterUnlink, ClearBack, bossVars, queue
<1>6. CASE FreeNode(w)
  BY <1>6 DEF FreeNode, bossVars
<1>7. CASE LoadN(w) \/ StoreN(w)
  BY <1>7 DEF LoadN, StoreN, bossVars, queue
<1>8. CASE Minify(w)
  <2>1. CASE server' = "badImage"
    BY <1>8, <2>1 DEF Minify, bossVars, queue
  <2>2. CASE server' # "badImage"
    <3>1. /\ UNCHANGED <<live, item, received, node, data>>
          /\ answered' = answered \cup {data[w]} /\ wpc[w] = "minify" /\ wpc'[w] = "cleanup"
          /\ \A v \in Workers : v # w => wpc'[v] = wpc[v]
      BY <1>8, <2>2 DEF Minify, bossVars, queue
    <3>2. data[w] # Null /\ data[w] \in 1..received /\ \A n \in live : item[n] # data[w]
      BY <3>1
    <3>3. \A v \in Workers : v # w => data[v] # data[w]
      BY <3>2
    <3>. QED
      BY <3>1, <3>2, <3>3
  <2>. QED
    BY <2>1, <2>2
<1>9. CASE Cleanup(w)
  <2>1. /\ UNCHANGED <<live, item, received, node, answered>>
        /\ data'[w] = Null /\ wpc[w] = "cleanup" /\ wpc'[w] = "lock"
        /\ \A v \in Workers : v # w => wpc'[v] = wpc[v] /\ data'[v] = data[v]
    BY <1>9 DEF Cleanup, bossVars, queue
  <2>2. Null \notin answered /\ \A n \in live : item[n] # Null
    BY DEF Null, Calls
  <2>. QED
    BY <2>1, <2>2
<1>. QED
  BY <1>1, <1>2, <1>3, <1>4, <1>6, <1>7, <1>8, <1>9 DEF WorkerStep

\* A step that changes nothing.
LEMMA StutterKeeps == ASSUME IInv, UNCHANGED vars PROVE IInv'
<1>. USE DEF vars, queue, bossVars, workerVars, IInv
<1>1. Types' /\ Mutex' /\ Emptied'
  BY DEF Types, Mutex, Emptied
<1>2. Heap'
  BY DEF Heap, LinksLive, LinksApart, FreshApart, NotLinkedYet, FrontLive, AtFront, RestLive,
         NodeApart, Unreached
<1>3. Requests'
  BY DEF Requests
<1>. QED
  BY <1>1, <1>2, <1>3

\* Every step.
LEMMA NextKeeps == ASSUME IInv, Next PROVE IInv'
<1>1. CASE BossActions
  BY <1>1, BossTypes, BossEmptied, BossHeap, BossRequests DEF IInv
<1>2. CASE \E w \in Workers : WorkerStep(w)
  BY <1>2, WorkerTypes, WorkerEmptied, WorkerHeap, WorkerRequests DEF IInv
<1>. QED
  BY <1>1, <1>2 DEF Next, BossActions

\* However many clients there are.
LEMMA Invariance == Spec => []IInv
<1>1. Init => IInv
  BY InitState
<1>2. IInv /\ [Next]_vars => IInv'
  BY NextKeeps, StutterKeeps
<1>. QED
  BY <1>1, <1>2, PTL DEF Spec

\* However many clients there are and however the boss races with the workers,
\* no two workers serve one request and none is served after its answer
\* (minifyjpeg_svc.c:65-96 against the unlocked steque_enqueue of the boss).
THEOREM RequestsAreServedOnce == Spec => []ServedOnce
<1>1. IInv => ServedOnce
  BY DEF IInv, Requests, ServedOnce
<1>. QED
  BY <1>1, Invariance, PTL

\* What workers read and free in steque_pop is allocated (steque.c:58-64): lost
\* nodes are never reached again, and what is reached is nobody else's.
THEOREM LiveNodesArePopped == Spec => []PopsLiveNodes
<1>1. IInv => PopsLiveNodes
  BY DEF IInv, Heap, FrontLive, NodeApart, PopsLiveNodes, Taken
<1>. QED
  BY <1>1, Invariance, PTL

(***************************************************************************)
(* One request at a time: where it is, and what the steque is like then.   *)
(***************************************************************************)
AllAnswered == answered = 1..received
LastWaits == received # 0 /\ answered = 1..(received - 1)

Resting(w) == wpc[w] \in {"lock", "test", "cleanup"}
Alone(w) == \A v \in Workers : v # w => Resting(v)

\* Node n is the one allocated, and the last request is on it.
Holds(n) == n \in Nodes /\ live = {n} /\ item[n] = received /\ next[n] = Null
Ends(f, b) == front = f /\ back = b

\* No request is under way;
Settled ==
    /\ boss = "idle" /\ AllAnswered /\ \A w \in Workers : Resting(w)
    /\ Ends(Null, Null) /\ live = {} /\ N = 0

\* the boss links it, its store to N the last;
Linking ==
    /\ LastWaits /\ Holds(fresh) /\ N = 0 /\ \A w \in Workers : Resting(w)
    /\ \/ boss \in {"testBack", "setFront"} /\ Ends(Null, Null)
       \/ boss = "setBack" /\ Ends(fresh, Null)
       \/ boss = "loadN" /\ Ends(fresh, fresh)
       \/ boss = "storeN" /\ Ends(fresh, fresh) /\ bossN = 0

\* it is in the queue;
Queued ==
    /\ boss = "idle" /\ LastWaits /\ N = 1
    /\ Holds(front) /\ back = front
    /\ \A w \in Workers : Resting(w) \/ wpc[w] = "pop"

\* worker w takes it out;
Taking(w) ==
    /\ boss = "idle" /\ LastWaits /\ N = 1 /\ Alone(w) /\ data[w] = received
    /\ \/ wpc[w] = "loadNext" /\ Holds(node[w]) /\ Ends(node[w], node[w])
       \/ wpc[w] = "setFront" /\ Holds(node[w]) /\ Ends(node[w], node[w]) /\ rest[w] = Null
       \/ wpc[w] \in {"testFront", "clearBack"} /\ live = {node[w]} /\ front = Null
       \/ wpc[w] = "free" /\ live = {node[w]} /\ Ends(Null, Null)
       \/ wpc[w] = "loadN" /\ live = {} /\ Ends(Null, Null)
       \/ wpc[w] = "storeN" /\ live = {} /\ Ends(Null, Null) /\ workN[w] = 1

\* or reduces its image.
Minifying(w) ==
    /\ boss = "idle" /\ LastWaits /\ N = 0 /\ Alone(w) /\ data[w] = received
    /\ wpc[w] = "minify" /\ live = {} /\ Ends(Null, Null)

OneAtATime == Settled \/ Linking \/ Queued \/ \E w \in Workers : Taking(w) \/ Minifying(w)

\* The counters as loaded, and what ended the server.
Loaded ==
    /\ bossN \in 0..MaxCalls /\ workN \in [Workers -> 0..MaxCalls]
    /\ server \in {"up", "badImage"}

OneInv == IInv /\ OneAtATime /\ Loaded

\* The initial state, with one client.
LEMMA OneInitState == Init => OneInv
<1>. SUFFICES ASSUME Init PROVE OneInv
  OBVIOUS
<1>1. IInv
  BY InitState
<1>2. Settled /\ Loaded
  BY ServerAssumption DEF Init, Settled, AllAnswered, Resting, Ends, Loaded
<1>. QED
  BY <1>1, <1>2 DEF OneInv, OneAtATime

\* With one client, the next request comes when the last one is answered.
LEMMA OneWaitsForAll == ASSUME Outstanding = 1, OneInv, Arrives PROVE Settled
<1>. received \in Nat
  BY DEF OneInv, IInv, Types
<1>1. ASSUME LastWaits PROVE FALSE
  <2>1. received - 1 \in Nat
    BY <1>1 DEF LastWaits
  <2>2. Cardinality(1..(received - 1)) = received - 1
    <3>1. CASE received - 1 = 0
      BY <3>1, FS_Interval
    <3>2. CASE received - 1 # 0
      BY <3>2, <2>1, FS_Interval
    <3>. QED
      BY <3>1, <3>2
  <2>. QED
    BY <1>1, <2>2 DEF LastWaits, Arrives
<1>. QED
  BY <1>1 DEF OneInv, OneAtATime, Linking, Queued, Taking, Minifying

\* The boss links one request into an empty list.
LEMMA BossOne == ASSUME Outstanding = 1, OneInv, BossActions PROVE OneAtATime' /\ Loaded'
<1>. USE DEF OneInv, IInv, Types, Loaded, BossAt, Null, Pointer
<1>0. received \in Nat /\ received <= MaxCalls
  BY ServerAssumption
<1>1. CASE Receive
  <2>1. Settled /\ Arrives
    BY <1>1, OneWaitsForAll DEF Receive
  <2>2. PICK n \in Nodes : /\ fresh' = n /\ live' = live \cup {n}
                           /\ item' = [item EXCEPT ![n] = received']
                           /\ next' = [next EXCEPT ![n] = Null]
    BY <1>1 DEF Receive
  <2>3. /\ UNCHANGED <<front, back, N, bossN, wpc, answered, server, workN>>
        /\ boss' = "testBack" /\ received' = received + 1
    BY <1>1, <2>1 DEF Receive, Arrives, workerVars
  <2>4. Holds(fresh)'
    BY <2>1, <2>2 DEF Settled, Holds
  <2>5. LastWaits'
    BY <2>1, <2>3, <1>0 DEF Settled, AllAnswered, LastWaits
  <2>6. Linking'
    BY <2>1, <2>3, <2>4, <2>5 DEF Settled, Linking, Resting, Ends
  <2>. QED
    BY <2>3, <2>6 DEF OneAtATime
<1>2. CASE RejectCall
  <2>1. Settled /\ Arrives
    BY <1>2, OneWaitsForAll DEF RejectCall
  <2>2. /\ UNCHANGED <<queue, boss, fresh, seen, bossN, workerVars, server>>
        /\ received' = received + 1 /\ answered' = answered \cup {received + 1}
    BY <1>2, <2>1 DEF RejectCall, Arrives
  <2>3. AllAnswered'
    BY <2>1, <2>2, <1>0 DEF Settled, AllAnswered
  <2>4. Settled'
    BY <2>1, <2>2, <2>3 DEF Settled, Resting, Ends, queue, workerVars
  <2>. QED
    BY <2>2, <2>4 DEF OneAtATime, workerVars
<1>3. CASE BossStep
  <2>1. Linking /\ boss \notin {"idle", "loadBack", "link"}
    BY <1>3 DEF BossStep, TestBack, SetFront, LoadBack, Link, SetBack, BossLoadN, BossStoreN,
                OneAtATime, Settled, Linking, Queued, Taking, Minifying
  <2>2. /\ UNCHANGED <<live, item, next, fresh, received, wpc, answered, server, workN>>
    BY <1>3, <2>1 DEF BossStep, TestBack, SetFront, LoadBack, Link, SetBack, BossLoadN, BossStoreN,
                      workerVars, queue
  <2>3. LastWaits' /\ Holds(fresh)' /\ \A w \in Workers : Resting(w)'
    BY <2>1, <2>2 DEF Linking, LastWaits, Holds, Resting
  <2>4. CASE TestBack
    <3>1. boss' = "setFront" /\ UNCHANGED <<front, back, N, bossN>>
      BY <2>1, <2>4 DEF TestBack, Linking, Ends, queue
    <3>. QED
      BY <2>1, <2>2, <2>3, <2>4, <3>1 DEF TestBack, Linking, Ends, OneAtATime
  <2>5. CASE SetFront
    BY <2>1, <2>2, <2>3, <2>5 DEF SetFront, Linking, Ends, OneAtATime
  <2>6. CASE SetBack
    BY <2>1, <2>2, <2>3, <2>6 DEF SetBack, Linking, Ends, OneAtATime
  <2>7. CASE BossLoadN
    BY <2>1, <2>2, <2>3, <2>7, ServerAssumption DEF BossLoadN, Linking, Ends, OneAtATime, queue
  <2>8. CASE BossStoreN
    <3>1. /\ boss' = "idle" /\ N' = 1 /\ front' = fresh /\ back' = fresh /\ bossN' = bossN
      BY <2>1, <2>8 DEF BossStoreN, Counted, Linking, Ends
    <3>2. Queued'
      BY <2>2, <2>3, <3>1 DEF Queued, Holds
    <3>. QED
      BY <2>2, <3>1, <3>2 DEF OneAtATime
  <2>. QED
    BY <1>3, <2>1, <2>4, <2>5, <2>6, <2>7, <2>8 DEF BossStep, LoadBack, Link
<1>. QED
  BY <1>1, <1>2, <1>3 DEF BossActions

\* Workers that wait or clean up change nothing; the one that takes the request
\* leaves an empty list behind.
LEMMA WorkerOne ==
  ASSUME OneInv, NEW w \in Workers, WorkerStep(w) PROVE OneAtATime' /\ Loaded'
<1>. USE DEF OneInv, IInv, Types, Loaded, At, Go, Null
<1>0. received \in Nat /\ MaxCalls \in Nat /\ received <= MaxCalls /\ Null \notin Workers
  BY ServerAssumption
<1>a. ASSUME wpc[w] \in Inside PROVE \A v \in Workers : v # w => wpc[v] \notin Inside
  BY <1>a DEF Mutex
<1>1. CASE Lock(w) \/ (TestEmpty(w) /\ N = 0) \/ Cleanup(w)
  <2>1. /\ UNCHANGED <<front, back, N, item, next, live, boss, fresh, bossN, received,
                       node, rest, workN, answered, server>>
        /\ wpc[w] \in {"lock", "test", "cleanup"} /\ wpc'[w] \in {"lock", "test"}
        /\ \A v \in Workers : v # w => wpc'[v] = wpc[v] /\ data'[v] = data[v]
    BY <1>1 DEF Lock, TestEmpty, Cleanup, bossVars, queue
  <2>2. ASSUME Settled PROVE Settled'
    BY <2>1, <2>2 DEF Settled, AllAnswered, Resting, Ends
  <2>3. ASSUME Linking PROVE Linking'
    BY <2>1, <2>3 DEF Linking, LastWaits, Resting, Ends, Holds
  <2>4. ASSUME Queued PROVE Queued'
    BY <2>1, <2>4 DEF Queued, LastWaits, Resting, Holds
  <2>5. ASSUME NEW v \in Workers, Taking(v) PROVE Taking(v)'
    BY <2>1, <2>5 DEF Taking, LastWaits, Alone, Resting, Holds, Ends
  <2>6. ASSUME NEW v \in Workers, Minifying(v) PROVE Minifying(v)'
    BY <2>1, <2>6 DEF Minifying, LastWaits, Alone, Resting, Ends
  <2>. QED
    BY <2>1, <2>2, <2>3, <2>4, <2>5, <2>6 DEF OneAtATime
<1>2. CASE TestEmpty(w) /\ N # 0
  <2>1. /\ UNCHANGED <<front, back, N, item, next, live, boss, fresh, bossN, received,
                       workN, answered, server>>
        /\ wpc[w] = "test" /\ wpc'[w] = "pop"
        /\ \A v \in Workers : v # w => wpc'[v] = wpc[v]
    BY <1>2 DEF TestEmpty, bossVars, queue
  <2>2. Queued
    BY <1>2, <1>a, <2>1 DEF OneAtATime, Settled, Linking, Taking, Minifying, Inside
  <2>3. Queued'
    BY <2>1, <2>2 DEF Queued, LastWaits, Resting, Holds
  <2>. QED
    BY <2>1, <2>3 DEF OneAtATime
<1>3. CASE Pop(w)
  <2>0. wpc[w] = "pop" /\ ~Resting(w)
    BY <1>3 DEF Pop, Resting
  <2>a. ASSUME NEW v \in Workers, Taking(v) \/ Minifying(v) PROVE FALSE
    <3>1. v = w
      BY <2>0, <2>a DEF Taking, Minifying, Alone
    <3>. QED
      BY <2>0, <2>a, <3>1 DEF Taking, Minifying
  <2>1. Queued
    BY <2>0, <2>a DEF OneAtATime, Settled, Linking
  <2>2. /\ UNCHANGED <<front, back, N, item, next, live, boss, fresh, bossN, received,
                       workN, answered, server>>
        /\ wpc[w] = "pop" /\ wpc'[w] = "loadNext" /\ node'[w] = front /\ data'[w] = item[front]
        /\ \A v \in Workers : v # w => wpc'[v] = wpc[v]
    BY <1>3, <2>1 DEF Pop, Queued, Holds, Nodes, bossVars, queue
  <2>3. Alone(w)'
    BY <1>a, <2>1, <2>2 DEF Queued, Alone, Resting, Inside
  <2>4. Taking(w)'
    BY <2>1, <2>2, <2>3 DEF Queued, Taking, LastWaits, Holds, Ends
  <2>. QED
    BY <2>2, <2>4 DEF OneAtATime
<1>4. CASE wpc[w] \in Taken \cup {"loadN", "storeN"}
  <2>1. Taking(w)
    BY <1>4, <1>a DEF OneAtATime, Settled, Linking, Queued, Taking, Minifying, Alone, Resting,
                      Inside, Taken
  <2>2. /\ UNCHANGED <<item, next, boss, fresh, bossN, received, answered, server, node, data>>
        /\ \A v \in Workers : v # w => wpc'[v] = wpc[v]
    BY <1>4 DEF WorkerStep, Lock, TestEmpty, Pop, LoadNext, MoveFront, TestFront, ClearBack,
                FreeNode, LoadN, StoreN, Minify, Cleanup, bossVars, queue, Taken
  <2>3. LastWaits' /\ Alone(w)' /\ boss' = "idle" /\ data'[w] = received'
    BY <2>1, <2>2 DEF Taking, LastWaits, Alone, Resting
  <2>4. CASE LoadNext(w)
    BY <2>1, <2>2, <2>3, <2>4
       DEF LoadNext, Unlinked, Taking, Holds, Ends, OneAtATime, queue
  <2>5. CASE MoveFront(w)
    BY <2>1, <2>2, <2>3, <2>5 DEF MoveFront, Taking, Holds, Ends, OneAtATime
  <2>6. CASE TestFront(w)
    BY <2>1, <2>2, <2>3, <2>6 DEF TestFront, AfterUnlink, Taking, OneAtATime, queue
  <2>7. CASE ClearBack(w)
    BY <2>1, <2>2, <2>3, <2>7 DEF ClearBack, Taking, Ends, OneAtATime
  <2>8. CASE FreeNode(w)
    BY <2>1, <2>2, <2>3, <2>8 DEF FreeNode, Taking, Ends, OneAtATime
  <2>9. CASE LoadN(w)
    <3>1. /\ UNCHANGED queue /\ wpc[w] = "loadN" /\ wpc'[w] = "storeN"
          /\ N = 1 /\ workN' = [workN EXCEPT ![w] = 1]
      BY <2>1, <2>9 DEF LoadN, Taking
    <3>2. 1 \in 0..MaxCalls
      BY <1>0, <2>1 DEF Taking, LastWaits
    <3>3. Taking(w)'
      BY <2>1, <2>3, <3>1 DEF Taking, Ends, queue
    <3>. QED
      BY <2>2, <3>1, <3>2, <3>3 DEF OneAtATime
  <2>10. CASE StoreN(w)
    BY <2>1, <2>2, <2>3, <2>10 DEF StoreN, Taking, Minifying, Ends, OneAtATime
  <2>. QED
    BY <1>4, <2>4, <2>5, <2>6, <2>7, <2>8, <2>9, <2>10
       DEF WorkerStep, Lock, TestEmpty, Pop, Minify, Cleanup, Taken
<1>5. CASE Minify(w)
  <2>1. Minifying(w)
    BY <1>5 DEF Minify, OneAtATime, Settled, Linking, Queued, Taking, Minifying, Alone, Resting
  <2>2. /\ UNCHANGED <<queue, bossVars, data, workN>>
        /\ \A v \in Workers : v # w => wpc'[v] = wpc[v]
    BY <1>5 DEF Minify
  <2>3. CASE server' = "badImage" /\ UNCHANGED <<answered, wpc>>
    <3>1. Minifying(w)'
      BY <2>1, <2>2, <2>3 DEF Minifying, LastWaits, Alone, Resting, Ends, queue, bossVars
    <3>. QED
      BY <2>2, <2>3, <3>1 DEF OneAtATime, bossVars
  <2>4. CASE UNCHANGED server /\ answered' = answered \cup {data[w]} /\ wpc'[w] = "cleanup"
    <3>1. AllAnswered'
      BY <1>0, <2>1, <2>2, <2>4 DEF Minifying, LastWaits, AllAnswered, bossVars
    <3>2. Settled'
      BY <2>1, <2>2, <2>4, <3>1 DEF Minifying, Settled, Alone, Resting, Ends, queue, bossVars
    <3>. QED
      BY <2>2, <2>4, <3>2 DEF OneAtATime, bossVars
  <2>. QED
    BY <1>5, <2>3, <2>4 DEF Minify
<1>6. CASE \/ LoadNext(w) \/ MoveFront(w) \/ TestFront(w) \/ ClearBack(w) \/ FreeNode(w)
            \/ LoadN(w) \/ StoreN(w)
  <2>1. wpc[w] \in Taken \cup {"loadN", "storeN"}
    BY <1>6 DEF LoadNext, MoveFront, TestFront, ClearBack, FreeNode, LoadN, StoreN, Taken
  <2>. QED
    BY <1>4, <2>1
<1>. QED
  <2>. HIDE DEF OneInv, IInv, Types, Loaded, At, Go, Null
  <2>. QED
    BY <1>1, <1>2, <1>3, <1>5, <1>6 DEF WorkerStep

\* A step that changes nothing.
LEMMA OneStutterKeeps == ASSUME OneInv, UNCHANGED vars PROVE OneInv'
<1>. USE DEF vars, queue, bossVars, workerVars
<1>1. IInv'
  BY StutterKeeps DEF OneInv
<1>2. Loaded'
  BY DEF OneInv, Loaded
<1>3. OneAtATime'
  BY DEF OneInv, OneAtATime, Settled, Linking, Queued, Taking, Minifying, AllAnswered, LastWaits,
         Resting, Alone, Holds, Ends
<1>. QED
  BY <1>1, <1>2, <1>3 DEF OneInv

\* With one client.
LEMMA OneInvariance == ASSUME Outstanding = 1 PROVE Spec => []OneInv
<1>1. Init => OneInv
  BY OneInitState
<1>2. ASSUME OneInv, Next PROVE OneInv'
  <2>1. IInv'
    BY <1>2, NextKeeps DEF OneInv
  <2>2. OneAtATime' /\ Loaded'
    BY <1>2, BossOne, WorkerOne DEF Next, BossActions
  <2>. QED
    BY <2>1, <2>2 DEF OneInv
<1>3. OneInv /\ [Next]_vars => OneInv'
  BY <1>2, OneStutterKeeps
<1>. QED
  BY <1>1, <1>3, PTL DEF Spec

\* With one request at a time the counter of the steque never leaves its range
\* and every pointer is one (steque.c:11-25, :49-69).  With two it may go below 0.
THEOREM TypeCorrect == ASSUME Outstanding = 1 PROVE Spec => []TypeOK
<1>1. OneInv => TypeOK
  <2>. SUFFICES ASSUME OneInv PROVE TypeOK
    OBVIOUS
  <2>1. N \in 0..MaxCalls
    <3>1. received \in 0..MaxCalls /\ MaxCalls \in Nat
      BY ServerAssumption DEF OneInv, IInv, Types
    <3>. QED
      BY <3>1 DEF OneInv, OneAtATime, Settled, Linking, Queued, Taking, Minifying, LastWaits
  <2>. QED
    BY <2>1 DEF OneInv, IInv, Types, Loaded, TypeOK
<1>. QED
  BY <1>1, OneInvariance, PTL

\* With one request at a time the unlocked enqueue does no harm to the server: no
\* underflow, no store through NULL or into a freed node (steque.c:14-20, :52-55).
THEOREM NothingKillsTheServer == ASSUME Outstanding = 1 PROVE Spec => []QueueNeverKills
<1>1. OneInv => QueueNeverKills
  BY DEF OneInv, Loaded, QueueNeverKills
<1>. QED
  BY <1>1, OneInvariance, PTL

\* An empty list.
LEMMA NothingLinked == ASSUME front = Null PROVE Linked = {}
<1>1. Closed({Null}) /\ {Null} \in SUBSET Pointer
  BY DEF Closed, Nodes, Null, Pointer
<1>2. \A n \in Nodes : n # Null
  BY DEF Nodes, Null
<1>. QED
  BY <1>1, <1>2 DEF Linked

\* A list of one node.
LEMMA OneLinked == ASSUME front \in Nodes, next[front] = Null PROVE Linked = {front}
<1>1. Closed({front, Null}) /\ {front, Null} \in SUBSET Pointer
  BY DEF Closed, Nodes, Null, Pointer
<1>2. \A n \in Nodes : n # Null
  BY DEF Nodes, Null
<1>. QED
  BY <1>1, <1>2 DEF Linked

\* With one request at a time, whenever the steque is at rest its list, its back
\* and its N agree with the requests still to be taken (minifyjpeg_svc.c:60-79).
THEOREM QueueStaysIntact == ASSUME Outstanding = 1 PROVE Spec => []QueueIntact
<1>1. ASSUME OneInv, boss = "idle", mylock = Null
      PROVE  /\ Linked \subseteq live
             /\ {item[n] : n \in Linked} = Pending
             /\ N = Cardinality(Pending) /\ N = Cardinality(Linked)
             /\ IF Linked = {} THEN back = Null ELSE back \in Linked /\ next[back] = Null
  <2>. USE <1>1 DEF OneInv
  <2>1. received \in Nat /\ \A w \in Workers : wpc[w] \notin Inside
    BY ServerAssumption DEF IInv, Types, Mutex, Null
  <2>2. CASE Settled \/ \E w \in Workers : Minifying(w)
    <3>1. Ends(Null, Null) /\ N = 0
      BY <2>2 DEF Settled, Minifying
    <3>2. Linked = {}
      BY <3>1, NothingLinked DEF Ends
    <3>3. Pending = {}
      BY <2>1, <2>2 DEF Settled, AllAnswered, Minifying, LastWaits, Pending
    <3>. QED
      BY <3>1, <3>2, <3>3, FS_EmptySet DEF Ends
  <2>3. CASE Queued
    <3>1. Linked = {front} /\ front \in live /\ item[front] = received
      BY <2>3, OneLinked DEF Queued, Holds
    <3>2. \A w \in Workers : data[w] # received
      BY <2>1, <3>1 DEF IInv, Requests, Taken, Inside
    <3>3. Pending = {received}
      BY <2>1, <2>3, <3>2 DEF Queued, LastWaits, Pending
    <3>. QED
      BY <2>3, <3>1, <3>3, FS_Singleton DEF Queued, Holds
  <2>4. ASSUME NEW w \in Workers, Taking(w) PROVE FALSE
    BY <2>1, <2>4 DEF Taking, Inside
  <2>5. ASSUME Linking PROVE FALSE
    BY <2>5 DEF Linking
  <2>. QED
    BY <2>2, <2>3, <2>4, <2>5 DEF OneAtATime
<1>2. OneInv => QueueIntact
  BY <1>1 DEF QueueIntact
<1>. QED
  BY <1>2, OneInvariance, PTL
===============================================================================
