--------------------------- MODULE MinifyRpcProofs ---------------------------
(***************************************************************************)
(* What MinifyRpc promises, for any number of threads, images and workers. *)
(***************************************************************************)
EXTENDS MinifyRpc, FiniteSetTheorems, SequenceTheorems, TLAPS

(***************************************************************************)
(* The inductive invariant.  The types, with those TypeOK leaves out.      *)
(***************************************************************************)
Types ==
    /\ missing \subseteq Files /\ refused \subseteq Files
    /\ queue \in Seq(Files) /\ created \in Nat /\ joined \in Nat
    /\ joined <= created /\ created <= Threads
    /\ pc \in [Thread -> {"new", "top", "read", "wait", "ended"}]
    /\ req \in [Thread -> Files \cup {None}] /\ code \in [Thread -> Codes]
    /\ result \in Codes /\ exit \in {"running", "success", "failure", "killed"}
    /\ output \in [Files -> Files \cup {None}] /\ owner \in [Files -> 0..Threads]
    /\ late \subseteq Thread /\ erred \subseteq Thread
    /\ up \in [Thread -> Seq(CallMsg)] /\ down \in [Thread -> Seq(ReplyMsg)]
    /\ calls \in [Thread -> Nat] /\ alive \in BOOLEAN /\ xid \in [Thread -> Nat]
    /\ freed \subseteq Thread /\ workqueue \in Seq(WorkItem)
    /\ job \in [Workers -> WorkItem \cup {None}]
    /\ adding \in WorkItem \cup {None} /\ popping \in Workers \cup {None}
    /\ damaged \in BOOLEAN /\ (adding # None /\ popping # None => damaged)

\* Where the threads are.
Placed ==
    \A t \in Thread :
        /\ pc[t] = "new" <=> t > created
        /\ t <= joined => pc[t] = "ended"
        /\ pc[t] = "new" => req[t] = None
        /\ pc[t] \in {"read", "wait"} => req[t] \in Files
        /\ pc[t] = "ended" => queue = << >>

\* Each file is taken once, by its owner.
Taken ==
    /\ \A t \in Thread : req[t] # None => owner[req[t]] = t
    /\ \A i \in DOMAIN queue : owner[queue[i]] = 0 /\ output[queue[i]] = None
    /\ \A i, j \in DOMAIN queue : queue[i] = queue[j] => i = j

\* What *code and main's code say.
Coded ==
    /\ \A t \in Thread : code[t] # 0 => ~alive \/ late # {} \/ erred # {}
    /\ result # 0 => ~alive \/ late # {} \/ erred # {}
    /\ result = 0 => \A t \in 1..joined : code[t] = 0
    /\ \A t \in Thread : pc[t] \in {"top", "ended"} /\ code[t] = 0 /\ req[t] \in Files \ refused
                         => output[req[t]] # None

\* An xid that has been seen has been given.
Given ==
    \A t \in Thread : xid[t] <= calls[t] /\ \A i \in DOMAIN up[t] : up[t][i].xid <= calls[t]

\* A message about the last call of thread t.
LastCall(t, m) == m.xid = calls[t] /\ m.file = req[t]

\* As long as no call of t timed out, there is one reply at most and it is to
\* the last call,
Answered(t) ==
    /\ Len(down[t]) <= 1 /\ (pc[t] # "wait" => Len(down[t]) = 0)
    /\ \A i \in DOMAIN down[t] : LastCall(t, down[t][i])

\* what a server that runs has of t is the last call,
Fresh(t) ==
    /\ \A i \in DOMAIN up[t] : LastCall(t, up[t][i])
    /\ adding # None /\ adding.transp = t => adding.file = req[t] /\ xid[t] = calls[t]
    /\ \A i \in Queued(t) : workqueue[i].file = req[t] /\ xid[t] = calls[t]
    /\ \A w \in Working(t) : job[w].file = req[t] /\ xid[t] = calls[t]

\* and it has that once, or not at all when the client is gone or pop and
\* enqueue overlapped.
Counted(t) ==
    /\ UnderWay(t) <= 1 /\ (pc[t] # "wait" => UnderWay(t) = 0)
    /\ pc[t] = "wait" /\ exit = "running" /\ ~damaged => UnderWay(t) = 1

InOrder(t) ==
    t \notin late => Answered(t) /\ (alive => Fresh(t) /\ Counted(t))

\* A transport is freed when its client has closed the connection.
FreedIsClosed == \A t \in freed : Closed(t)

IInv ==
    /\ Types /\ Placed /\ Taken /\ Coded /\ Given /\ (\A t \in Thread : InOrder(t))
    /\ FreedIsClosed /\ OutputIsOwn /\ TransportOutlivesCall /\ SuccessIsOfAll

(***************************************************************************)
(* Counting what is under way.                                             *)
(***************************************************************************)
LEMMA CountsFinite ==
    ASSUME Types, NEW t \in Thread
    PROVE  /\ IsFiniteSet(Queued(t)) /\ Cardinality(Queued(t)) \in Nat
           /\ IsFiniteSet(Working(t)) /\ Cardinality(Working(t)) \in Nat
           /\ Len(up[t]) \in Nat /\ Len(down[t]) \in Nat
<1>1. Queued(t) \subseteq 1..Len(workqueue) /\ Len(workqueue) \in Nat
  BY DEF Types, Queued
<1>2. IsFiniteSet(1..Len(workqueue))
  BY <1>1, FS_Interval
<1>3. IsFiniteSet(Queued(t)) /\ IsFiniteSet(Working(t))
  <2>1. Working(t) \subseteq Workers /\ IsFiniteSet(Workers)
    BY RpcAssumption DEF Working
  <2>. QED  BY <1>1, <1>2, <2>1, FS_Subset
<1>4. up[t] \in Seq(CallMsg) /\ down[t] \in Seq(ReplyMsg)
  BY DEF Types
<1>5. Len(up[t]) \in Nat /\ Len(down[t]) \in Nat
  BY <1>4
<1>. QED  BY <1>3, <1>5, FS_CardinalityType

\* The places a call can be in, besides Adding.
InUp(t) == Len(up[t])
InQueue(t) == Cardinality(Queued(t))
AtWork(t) == Cardinality(Working(t))
InDown(t) == Len(down[t])

LEMMA Places ==
    ASSUME NEW t \in Thread
    PROVE  /\ UnderWay(t) = InUp(t) + Adding(t) + InQueue(t) + AtWork(t) + InDown(t)
           /\ UnderWay(t)' = InUp(t)' + Adding(t)' + InQueue(t)' + AtWork(t)' + InDown(t)'
  BY DEF UnderWay, InUp, InQueue, AtWork, InDown

\* Each part is at most the whole, and nothing is nothing anywhere.
LEMMA PartsOfCount ==
    ASSUME Types, NEW t \in Thread
    PROVE  /\ InUp(t) \in Nat /\ Adding(t) \in {0, 1} /\ InQueue(t) \in Nat /\ AtWork(t) \in Nat /\ InDown(t) \in Nat
           /\ InUp(t) = 0 <=> up[t] = << >>
           /\ Adding(t) = 0 <=> ~(adding # None /\ adding.transp = t)
           /\ InQueue(t) = 0 <=> Queued(t) = {}
           /\ AtWork(t) = 0 <=> Working(t) = {}
           /\ InDown(t) = 0 <=> down[t] = << >>
<1>1. InQueue(t) = 0 <=> Queued(t) = {}
  BY CountsFinite, FS_EmptySet DEF InQueue
<1>2. AtWork(t) = 0 <=> Working(t) = {}
  BY CountsFinite, FS_EmptySet DEF AtWork
<1>3. up[t] \in Seq(CallMsg) /\ down[t] \in Seq(ReplyMsg)
  BY DEF Types
<1>4. (InUp(t) = 0 <=> up[t] = << >>) /\ (InDown(t) = 0 <=> down[t] = << >>)
  BY <1>3 DEF InUp, InDown
<1>5. InUp(t) \in Nat /\ InQueue(t) \in Nat /\ AtWork(t) \in Nat /\ InDown(t) \in Nat
  BY CountsFinite DEF InUp, InQueue, AtWork, InDown
<1>6. Adding(t) \in {0, 1} /\ (Adding(t) = 0 <=> ~(adding # None /\ adding.transp = t))
  BY DEF Adding
<1>. QED  BY <1>1, <1>2, <1>4, <1>5, <1>6

\* A request comes to the end of the queue,
LEMMA QueueGrows ==
    ASSUME Types, NEW t \in Thread, NEW m \in WorkItem, workqueue' = Append(workqueue, m)
    PROVE  /\ m.transp = t => InQueue(t)' = InQueue(t) + 1
           /\ m.transp # t => Queued(t)' = Queued(t)
           /\ \A i \in Queued(t)' : \/ i \in Queued(t) /\ workqueue'[i] = workqueue[i]
                                    \/ m.transp = t /\ workqueue'[i] = m
<1>. DEFINE n == Len(workqueue) + 1
<1>1. /\ workqueue \in Seq(WorkItem) /\ Len(workqueue) \in Nat
      /\ DOMAIN workqueue = 1..Len(workqueue)
  BY DEF Types
<1>2. /\ DOMAIN workqueue' = 1..n /\ workqueue'[n] = m
      /\ \A i \in DOMAIN workqueue : workqueue'[i] = workqueue[i]
  BY <1>1
<1>3. n \notin Queued(t) /\ \A i \in 1..n : i \in DOMAIN workqueue \/ i = n
  BY <1>1 DEF Queued
<1>4. ASSUME m.transp = t PROVE Queued(t)' = Queued(t) \cup {n}
  BY <1>1, <1>2, <1>3, <1>4 DEF Queued
<1>5. ASSUME m.transp # t PROVE Queued(t)' = Queued(t)
  BY <1>1, <1>2, <1>3, <1>5 DEF Queued
<1>6. m.transp = t => Cardinality(Queued(t)') = Cardinality(Queued(t)) + 1
  <2>. HIDE DEF n
  <2>. QED  BY <1>3, <1>4, CountsFinite, FS_AddElement
<1>7. \A i \in Queued(t)' : \/ i \in Queued(t) /\ workqueue'[i] = workqueue[i]
                            \/ m.transp = t /\ workqueue'[i] = m
  BY <1>2, <1>3, <1>4, <1>5 DEF Queued
<1>. QED  BY <1>5, <1>6, <1>7 DEF InQueue

\* or is taken from its head, and the others move up.
LEMMA QueueShrinks ==
    ASSUME Types, NEW t \in Thread, workqueue # << >>, workqueue' = Tail(workqueue)
    PROVE  /\ Head(workqueue).transp = t => InQueue(t)' = InQueue(t) - 1
           /\ Head(workqueue).transp # t => InQueue(t)' = InQueue(t)
           /\ Head(workqueue).transp = t => 1 \in Queued(t) /\ workqueue[1] = Head(workqueue)
           /\ \A i \in Queued(t)' : i + 1 \in Queued(t) /\ workqueue'[i] = workqueue[i + 1]
<1>1. /\ workqueue \in Seq(WorkItem) /\ Len(workqueue) \in Nat /\ Len(workqueue) >= 1
      /\ DOMAIN workqueue = 1..Len(workqueue) /\ Head(workqueue) = workqueue[1]
  BY DEF Types
<1>2. /\ DOMAIN workqueue' = 1..(Len(workqueue) - 1)
      /\ \A i \in 1..(Len(workqueue) - 1) : workqueue'[i] = workqueue[i + 1]
  BY <1>1
<1>3. \A i \in Queued(t)' : i \in Nat /\ i + 1 \in Queued(t) \ {1} /\ workqueue'[i] = workqueue[i + 1]
  BY <1>1, <1>2 DEF Queued
<1>4. \A j \in Queued(t) \ {1} : j \in Nat /\ j - 1 \in Queued(t)' /\ (j - 1) + 1 = j
  BY <1>1, <1>2 DEF Queued
<1>. DEFINE f == [i \in Queued(t)' |-> i + 1]
<1>5. f \in Bijection(Queued(t)', Queued(t) \ {1})
  <2>1. f \in [Queued(t)' -> Queued(t) \ {1}]
    BY <1>3
  <2>2. \A a, b \in Queued(t)' : f[a] = f[b] => a = b
    BY <1>3
  <2>3. \A j \in Queued(t) \ {1} : \E i \in Queued(t)' : f[i] = j
    BY <1>4
  <2>. QED  BY <2>1, <2>2, <2>3 DEF Bijection, Injection, Surjection, IsInjective
<1>6. IsFiniteSet(Queued(t)) /\ IsFiniteSet(Queued(t) \ {1}) /\ IsFiniteSet(Queued(t)')
  <2>1. Queued(t)' \subseteq 1..(Len(workqueue) - 1)
    BY <1>2 DEF Queued
  <2>2. IsFiniteSet(1..(Len(workqueue) - 1))
    BY <1>1, FS_Interval
  <2>. QED  BY <2>1, <2>2, CountsFinite, FS_Subset, FS_RemoveElement
<1>7. Cardinality(Queued(t)') = Cardinality(Queued(t) \ {1})
  <2>1. ExistsBijection(Queued(t)', Queued(t) \ {1})
    BY <1>5 DEF ExistsBijection
  <2>. QED  BY <1>6, <2>1, FS_Bijection
<1>8. Head(workqueue).transp = t <=> 1 \in Queued(t)
  BY <1>1 DEF Queued
<1>9. Cardinality(Queued(t) \ {1}) =
        IF 1 \in Queued(t) THEN Cardinality(Queued(t)) - 1 ELSE Cardinality(Queued(t))
  BY <1>6, FS_RemoveElement
<1>. QED  BY <1>1, <1>3, <1>7, <1>8, <1>9 DEF InQueue

LEMMA Removed ==
    ASSUME NEW S, NEW q \in Seq(S), NEW n \in DOMAIN q
    PROVE  /\ RemoveAt(q, n) \in Seq(S) /\ Len(RemoveAt(q, n)) = Len(q) - 1
           /\ \A i \in DOMAIN RemoveAt(q, n) :
                 i \in Nat /\ RemoveAt(q, n)[i] = q[IF i < n THEN i ELSE i + 1]
<1>1. Len(q) \in Nat /\ n \in 1..Len(q) /\ DOMAIN q = 1..Len(q)
  OBVIOUS
<1>2. /\ SubSeq(q, 1, n - 1) \in Seq(S) /\ Len(SubSeq(q, 1, n - 1)) = n - 1
      /\ \A i \in 1..(n - 1) : SubSeq(q, 1, n - 1)[i] = q[i]
  BY <1>1
<1>3. /\ SubSeq(q, n + 1, Len(q)) \in Seq(S) /\ Len(SubSeq(q, n + 1, Len(q))) = Len(q) - n
      /\ \A i \in 1..(Len(q) - n) : SubSeq(q, n + 1, Len(q))[i] = q[n + i]
  BY <1>1
<1>. DEFINE a == SubSeq(q, 1, n - 1)
            b == SubSeq(q, n + 1, Len(q))
<1>4. RemoveAt(q, n) = a \o b
  BY DEF RemoveAt
<1>. HIDE DEF a, b
<1>5. /\ a \o b \in Seq(S) /\ Len(a \o b) = Len(q) - 1 /\ DOMAIN (a \o b) = 1..(Len(q) - 1)
      /\ \A i \in 1..(Len(q) - 1) : (a \o b)[i] = IF i <= n - 1 THEN a[i] ELSE b[i - (n - 1)]
  <2>1. a \in Seq(S) /\ b \in Seq(S) /\ Len(a) = n - 1 /\ Len(b) = Len(q) - n
    BY <1>2, <1>3 DEF a, b
  <2>2. /\ a \o b \in Seq(S) /\ Len(a \o b) = Len(a) + Len(b)
        /\ \A i \in 1..(Len(a) + Len(b)) : (a \o b)[i] = IF i <= Len(a) THEN a[i] ELSE b[i - Len(a)]
    BY <2>1, ConcatProperties
  <2>3. (n - 1) + (Len(q) - n) = Len(q) - 1
    BY <1>1
  <2>4. Len(a \o b) = Len(q) - 1
    BY <2>1, <2>2, <2>3
  <2>5. DOMAIN (a \o b) = 1..(Len(q) - 1)
    BY <2>2, <2>4
  <2>. QED  BY <2>1, <2>2, <2>3, <2>4, <2>5
<1>6. ASSUME NEW i \in 1..(Len(q) - 1) PROVE i \in Nat /\ (a \o b)[i] = q[IF i < n THEN i ELSE i + 1]
  <2>1. CASE i < n
    <3>1. i \in 1..(n - 1) /\ i <= n - 1
      BY <1>1, <2>1
    <3>. QED  BY <1>2, <1>5, <2>1, <3>1 DEF a
  <2>2. CASE ~(i < n)
    <3>1. i - (n - 1) \in 1..(Len(q) - n) /\ ~(i <= n - 1) /\ n + (i - (n - 1)) = i + 1
      BY <1>1, <2>2
    <3>2. b[i - (n - 1)] = q[n + (i - (n - 1))]
      BY <1>3, <3>1 DEF b
    <3>3. b[i - (n - 1)] = q[i + 1]
      BY <3>1, <3>2
    <3>4. (a \o b)[i] = b[i - (n - 1)]
      BY <1>5, <3>1
    <3>. QED  BY <2>2, <3>3, <3>4
  <2>. QED  BY <2>1, <2>2
<1>. QED  BY <1>4, <1>5, <1>6

\* or is lost from anywhere in it.
LEMMA QueueLoses ==
    ASSUME Types, NEW t \in Thread, NEW n \in DOMAIN workqueue,
           workqueue' = RemoveAt(workqueue, n)
    PROVE  /\ InQueue(t)' \in Nat /\ InQueue(t)' <= InQueue(t)
           /\ \A i \in Queued(t)' : \E j \in Queued(t) : workqueue'[i] = workqueue[j]
<1>. DEFINE g(i) == IF i < n THEN i ELSE i + 1
            f == [i \in Queued(t)' |-> g(i)]
<1>1. /\ workqueue \in Seq(WorkItem) /\ Len(workqueue) \in Nat
      /\ DOMAIN workqueue = 1..Len(workqueue) /\ n \in 1..Len(workqueue)
  BY DEF Types
<1>2. /\ workqueue' \in Seq(WorkItem) /\ Len(workqueue') = Len(workqueue) - 1
      /\ DOMAIN workqueue' = 1..(Len(workqueue) - 1)
      /\ \A i \in DOMAIN workqueue' : workqueue'[i] = workqueue[g(i)]
  <2>1. /\ RemoveAt(workqueue, n) \in Seq(WorkItem)
        /\ Len(RemoveAt(workqueue, n)) = Len(workqueue) - 1
        /\ \A i \in DOMAIN RemoveAt(workqueue, n) : RemoveAt(workqueue, n)[i] = workqueue[g(i)]
    BY <1>1, Removed
  <2>. HIDE DEF g
  <2>2. /\ workqueue' \in Seq(WorkItem) /\ Len(workqueue') = Len(workqueue) - 1
        /\ \A i \in DOMAIN workqueue' : workqueue'[i] = workqueue[g(i)]
    BY <2>1
  <2>. QED  BY <2>2
<1>3. \A i \in DOMAIN workqueue' : i \in Nat /\ g(i) \in DOMAIN workqueue
  BY <1>1, <1>2
<1>4. \A i \in Queued(t)' : i \in Nat /\ g(i) \in Queued(t) /\ workqueue'[i] = workqueue[g(i)]
  <2>. HIDE DEF g
  <2>. QED  BY <1>2, <1>3 DEF Queued
<1>5. \A i, j \in Queued(t)' : g(i) = g(j) => i = j
  BY <1>1, <1>4
<1>. HIDE DEF g
<1>6. f \in Injection(Queued(t)', Queued(t))
  BY <1>4, <1>5 DEF Injection, IsInjective
<1>. HIDE DEF f
<1>7. Cardinality(Queued(t)') <= Cardinality(Queued(t)) /\ IsFiniteSet(Queued(t)')
  BY <1>6, CountsFinite, FS_Injection
<1>8. Cardinality(Queued(t)') \in Nat
  BY <1>7, FS_CardinalityType
<1>. QED  BY <1>4, <1>7, <1>8 DEF InQueue

\* A worker turns to a request, and from one.
LEMMA WorkerTurns ==
    ASSUME Types, NEW t \in Thread, NEW w \in Workers, job[w] = None,
           NEW m \in WorkItem, job' = [job EXCEPT ![w] = m]
    PROVE  /\ m.transp = t => AtWork(t)' = AtWork(t) + 1
           /\ m.transp # t => Working(t)' = Working(t)
           /\ \A v \in Working(t)' : \/ v \in Working(t) /\ job'[v] = job[v]
                                     \/ m.transp = t /\ job'[v] = m
<1>1. job'[w] = m /\ m # None /\ w \notin Working(t) /\ \A v \in Workers \ {w} : job'[v] = job[v]
  BY RpcAssumption DEF Types, Working
<1>2. m.transp = t => Working(t)' = Working(t) \cup {w}
  BY <1>1 DEF Working
<1>3. m.transp # t => Working(t)' = Working(t)
  BY <1>1 DEF Working
<1>4. m.transp = t => Cardinality(Working(t)') = Cardinality(Working(t)) + 1
  BY <1>1, <1>2, CountsFinite, FS_AddElement
<1>5. \A v \in Working(t)' : \/ v \in Working(t) /\ job'[v] = job[v]
                             \/ m.transp = t /\ job'[v] = m
  BY <1>1, <1>2, <1>3 DEF Working
<1>. QED  BY <1>3, <1>4, <1>5 DEF AtWork

LEMMA WorkerDone ==
    ASSUME Types, NEW t \in Thread, NEW w \in Workers, job[w] # None,
           job' = [job EXCEPT ![w] = None]
    PROVE  /\ job[w].transp = t =>
                  AtWork(t)' = AtWork(t) - 1 /\ w \in Working(t)
           /\ job[w].transp # t => Working(t)' = Working(t)
           /\ \A v \in Working(t)' : v \in Working(t) /\ job'[v] = job[v]
<1>1. job'[w] = None /\ \A v \in Workers \ {w} : job'[v] = job[v]
  BY DEF Types
<1>2. job[w].transp = t => Working(t)' = Working(t) \ {w} /\ w \in Working(t)
  BY <1>1 DEF Working
<1>3. job[w].transp # t => Working(t)' = Working(t)
  BY <1>1 DEF Working
<1>4. job[w].transp = t => Cardinality(Working(t)') = Cardinality(Working(t)) - 1
  BY <1>2, CountsFinite, FS_RemoveElement
<1>5. \A v \in Working(t)' : v \in Working(t) /\ job'[v] = job[v]
  BY <1>1, <1>2, <1>3 DEF Working
<1>. QED  BY <1>2, <1>3, <1>4, <1>5 DEF AtWork

(***************************************************************************)
(* What each kind of step leaves alone.                                    *)
(***************************************************************************)
\* The steps of main and of the threads, of the boss and the workers.
ClientStep == MainStep \/ \E t \in Thread : ThreadStep(t)
WorkerStep ==
    \E w \in Workers : \/ WorkerTakes(w) \/ WorkerUnlocks(w) \/ WorkerAnswers(w)
                       \/ AnswersFreed(w) \/ BadImage(w)
BossStep == BossAdds \/ \E t \in Thread : BossReceives(t) \/ BossFrees(t)
DamageStep == RequestLost \/ StequeEnds
ServerSteps == BossStep \/ WorkerStep \/ DamageStep

LEMMA NextIs ==
    ASSUME Next
    PROVE  UNCHANGED disk /\ (ClientStep \/ ServerSteps)
  BY DEF Next, ServerStep, ClientStep, WorkerStep, BossStep, DamageStep, ServerSteps

LEMMA ClientLeavesServer == ClientStep => UNCHANGED server
  BY DEF ClientStep, MainStep, ThreadStep, Create, CreateFails, Join, Finish, Exits, Take,
         Leave, ReadFails, Call, Reply, ErrorReply, SkipReply, Timeout, Disconnected, Returns

LEMMA ServerLeavesClient == ServerSteps => UNCHANGED <<client, calls>>
  BY DEF ServerSteps, BossStep, WorkerStep, DamageStep, BossReceives, BossAdds, BossFrees,
         WorkerTakes, WorkerUnlocks, WorkerAnswers, AnswersFreed, BadImage, RequestLost,
         StequeEnds, wire

LEMMA ServerRuns == ServerSteps => alive
  BY DEF ServerSteps, BossStep, WorkerStep, DamageStep, BossReceives, BossAdds, BossFrees,
         WorkerTakes, WorkerUnlocks, WorkerAnswers, AnswersFreed, BadImage, RequestLost,
         StequeEnds, Works

(***************************************************************************)
(* Types.                                                                  *)
(***************************************************************************)
LEMMA HeadTail ==
    ASSUME NEW S, NEW q \in Seq(S), q # << >>
    PROVE  /\ Head(q) \in S /\ Tail(q) \in Seq(S) /\ Head(q) = q[1] /\ Len(q) >= 1
           /\ Len(Tail(q)) = Len(q) - 1 /\ 1 \in DOMAIN q
           /\ \A i \in DOMAIN Tail(q) : i \in Nat /\ i + 1 \in DOMAIN q /\ Tail(q)[i] = q[i + 1]
  OBVIOUS

LEMMA Appended ==
    ASSUME NEW S, NEW q \in Seq(S), NEW m \in S
    PROVE  /\ Append(q, m) \in Seq(S) /\ Len(Append(q, m)) = Len(q) + 1
           /\ \A i \in DOMAIN Append(q, m) : \/ i \in DOMAIN q /\ Append(q, m)[i] = q[i]
                                             \/ i = Len(q) + 1 /\ Append(q, m)[i] = m
  OBVIOUS

LEMMA TypesInit == Init => Types
<1>. SUFFICES ASSUME Init PROVE Types
  OBVIOUS
<1>1. missing \subseteq Files /\ refused \subseteq Files /\ queue \in Seq(Files) /\ Threads \in Nat
  BY RpcAssumption DEF Init
<1>2. /\ code \in [Thread -> Codes] /\ result \in Codes /\ owner \in [Files -> 0..Threads]
      /\ calls \in [Thread -> Nat] /\ xid \in [Thread -> Nat]
  BY <1>1 DEF Init, Codes
<1>3. /\ up \in [Thread -> Seq(CallMsg)] /\ down \in [Thread -> Seq(ReplyMsg)]
      /\ workqueue \in Seq(WorkItem) /\ job \in [Workers -> WorkItem \cup {None}]
      /\ adding = None /\ popping = None /\ damaged = FALSE
  BY DEF Init
<1>4. /\ created \in Nat /\ joined \in Nat /\ joined <= created /\ created <= Threads
      /\ pc \in [Thread -> {"new", "top", "read", "wait", "ended"}]
      /\ req \in [Thread -> Files \cup {None}] /\ output \in [Files -> Files \cup {None}]
  BY <1>1 DEF Init
<1>5. /\ exit = "running" /\ late = {} /\ erred = {} /\ freed = {} /\ alive = TRUE
  BY DEF Init
<1>. QED  BY <1>1, <1>2, <1>3, <1>4, <1>5 DEF Types

LEMMA TypesOfClient ==
    ASSUME Types, Placed, ClientStep, UNCHANGED disk
    PROVE  Types'
<1>. USE RpcAssumption DEF Types, disk, wire, server, steque, Codes
<1>1. CASE Create
  <2>1. created + 1 \in Thread /\ created + 1 <= Threads /\ joined <= created + 1
    BY <1>1 DEF Create, Thread
  <2>2. pc' \in [Thread -> {"new", "top", "read", "wait", "ended"}]
    BY <1>1 DEF Create, Go
  <2>. QED  BY <1>1, <2>1, <2>2 DEF Create
<1>2. CASE CreateFails
  BY <1>2 DEF CreateFails, Exits
<1>3. CASE Join
  <2>1. joined + 1 \in Thread /\ joined + 1 <= created
    BY <1>3 DEF Join, Thread
  <2>2. result' \in Codes
    BY <1>3, <2>1 DEF Join
  <2>. QED  BY <1>3, <2>1, <2>2 DEF Join
<1>4. CASE Finish
  BY <1>4 DEF Finish, Exits
<1>5. ASSUME NEW t \in Thread, ThreadStep(t) PROVE Types'
  <2>1. CASE Take(t)
    <3>1. Head(queue) \in Files /\ Tail(queue) \in Seq(Files)
      BY <2>1, HeadTail DEF Take
    <3>2. owner' \in [Files -> 0..Threads]
      BY <2>1, <3>1 DEF Take, Thread
    <3>3. req' \in [Thread -> Files \cup {None}]
      BY <2>1, <3>1 DEF Take
    <3>. QED  BY <2>1, <3>1, <3>2, <3>3 DEF Take, Go, main
  <2>2. CASE Leave(t)
    BY <2>2 DEF Leave, Go, main
  <2>3. CASE ReadFails(t)
    BY <2>3 DEF ReadFails, Exits
  <2>4. CASE Call(t)
    <3>1. [xid |-> calls[t] + 1, file |-> req[t]] \in CallMsg
      BY <2>4 DEF Call, At, Placed, CallMsg
    <3>2. Append(up[t], [xid |-> calls[t] + 1, file |-> req[t]]) \in Seq(CallMsg)
      BY <3>1, Appended
    <3>. QED  BY SMTT(30), <2>4, <3>2 DEF Call, Go, main
  <2>5. CASE Reply(t)
    <3>1. Head(down[t]).file \in Files /\ Tail(down[t]) \in Seq(ReplyMsg)
      <4>1. down[t] \in Seq(ReplyMsg) /\ down[t] # << >>
        BY <2>5 DEF Reply
      <4>2. Head(down[t]) \in ReplyMsg /\ Tail(down[t]) \in Seq(ReplyMsg)
        BY <4>1, HeadTail
      <4>. QED  BY <4>2 DEF ReplyMsg
    <3>2. output' \in [Files -> Files \cup {None}]
      BY <2>5, <3>1 DEF Reply, WriteToFile
    <3>. QED  BY <2>5, <3>1, <3>2 DEF Reply, Receive, Returns, Go, main
  <2>9. CASE ErrorReply(t)
    <3>1. Head(down[t]).stat \in Codes /\ Tail(down[t]) \in Seq(ReplyMsg)
      <4>1. down[t] \in Seq(ReplyMsg) /\ down[t] # << >>
        BY <2>9 DEF ErrorReply
      <4>2. Head(down[t]) \in ReplyMsg /\ Tail(down[t]) \in Seq(ReplyMsg)
        BY <4>1, HeadTail
      <4>. QED  BY <4>2 DEF ReplyMsg
    <3>. QED  BY <2>9, <3>1 DEF ErrorReply, Receive, Returns, Go, main
  <2>6. CASE SkipReply(t)
    <3>1. Tail(down[t]) \in Seq(ReplyMsg)
      BY <2>6, HeadTail DEF SkipReply
    <3>. QED  BY <2>6, <3>1 DEF SkipReply, Receive, client, main
  <2>7. CASE Timeout(t)
    BY <2>7 DEF Timeout, Returns, Go, main
  <2>8. CASE Disconnected(t)
    <3>1. CASE Exits("killed")
      BY <3>1 DEF Exits
    <3>2. CASE ~Exits("killed")
      <4>1. Returns(t, 4) /\ UNCHANGED <<output, late, erred, up, down>>
        BY <2>8, <3>2 DEF Disconnected
      <4>2. code' \in [Thread -> Codes] /\ pc' \in [Thread -> {"new", "top", "read", "wait", "ended"}]
        BY <4>1 DEF Returns, Go
      <4>. QED  BY <4>1, <4>2 DEF Returns, main
    <3>. QED  BY <3>1, <3>2
  <2>. QED  BY <1>5, <2>1, <2>2, <2>3, <2>4, <2>5, <2>6, <2>7, <2>8, <2>9 DEF ThreadStep
<1>. QED  BY <1>1, <1>2, <1>3, <1>4, <1>5 DEF ClientStep, MainStep

LEMMA TypesOfServer ==
    ASSUME Types, ServerSteps, UNCHANGED disk
    PROVE  Types'
<1>1. UNCHANGED <<client, calls, disk>>
  BY ServerLeavesClient
<1>. USE DEF Types, client, main, disk, wire, steque
<1>2. ASSUME NEW t \in Thread, BossReceives(t) PROVE Types'
  <2>. DEFINE m == Head(up[t])
              e == [xid |-> m.xid, stat |-> 11, file |-> m.file]
  <2>1. /\ m.xid \in Nat /\ Tail(up[t]) \in Seq(CallMsg)
        /\ [transp |-> t, file |-> m.file] \in WorkItem /\ e \in ReplyMsg
    <3>1. up[t] \in Seq(CallMsg) /\ up[t] # << >>
      BY <1>2 DEF BossReceives
    <3>2. m \in CallMsg /\ Tail(up[t]) \in Seq(CallMsg)
      BY <3>1, HeadTail
    <3>. QED  BY <3>2 DEF CallMsg, WorkItem, ReplyMsg
  <2>2. Append(down[t], e) \in Seq(ReplyMsg)
    BY <2>1, Appended
  <2>3. down' \in [Thread -> Seq(ReplyMsg)]
    BY <1>2, <2>2 DEF BossReceives, SendReply
  <2>4. adding' \in WorkItem \cup {None} /\ damaged' \in BOOLEAN
        /\ (adding' # None /\ popping' # None => damaged')
    BY <1>2, <2>1 DEF BossReceives
  <2>5. up' \in [Thread -> Seq(CallMsg)] /\ xid' \in [Thread -> Nat]
    BY <1>2, <2>1 DEF BossReceives
  <2>. QED  BY <1>1, <1>2, <2>3, <2>4, <2>5 DEF BossReceives
<1>3. ASSUME NEW t \in Thread, BossFrees(t) PROVE Types'
  BY <1>1, <1>3 DEF BossFrees
<1>4. ASSUME NEW w \in Workers, WorkerTakes(w) PROVE Types'
  <2>1. Head(workqueue) \in WorkItem /\ Tail(workqueue) \in Seq(WorkItem)
    BY <1>4, HeadTail DEF WorkerTakes
  <2>. QED  BY <1>1, <1>4, <2>1 DEF WorkerTakes
<1>5. ASSUME NEW w \in Workers, WorkerAnswers(w) PROVE Types'
  <2>1. job[w] \in WorkItem /\ job[w].transp \in Thread /\ job[w].file \in Files
    BY <1>5 DEF WorkerAnswers, Works, WorkItem
  <2>2. ASSUME NEW x \in {0, 12}
        PROVE  Append(down[job[w].transp], [xid |-> xid[job[w].transp], stat |-> x, file |-> job[w].file])
                    \in Seq(ReplyMsg)
    <3>1. [xid |-> xid[job[w].transp], stat |-> x, file |-> job[w].file] \in ReplyMsg
      BY <2>1 DEF ReplyMsg
    <3>. QED  BY <2>1, <3>1, Appended
  <2>3. down' \in [Thread -> Seq(ReplyMsg)]
    BY <1>5, <2>1, <2>2 DEF WorkerAnswers, SendReply
  <2>. QED  BY <1>1, <1>5, <2>3 DEF WorkerAnswers
<1>6. ASSUME NEW w \in Workers, AnswersFreed(w) \/ BadImage(w) \/ WorkerUnlocks(w) PROVE Types'
  BY <1>1, <1>6 DEF AnswersFreed, BadImage, WorkerUnlocks
<1>7. ASSUME BossAdds PROVE Types'
  <2>1. Append(workqueue, adding) \in Seq(WorkItem)
    BY <1>7, Appended DEF BossAdds
  <2>. QED  BY <1>1, <1>7, <2>1 DEF BossAdds
<1>8. ASSUME RequestLost PROVE Types'
  <2>1. workqueue' \in Seq(WorkItem)
    BY <1>8, Removed DEF RequestLost
  <2>. QED  BY <1>1, <1>8, <2>1 DEF RequestLost
<1>9. ASSUME StequeEnds PROVE Types'
  BY <1>1, <1>9 DEF StequeEnds
<1>. QED  BY <1>2, <1>3, <1>4, <1>5, <1>6, <1>7, <1>8, <1>9
             DEF ServerSteps, BossStep, WorkerStep, DamageStep

(***************************************************************************)
(* The client by itself: where threads are, what they took and returned.   *)
(***************************************************************************)
LEMMA PlacedStep ==
    ASSUME Types, Placed, Next
    PROVE  Placed'
<1>1. CASE ServerSteps
  BY <1>1, ServerLeavesClient DEF Placed, client, main
<1>2. CASE Create
  <2>1. created + 1 \in Thread /\ created \in Nat /\ joined \in Nat /\ joined <= created
    BY <1>2, RpcAssumption DEF Create, Types, Thread
  <2>2. /\ pc'[created + 1] = "top"
        /\ \A t \in Thread : t # created + 1 => pc'[t] = pc[t]
    BY <1>2, <2>1 DEF Create, Go, Types
  <2>3. created' = created + 1 /\ UNCHANGED <<queue, joined, req>>
    BY <1>2 DEF Create
  <2>4. \A t \in Thread : t \in Nat
    BY DEF Thread
  <2>. QED  BY <2>1, <2>2, <2>3, <2>4 DEF Placed
<1>3. CASE CreateFails \/ Finish
  BY <1>3 DEF CreateFails, Finish, Exits, Placed
<1>4. CASE Join
  <2>1. joined \in Nat /\ joined' = joined + 1 /\ pc[joined + 1] = "ended"
    BY <1>4 DEF Join, Types
  <2>2. UNCHANGED <<queue, created, pc, req>>
    BY <1>4 DEF Join
  <2>3. \A t \in Thread : t \in Nat
    BY DEF Thread
  <2>. QED  BY <2>1, <2>2, <2>3 DEF Placed
<1>5. ASSUME NEW t \in Thread, ThreadStep(t) PROVE Placed'
  <2>1. CASE Take(t)
    BY <2>1 DEF Take, At, Go, main, Placed, Types
  <2>2. CASE Leave(t)
    BY <2>2 DEF Leave, At, Go, main, Placed, Types
  <2>3. CASE ReadFails(t)
    BY <2>3 DEF ReadFails, Exits, Placed
  <2>4. CASE Call(t)
    BY <2>4 DEF Call, At, Go, main, Placed, Types
  <2>5. CASE Reply(t)
    BY <2>5 DEF Reply, At, Returns, Go, main, Placed, Types
  <2>9. CASE ErrorReply(t)
    BY <2>9 DEF ErrorReply, At, Returns, Go, main, Placed, Types
  <2>6. CASE SkipReply(t)
    BY <2>6 DEF SkipReply, client, main, Placed
  <2>7. CASE Timeout(t)
    BY <2>7 DEF Timeout, At, Returns, Go, main, Placed, Types
  <2>8. CASE Disconnected(t)
    BY SMTT(30), <2>8 DEF Disconnected, At, Returns, Go, Exits, main, Placed, Types
  <2>. QED  BY <1>5, <2>1, <2>2, <2>3, <2>4, <2>5, <2>6, <2>7, <2>8, <2>9 DEF ThreadStep
<1>. QED  BY <1>1, <1>2, <1>3, <1>4, <1>5, NextIs DEF ClientStep, MainStep

LEMMA TakenStep ==
    ASSUME Types, Placed, Taken, Next
    PROVE  Taken'
<1>. DEFINE Same == UNCHANGED <<req, owner, queue, output>>
<1>1. CASE Same
  BY <1>1 DEF Taken
<1>2. CASE ServerSteps
  BY <1>1, <1>2, ServerLeavesClient DEF client
<1>3. CASE MainStep
  BY <1>1, <1>3 DEF MainStep, Create, CreateFails, Join, Finish, Exits
<1>4. ASSUME NEW t \in Thread, ThreadStep(t) PROVE Taken'
  <2>1. CASE Take(t)
    <3>1. queue \in Seq(Files) /\ queue # << >>
      BY <2>1 DEF Take, Types
    <3>2. /\ Head(queue) \in Files /\ Head(queue) = queue[1] /\ 1 \in DOMAIN queue
          /\ \A i \in DOMAIN Tail(queue) : i \in Nat /\ i + 1 \in DOMAIN queue /\ Tail(queue)[i] = queue[i + 1]
      BY <3>1, HeadTail
    <3>3. /\ queue' = Tail(queue) /\ UNCHANGED output
          /\ req'[t] = Head(queue) /\ \A u \in Thread : u # t => req'[u] = req[u]
          /\ owner'[Head(queue)] = t /\ \A f \in Files : f # Head(queue) => owner'[f] = owner[f]
      BY <2>1, <3>2 DEF Take, Types
    <3>4. /\ \A u \in Thread : u \in Nat /\ u # 0
          /\ \A u \in Thread : req[u] \in Files \/ req[u] = None
          /\ \A i \in DOMAIN queue : queue[i] \in Files
      <4>1. \A u \in Thread : u \in Nat /\ u # 0
        BY RpcAssumption DEF Thread
      <4>2. \A u \in Thread : req[u] \in Files \/ req[u] = None
        BY DEF Types
      <4>3. \A i \in DOMAIN queue : queue[i] \in Files
        BY <3>1
      <4>. QED  BY <4>1, <4>2, <4>3
    <3>5. \A u \in Thread : req'[u] # None => owner'[req'[u]] = u
      BY <3>2, <3>3, <3>4 DEF Taken
    <3>6. \A i \in DOMAIN Tail(queue) : Tail(queue)[i] # Head(queue)
      BY <3>2 DEF Taken
    <3>7. \A i \in DOMAIN queue' : owner'[queue'[i]] = 0 /\ output'[queue'[i]] = None
      BY <3>2, <3>3, <3>4, <3>6 DEF Taken
    <3>8. \A i, j \in DOMAIN queue' : queue'[i] = queue'[j] => i = j
      <4>1. ASSUME NEW i \in DOMAIN queue', NEW j \in DOMAIN queue', queue'[i] = queue'[j]
            PROVE  i = j
        <5>1. i + 1 = j + 1 /\ i \in Nat /\ j \in Nat
          BY <3>2, <3>3, <4>1 DEF Taken
        <5>. QED  BY <5>1
      <4>. QED  BY <4>1
    <3>. QED  BY <3>5, <3>7, <3>8 DEF Taken
  <2>2. CASE Reply(t)
    <3>1. req[t] \in Files /\ owner[req[t]] = t /\ t # 0
      BY <2>2, RpcAssumption DEF Reply, At, Placed, Taken, Thread
    <3>2. \A f \in Files : f # req[t] => output'[f] = output[f]
      BY <2>2 DEF Reply, WriteToFile, Types
    <3>3. UNCHANGED <<req, owner, queue>>
      BY <2>2 DEF Reply, Returns
    <3>4. \A i \in DOMAIN queue : queue[i] \in Files
      BY DEF Types
    <3>5. \A i \in DOMAIN queue : queue[i] # req[t]
      BY <3>1, <3>4 DEF Taken
    <3>. QED  BY <3>2, <3>3, <3>4, <3>5 DEF Taken
  <2>3. CASE ~Take(t) /\ ~Reply(t)
    BY <1>1, <1>4, <2>3
       DEF ThreadStep, Leave, ReadFails, Exits, Call, ErrorReply, SkipReply, client, Timeout,
           Returns, Disconnected
  <2>. QED  BY <2>1, <2>2, <2>3
<1>. QED  BY <1>2, <1>3, <1>4, NextIs DEF ClientStep

\* What a thread returned, when it has returned.
OutputThere(t) ==
    pc[t] \in {"top", "ended"} /\ code[t] = 0 /\ req[t] \in Files \ refused
        => output[req[t]] # None

LEMMA CodedStep ==
    ASSUME Types, Placed, Coded, Next
    PROVE  Coded'
<1>. DEFINE Bad == ~alive \/ late # {} \/ erred # {}
<1>0. UNCHANGED disk
  BY NextIs
<1>1. CASE ServerSteps
  <2>1. UNCHANGED <<code, result, joined, pc, req, output, late, erred>>
    BY <1>1, ServerLeavesClient DEF client, main
  <2>2. Bad => Bad'
    BY <1>1, <2>1, ServerRuns
  <2>. QED  BY <1>0, <2>1, <2>2 DEF Coded, disk
<1>2. CASE ClientStep
  <2>1. alive' = alive
    BY <1>2, ClientLeavesServer DEF server
  <2>2. CASE Create
    <3>1. /\ created + 1 \in Thread /\ pc[created + 1] = "new" /\ created \in Nat
      <4>1. created + 1 \in Thread /\ created \in Nat
        BY <2>2, RpcAssumption DEF Create, Types, Thread
      <4>2. created + 1 > created
        BY <4>1
      <4>. QED  BY <4>1, <4>2 DEF Placed
    <3>2. req[created + 1] \notin Files
      BY <3>1, RpcAssumption DEF Placed
    <3>3. /\ \A t \in Thread : t # created + 1 => pc'[t] = pc[t]
          /\ UNCHANGED <<code, result, joined, req, output, late, erred>>
      BY <2>2, <3>1 DEF Create, Go, Types
    <3>. QED  BY <1>0, <2>1, <3>2, <3>3 DEF Coded, disk
  <2>3. CASE CreateFails \/ Finish
    BY <1>0, <2>1, <2>3 DEF CreateFails, Finish, Exits, Coded, disk
  <2>4. CASE Join
    <3>1. joined + 1 \in Thread /\ joined \in Nat
      BY <2>4 DEF Join, Types, Thread
    <3>2. /\ joined' = joined + 1 /\ UNCHANGED <<code, pc, req, output, late, erred>>
          /\ result' = IF result = 0 THEN code[joined + 1] ELSE result
      BY <2>4 DEF Join
    <3>3. \A t \in 1..joined' : t \in 1..joined \/ t = joined + 1
      BY <3>1, <3>2
    <3>4. result' # 0 => Bad
      BY <3>1, <3>2 DEF Coded
    <3>5. result' = 0 => \A t \in 1..joined' : code'[t] = 0
      BY <3>2, <3>3 DEF Coded
    <3>. QED  BY <1>0, <2>1, <3>2, <3>4, <3>5 DEF Coded, disk
  <2>5. ASSUME NEW t \in Thread, Take(t) \/ Leave(t) \/ ReadFails(t) \/ Call(t) \/ SkipReply(t)
        PROVE  Coded'
    <3>1. UNCHANGED <<code, result, joined, output, late, erred>>
      BY <2>5 DEF Take, Leave, ReadFails, Exits, Call, SkipReply, client, main
    <3>2. /\ \A u \in Thread : u # t => pc'[u] = pc[u] /\ req'[u] = req[u]
          /\ \/ pc'[t] \in {"read", "wait"}
             \/ req'[t] = req[t] /\ (pc'[t] = pc[t] \/ (pc[t] = "top" /\ pc'[t] = "ended"))
      BY <2>5
         DEF Take, Leave, ReadFails, At, Go, Exits, Call, SkipReply, client, main, Types
    <3>3. \A u \in Thread : OutputThere(u)'
      <4>1. ASSUME NEW u \in Thread PROVE OutputThere(u)'
        <5>1. OutputThere(u)
          BY DEF Coded, OutputThere
        <5>. QED  BY <1>0, <3>1, <3>2, <5>1 DEF OutputThere, disk
      <4>. QED  BY <4>1
    <3>. QED  BY <1>0, <2>1, <3>1, <3>3 DEF Coded, OutputThere, disk
  <2>6. ASSUME NEW t \in Thread, Reply(t) \/ ErrorReply(t) \/ Timeout(t) \/ Disconnected(t) PROVE Coded'
    <3>0. CASE UNCHANGED <<code, result, joined, pc, req, output, late, erred>>
      BY <1>0, <2>1, <3>0 DEF Coded, disk
    <3>. SUFFICES ASSUME ~UNCHANGED <<code, result, joined, pc, req, output, late, erred>> PROVE Coded'
      BY <3>0
    <3>1. /\ pc[t] = "wait" /\ UNCHANGED <<result, joined, req>> /\ late \subseteq late' /\ erred \subseteq erred'
          /\ \A u \in Thread : u # t => pc'[u] = pc[u] /\ code'[u] = code[u]
      BY <2>6 DEF Reply, ErrorReply, Timeout, Disconnected, At, Returns, Go, Exits, main, Types
    <3>2. ~(t \in 1..joined)
      BY <3>1 DEF Placed
    <3>3. code'[t] # 0 => Bad'
      BY <2>1, <2>6, <3>1 DEF Reply, ErrorReply, Timeout, Disconnected, Returns, Exits, main, Types
    <3>4. \A f \in Files : output[f] # None => output'[f] # None
      <4>1. CASE Reply(t)
        <5>1. down[t] \in Seq(ReplyMsg) /\ down[t] # << >>
          BY <4>1 DEF Reply, Types
        <5>2. Head(down[t]) \in ReplyMsg
          BY <5>1, HeadTail
        <5>3. Head(down[t]).file # None
          BY <5>2, RpcAssumption DEF ReplyMsg
        <5>. QED  BY <4>1, <5>3 DEF Reply, WriteToFile, Types
      <4>2. CASE ~Reply(t)
        BY <2>6, <4>2 DEF ErrorReply, Timeout, Disconnected, Exits
      <4>. QED  BY <4>1, <4>2
    <3>5. OutputThere(t)'
      <4>1. CASE Reply(t)
        <5>1. down[t] \in Seq(ReplyMsg) /\ down[t] # << >>
          BY <4>1 DEF Reply, Types
        <5>2. Head(down[t]) \in ReplyMsg
          BY <5>1, HeadTail
        <5>3. Head(down[t]).file # None
          BY <5>2, RpcAssumption DEF ReplyMsg
        <5>. QED  BY <1>0, <3>1, <4>1, <5>3 DEF Reply, WriteToFile, OutputThere, Types, disk
      <4>2. CASE ~Reply(t)
        <5>1. code'[t] # 0
          BY <2>6, <4>2, <3>0 DEF ErrorReply, Timeout, Disconnected, Returns, Exits, main, Types
        <5>. QED  BY <5>1 DEF OutputThere
      <4>. QED  BY <4>1, <4>2
    <3>6. \A u \in Thread : OutputThere(u)'
      <4>1. ASSUME NEW u \in Thread, u # t PROVE OutputThere(u)'
        <5>1. OutputThere(u)
          BY DEF Coded, OutputThere
        <5>. QED  BY <1>0, <3>1, <3>4, <4>1, <5>1 DEF OutputThere, disk
      <4>. QED  BY <3>5, <4>1
    <3>7. Bad => Bad'
      BY <2>1, <3>1
    <3>8. \A u \in Thread : code'[u] # 0 => Bad'
      BY <3>1, <3>3, <3>7 DEF Coded
    <3>9. result' # 0 => Bad'
      BY <3>1, <3>7 DEF Coded
    <3>10. result' = 0 => \A u \in 1..joined' : code'[u] = 0
      <4>1. 1..joined \subseteq Thread
        BY RpcAssumption DEF Types, Thread
      <4>2. \A u \in 1..joined : u # t /\ code'[u] = code[u]
        BY <3>1, <3>2, <4>1
      <4>3. joined' = joined /\ result' = result
        BY <3>1
      <4>. QED  BY <4>2, <4>3 DEF Coded
    <3>. QED  BY <3>6, <3>8, <3>9, <3>10 DEF Coded, OutputThere
  <2>. QED  BY <1>2, <2>2, <2>3, <2>4, <2>5, <2>6 DEF ClientStep, MainStep, ThreadStep
<1>. QED  BY <1>1, <1>2, NextIs

\* Xids of calls that have been sent are at most the last.
LEMMA GivenStep ==
    ASSUME Types, Given, Next
    PROVE  Given'
<1>1. CASE UNCHANGED <<calls, up, xid>>
  BY <1>1 DEF Given
<1>2. ASSUME NEW t \in Thread, Call(t) PROVE Given'
  <2>. DEFINE m == [xid |-> calls[t] + 1, file |-> req[t]]
  <2>1. /\ calls'[t] = calls[t] + 1 /\ \A u \in Thread : u # t => calls'[u] = calls[u] /\ up'[u] = up[u]
        /\ up'[t] = Append(up[t], m) /\ xid' = xid /\ calls[t] \in Nat /\ xid[t] \in Nat
        /\ up[t] \in Seq(CallMsg)
    BY <1>2 DEF Call, Types, server
  <2>2. \A i \in DOMAIN up'[t] : \/ i \in DOMAIN up[t] /\ up'[t][i] = up[t][i]
                                 \/ up'[t][i] = m
    BY <2>1
  <2>3. \A i \in DOMAIN up[t] : up[t][i].xid \in Nat
    <3>1. \A i \in DOMAIN up[t] : up[t][i] \in CallMsg
      BY <2>1
    <3>. QED  BY <3>1 DEF CallMsg
  <2>4. \A i \in DOMAIN up'[t] : up'[t][i].xid <= calls'[t]
    BY <2>1, <2>2, <2>3 DEF Given
  <2>5. xid'[t] <= calls'[t]
    BY <2>1 DEF Given
  <2>. QED  BY <2>1, <2>4, <2>5 DEF Given
<1>3. ASSUME NEW t \in Thread, BossReceives(t) PROVE Given'
  <2>1. up[t] \in Seq(CallMsg) /\ up[t] # << >>
    BY <1>3 DEF BossReceives, Types
  <2>2. /\ Head(up[t]) = up[t][1] /\ 1 \in DOMAIN up[t]
        /\ \A i \in DOMAIN Tail(up[t]) : i + 1 \in DOMAIN up[t] /\ Tail(up[t])[i] = up[t][i + 1]
    BY <2>1, HeadTail
  <2>3. /\ calls' = calls /\ \A u \in Thread : u # t => up'[u] = up[u] /\ xid'[u] = xid[u]
        /\ up'[t] = Tail(up[t]) /\ xid'[t] = Head(up[t]).xid
    BY <1>3 DEF BossReceives, Types
  <2>4. xid'[t] <= calls'[t]
    BY <2>2, <2>3 DEF Given
  <2>5. \A i \in DOMAIN up'[t] : up'[t][i].xid <= calls'[t]
    BY <2>2, <2>3 DEF Given
  <2>6. \A u \in Thread : u # t => xid'[u] <= calls'[u] /\ \A i \in DOMAIN up'[u] : up'[u][i].xid <= calls'[u]
    BY <2>3 DEF Given
  <2>. QED  BY <2>4, <2>5, <2>6 DEF Given
<1>4. CASE ClientStep /\ ~(\E t \in Thread : Call(t))
  <2>1. UNCHANGED <<calls, up>>
    BY <1>4 DEF ClientStep, MainStep, ThreadStep, Create, CreateFails, Join, Finish, Exits, Take,
         Leave, ReadFails, Reply, ErrorReply, SkipReply, Timeout, Disconnected, Returns, Receive, wire
  <2>. QED  BY <1>1, <1>4, <2>1, ClientLeavesServer DEF server
<1>5. CASE ServerSteps /\ ~(\E t \in Thread : BossReceives(t))
  BY <1>1, <1>5
     DEF ServerSteps, BossStep, WorkerStep, DamageStep, BossAdds, BossFrees, WorkerTakes,
         WorkerUnlocks, WorkerAnswers, AnswersFreed, BadImage, RequestLost, StequeEnds, wire
<1>. QED  BY <1>2, <1>3, <1>4, <1>5, NextIs

(***************************************************************************)
(* The calls on their way.                                                 *)
(***************************************************************************)
\* What a step that moves none of u's calls may change besides: the queue may
\* lose some once pop and enqueue have overlapped.
LEMMA StaysInOrder ==
    ASSUME Types, NEW u \in Thread, InOrder(u),
           late \subseteq late', alive' => alive, exit' = "running" => exit = "running",
           pc'[u] = "wait" <=> pc[u] = "wait",
           pc[u] = "wait" => req'[u] = req[u],
           down'[u] = down[u], up'[u] = up[u], calls'[u] = calls[u], xid'[u] = xid[u],
           Adding(u)' = Adding(u), Adding(u) = 1 => adding' = adding,
           InQueue(u)' \in Nat, InQueue(u)' <= InQueue(u),
           damaged => damaged', damaged' \/ InQueue(u)' = InQueue(u),
           AtWork(u)' = AtWork(u),
           \A i \in Queued(u)' : \E j \in Queued(u) : workqueue'[i] = workqueue[j],
           \A v \in Working(u)' : v \in Working(u) /\ job'[v] = job[v]
    PROVE  InOrder(u)'
<1>. SUFFICES ASSUME u \notin late' PROVE Answered(u)' /\ (alive' => Fresh(u)' /\ Counted(u)')
  BY DEF InOrder
<1>1. Answered(u) /\ (alive => Fresh(u) /\ Counted(u))
  BY DEF InOrder
<1>2. InUp(u)' = InUp(u) /\ InDown(u)' = InDown(u)
  BY DEF InUp, InDown
<1>3. /\ UnderWay(u)' \in Nat /\ UnderWay(u)' <= UnderWay(u)
      /\ damaged' \/ UnderWay(u)' = UnderWay(u)
  BY <1>2, Places, PartsOfCount
<1>4. Answered(u)'
  <2>1. CASE pc[u] = "wait"
    BY <1>1, <2>1 DEF Answered, LastCall
  <2>2. CASE pc[u] # "wait"
    <3>1. InDown(u) = 0
      BY <1>1, <2>2 DEF Answered, InDown
    <3>2. down[u] = << >>
      BY <3>1, PartsOfCount
    <3>. QED  BY <3>2 DEF Answered
  <2>. QED  BY <2>1, <2>2
<1>5. ASSUME alive' PROVE Fresh(u)' /\ Counted(u)'
  <2>1. Fresh(u) /\ Counted(u)
    BY <1>1, <1>5
  <2>2. Counted(u)'
    <3>1. UnderWay(u) \in Nat
      BY Places, PartsOfCount
    <3>. QED  BY <1>3, <2>1, <3>1 DEF Counted
  <2>3. Adding(u)' = 0 => ~(adding' # None /\ adding'.transp = u)
    BY DEF Adding
  <2>4. CASE pc[u] = "wait"
    <3>1. adding' # None /\ adding'.transp = u => adding'.file = req'[u] /\ xid'[u] = calls'[u]
      BY <2>1, <2>3, <2>4, PartsOfCount DEF Fresh
    <3>. QED  BY <2>1, <2>2, <2>4, <3>1 DEF Fresh, LastCall
  <2>5. CASE pc[u] # "wait"
    <3>1. UnderWay(u) = 0
      BY <2>1, <2>5 DEF Counted
    <3>2. InUp(u) = 0 /\ Adding(u) = 0 /\ InQueue(u) = 0 /\ AtWork(u) = 0
      BY <3>1, Places, PartsOfCount
    <3>3. up[u] = << >> /\ Queued(u) = {} /\ Working(u) = {}
      BY <3>2, PartsOfCount
    <3>. QED  BY <2>2, <2>3, <3>2, <3>3 DEF Fresh
  <2>. QED  BY <2>4, <2>5
<1>. QED  BY <1>4, <1>5

\* Nothing moves at all.
LEMMA NoCallMoves ==
    ASSUME Types, NEW u \in Thread, InOrder(u),
           late \subseteq late', alive' => alive, exit' = "running" => exit = "running",
           pc'[u] = "wait" <=> pc[u] = "wait",
           pc[u] = "wait" => req'[u] = req[u],
           down'[u] = down[u], up'[u] = up[u], calls'[u] = calls[u], xid'[u] = xid[u],
           UNCHANGED <<workqueue, job, adding, damaged>>
    PROVE  InOrder(u)'
<1>1. Queued(u)' = Queued(u) /\ Working(u)' = Working(u) /\ Adding(u)' = Adding(u)
  BY DEF Queued, Working, Adding
<1>2. InQueue(u)' = InQueue(u) /\ AtWork(u)' = AtWork(u)
  BY <1>1 DEF InQueue, AtWork
<1>3. \A i \in Queued(u)' : \E j \in Queued(u) : workqueue'[i] = workqueue[j]
  BY <1>1
<1>4. \A v \in Working(u)' : v \in Working(u) /\ job'[v] = job[v]
  BY <1>1
<1>5. InQueue(u)' \in Nat /\ InQueue(u)' <= InQueue(u)
  BY <1>2, PartsOfCount
<1>. QED  BY <1>1, <1>2, <1>3, <1>4, <1>5, StaysInOrder

\* A call goes out: nothing else is under way, if none timed out.
LEMMA CallInOrder ==
    ASSUME Types, NEW t \in Thread, InOrder(t), Call(t)
    PROVE  InOrder(t)'
<1>. DEFINE m == [xid |-> calls[t] + 1, file |-> req[t]]
<1>. SUFFICES ASSUME t \notin late' PROVE Answered(t)' /\ (alive' => Fresh(t)' /\ Counted(t)')
  BY DEF InOrder
<1>1. /\ pc[t] = "read" /\ pc'[t] = "wait" /\ calls'[t] = calls[t] + 1
      /\ up'[t] = Append(up[t], m) /\ UNCHANGED <<req, exit, late, down, server>>
  BY DEF Call, At, Go, Types
<1>2. Answered(t) /\ (alive => Fresh(t) /\ Counted(t))
  BY <1>1 DEF InOrder
<1>3. down[t] = << >> /\ InDown(t) = 0
  <2>1. InDown(t) = 0
    BY <1>1, <1>2 DEF Answered, InDown
  <2>. QED  BY <2>1, PartsOfCount
<1>4. Answered(t)'
  BY <1>1, <1>3 DEF Answered
<1>5. ASSUME alive' PROVE Fresh(t)' /\ Counted(t)'
  <2>1. Counted(t)
    BY <1>1, <1>2, <1>5 DEF server
  <2>2. InUp(t) = 0 /\ Adding(t) = 0 /\ InQueue(t) = 0 /\ AtWork(t) = 0
    <3>1. UnderWay(t) = 0
      BY <1>1, <2>1 DEF Counted
    <3>. QED  BY <3>1, Places, PartsOfCount
  <2>3. up[t] = << >> /\ Queued(t) = {} /\ Working(t) = {}
    BY <2>2, PartsOfCount
  <2>4. up'[t] = <<m>> /\ m.xid = calls'[t] /\ m.file = req'[t]
    BY <1>1, <2>3
  <2>5. Queued(t)' = {} /\ Working(t)' = {} /\ Adding(t)' = 0
    BY <1>1, <2>2, <2>3 DEF server, steque, Queued, Working, Adding
  <2>11. ~(adding' # None /\ adding'.transp = t)
    BY <2>5 DEF Adding
  <2>6. Fresh(t)'
    BY <2>4, <2>5, <2>11 DEF Fresh, LastCall
  <2>7. InUp(t)' = 1
    BY <2>4 DEF InUp
  <2>8. InQueue(t)' = 0 /\ AtWork(t)' = 0
    BY <2>5, FS_EmptySet DEF InQueue, AtWork
  <2>9. InDown(t)' = 0
    BY <1>1, <1>3 DEF InDown
  <2>10. UnderWay(t)' = 1
    BY <2>5, <2>7, <2>8, <2>9, Places
  <2>. QED  BY <1>1, <2>6, <2>10 DEF Counted
<1>. QED  BY <1>4, <1>5

\* The reply that is waited for is the only one.
LEMMA ReplyInOrder ==
    ASSUME Types, NEW t \in Thread, InOrder(t), Reply(t) \/ ErrorReply(t)
    PROVE  InOrder(t)'
<1>. SUFFICES ASSUME t \notin late' PROVE Answered(t)' /\ (alive' => Fresh(t)' /\ Counted(t)')
  BY DEF InOrder
<1>1. /\ pc[t] = "wait" /\ pc'[t] = "top" /\ down[t] # << >> /\ down'[t] = Tail(down[t])
      /\ exit = "running" /\ UNCHANGED <<req, exit, late, up, calls, server>>
  BY DEF Reply, ErrorReply, Receive, Returns, At, Go, Types
<1>2. Answered(t) /\ (alive => Fresh(t) /\ Counted(t))
  BY <1>1 DEF InOrder
<1>3. down[t] \in Seq(ReplyMsg) /\ Len(down[t]) <= 1
  BY <1>2 DEF Types, Answered
<1>4. down'[t] = << >>
  BY <1>1, <1>3
<1>5. Answered(t)'
  <2>1. Len(down'[t]) = 0 /\ DOMAIN down'[t] = {}
    BY <1>4
  <2>. QED  BY <2>1 DEF Answered
<1>6. ASSUME alive' PROVE Fresh(t)' /\ Counted(t)'
  <2>1. UnderWay(t) <= 1
    BY <1>1, <1>2, <1>6 DEF Counted, server
  <2>2. InDown(t) # 0
    BY <1>1, PartsOfCount
  <2>3. InUp(t) = 0 /\ Adding(t) = 0 /\ InQueue(t) = 0 /\ AtWork(t) = 0
    BY <2>1, <2>2, Places, PartsOfCount
  <2>4. up[t] = << >> /\ Queued(t) = {} /\ Working(t) = {}
    BY <2>3, PartsOfCount
  <2>5. up'[t] = << >> /\ Queued(t)' = {} /\ Working(t)' = {} /\ Adding(t)' = 0
    BY <1>1, <2>3, <2>4 DEF server, steque, Queued, Working, Adding
  <2>9. ~(adding' # None /\ adding'.transp = t)
    BY <2>5 DEF Adding
  <2>6. InUp(t)' = 0 /\ InDown(t)' = 0
    BY <1>4, <2>5 DEF InUp, InDown
  <2>7. InQueue(t)' = 0 /\ AtWork(t)' = 0
    BY <2>5, FS_EmptySet DEF InQueue, AtWork
  <2>8. UnderWay(t)' = 0
    BY <2>5, <2>6, <2>7, Places
  <2>. QED  BY <1>1, <2>5, <2>8, <2>9 DEF Fresh, Counted
<1>. QED  BY <1>5, <1>6

\* A reply that is read over is one to a call that timed out.
LEMMA SkipInOrder ==
    ASSUME Types, NEW t \in Thread, InOrder(t), SkipReply(t)
    PROVE  InOrder(t)'
<1>1. /\ down[t] \in Seq(ReplyMsg) /\ down[t] # << >> /\ late' = late
      /\ Head(down[t]).xid # calls[t]
  BY DEF SkipReply, ReplyTo, client, Types
<1>2. Head(down[t]) = down[t][1] /\ 1 \in DOMAIN down[t]
  BY <1>1, HeadTail
<1>3. t \in late
  BY <1>1, <1>2 DEF InOrder, Answered, LastCall
<1>. QED  BY <1>1, <1>3 DEF InOrder

\* A reply goes out to a thread that waits for it and has nothing else under
\* way, or is not sent since the client has closed.
LEMMA SendInOrder ==
    ASSUME Types, Placed, NEW u \in Thread, u \notin late, pc[u] = "wait",
           NEW m \in ReplyMsg, LastCall(u, m), down[u] = << >>,
           \/ down'[u] = down[u] /\ Closed(u)
           \/ down'[u] = Append(down[u], m),
           UNCHANGED client, calls'[u] = calls[u],
           InUp(u)' = 0, Adding(u)' = 0, InQueue(u)' = 0, AtWork(u)' = 0
    PROVE  Answered(u)' /\ Counted(u)'
<1>1. UNCHANGED <<pc, req, exit, late, joined>>
  BY DEF client, main
<1>2. CASE down'[u] = down[u] /\ Closed(u)
  <2>1. exit # "running"
    BY <1>2 DEF Closed, Placed
  <2>2. Answered(u)' /\ InDown(u)' = 0
    BY <1>1, <1>2 DEF Answered, InDown
  <2>3. UnderWay(u)' = 0
    BY <2>2, Places
  <2>. QED  BY <1>1, <2>1, <2>2, <2>3 DEF Counted
<1>3. CASE down'[u] = Append(down[u], m)
  <2>1. down'[u] = <<m>> /\ LastCall(u, m)'
    BY <1>1, <1>3 DEF LastCall
  <2>2. Answered(u)' /\ InDown(u)' = 1
    BY <1>1, <2>1 DEF Answered, InDown
  <2>3. UnderWay(u)' = 1
    BY <2>2, Places
  <2>. QED  BY <1>1, <2>2, <2>3 DEF Counted
<1>. QED  BY <1>2, <1>3

\* The boss takes the call of one thread from the wire.
LEMMA BossInOrder ==
    ASSUME Types, Placed, NEW t \in Thread, NEW u \in Thread, InOrder(u), BossReceives(t)
    PROVE  InOrder(u)'
<1>. DEFINE h == Head(up[t])
            m == [transp |-> t, file |-> h.file]
            e == [xid |-> h.xid, stat |-> 11, file |-> h.file]
            Queues == adding' = m /\ down' = down /\ (damaged => damaged')
            Refuses == SendReply(t, h.xid, 11, h.file) /\ adding' = None /\ damaged' = damaged
<1>1. /\ up[t] \in Seq(CallMsg) /\ up[t] # << >> /\ alive /\ adding = None
      /\ up' = [up EXCEPT ![t] = Tail(up[t])] /\ xid' = [xid EXCEPT ![t] = h.xid]
      /\ UNCHANGED <<client, calls, alive, workqueue, job>>
      /\ Queues \/ Refuses
  BY DEF BossReceives, Types
<1>2. /\ h = up[t][1] /\ 1 \in DOMAIN up[t] /\ h \in CallMsg
      /\ Len(Tail(up[t])) = Len(up[t]) - 1
      /\ \A i \in DOMAIN Tail(up[t]) : i + 1 \in DOMAIN up[t] /\ Tail(up[t])[i] = up[t][i + 1]
  BY <1>1, HeadTail
<1>3. m \in WorkItem /\ e \in ReplyMsg /\ m # None
  <2>1. m \in WorkItem /\ e \in ReplyMsg
    BY <1>2 DEF CallMsg, WorkItem, ReplyMsg
  <2>. QED  BY <2>1, RpcAssumption
<1>4. /\ Working(u)' = Working(u) /\ AtWork(u)' = AtWork(u) /\ job' = job
      /\ Queued(u)' = Queued(u) /\ InQueue(u)' = InQueue(u) /\ workqueue' = workqueue
  BY <1>1 DEF Working, AtWork, Queued, InQueue
<1>5. Adding(u) = 0
  BY <1>1 DEF Adding
<1>6. CASE u # t
  <2>1. up'[u] = up[u] /\ xid'[u] = xid[u]
    BY <1>1, <1>6 DEF Types
  <2>2. down'[u] = down[u] /\ Adding(u)' = 0 /\ (damaged => damaged')
    BY <1>1, <1>6 DEF SendReply, Adding, Types
  <2>3. /\ InQueue(u)' \in Nat /\ InQueue(u)' <= InQueue(u)
        /\ \A i \in Queued(u)' : \E j \in Queued(u) : workqueue'[i] = workqueue[j]
    BY <1>4, PartsOfCount
  <2>. QED  BY <1>1, <1>4, <1>5, <2>1, <2>2, <2>3, StaysInOrder DEF client
<1>7. CASE u = t
  <2>. SUFFICES ASSUME t \notin late PROVE Answered(t)' /\ Fresh(t)' /\ Counted(t)'
    BY <1>1, <1>7 DEF InOrder, client
  <2>1. Answered(t) /\ Fresh(t) /\ Counted(t)
    BY <1>1, <1>7 DEF InOrder
  <2>2. up'[t] = Tail(up[t]) /\ xid'[t] = h.xid
    BY <1>1 DEF Types
  <2>3. UNCHANGED <<pc, req, exit, late, calls>>
    BY <1>1 DEF client
  <2>4. h.xid = calls[t] /\ h.file = req[t]
    BY <1>2, <2>1 DEF Fresh, LastCall
  <2>5. (\A i \in DOMAIN up[t] : LastCall(t, up[t][i]))'
    BY <1>2, <2>1, <2>2, <2>3 DEF Fresh, LastCall
  <2>6. \A i \in Queued(t)' : workqueue'[i].file = req'[t] /\ xid'[t] = calls'[t]
    BY <1>4, <1>7, <2>1, <2>2, <2>3, <2>4 DEF Fresh
  <2>7. \A w \in Working(t)' : job'[w].file = req'[t] /\ xid'[t] = calls'[t]
    BY <1>4, <1>7, <2>1, <2>2, <2>3, <2>4 DEF Fresh
  <2>8. adding' # None /\ adding'.transp = t => adding'.file = req'[t] /\ xid'[t] = calls'[t]
    BY <1>1, <2>2, <2>3, <2>4
  <2>9. Fresh(t)'
    BY <2>5, <2>6, <2>7, <2>8 DEF Fresh
  <2>10. InUp(t)' = InUp(t) - 1 /\ InUp(t) # 0
    BY <1>1, <1>2, <2>2, PartsOfCount DEF InUp
  <2>11. CASE Queues
    <3>1. InDown(t)' = InDown(t) /\ Answered(t)'
      BY <2>1, <2>3, <2>11 DEF InDown, Answered, LastCall
    <3>2. Adding(t)' = 1
      BY <1>3, <2>11 DEF Adding
    <3>3. UnderWay(t)' = UnderWay(t)
      BY <1>4, <1>5, <1>7, <2>10, <3>1, <3>2, Places, PartsOfCount
    <3>4. Counted(t)'
      BY <2>1, <2>3, <2>11, <3>3 DEF Counted
    <3>. QED  BY <2>9, <3>1, <3>4
  <2>12. CASE Refuses
    <3>1. /\ UnderWay(t) = 1 /\ pc[t] = "wait"
          /\ InUp(t) = 1 /\ InQueue(t) = 0 /\ AtWork(t) = 0 /\ InDown(t) = 0
      BY <2>1, <2>10, Places, PartsOfCount DEF Counted
    <3>2. down[t] = << >>
      BY <3>1, PartsOfCount
    <3>3. InUp(t)' = 0 /\ Adding(t)' = 0 /\ InQueue(t)' = 0 /\ AtWork(t)' = 0
      BY <1>4, <1>7, <2>10, <2>12, <3>1 DEF Adding
    <3>4. \/ down'[t] = down[t] /\ Closed(t)
          \/ down'[t] = Append(down[t], e)
      BY <2>12 DEF SendReply, Types
    <3>5. LastCall(t, e)
      BY <2>4 DEF LastCall
    <3>6. calls'[t] = calls[t] /\ UNCHANGED client
      BY <1>1
    <3>. HIDE DEF e
    <3>7. Answered(t)' /\ Counted(t)'
      BY <1>3, <3>1, <3>2, <3>3, <3>4, <3>5, <3>6, SendInOrder
    <3>. QED  BY <2>9, <3>7
  <2>. QED  BY <1>1, <2>11, <2>12
<1>. QED  BY <1>6, <1>7

\* The last store of the enqueue: the call is in the queue.
LEMMA AddsInOrder ==
    ASSUME Types, NEW u \in Thread, InOrder(u), BossAdds
    PROVE  InOrder(u)'
<1>1. /\ adding # None /\ adding \in WorkItem /\ adding' = None /\ alive
      /\ workqueue' = Append(workqueue, adding)
      /\ UNCHANGED <<client, wire, alive, xid, job, damaged>>
  BY DEF BossAdds, Types
<1>2. /\ adding.transp = u => InQueue(u)' = InQueue(u) + 1
      /\ adding.transp # u => Queued(u)' = Queued(u)
      /\ \A i \in Queued(u)' : \/ i \in Queued(u) /\ workqueue'[i] = workqueue[i]
                               \/ adding.transp = u /\ workqueue'[i] = adding
  BY <1>1, QueueGrows
<1>3. Working(u)' = Working(u) /\ AtWork(u)' = AtWork(u) /\ Adding(u)' = 0
  BY <1>1 DEF Working, AtWork, Adding
<1>4. CASE adding.transp # u
  <2>1. Adding(u) = 0
    BY <1>4 DEF Adding
  <2>2. Queued(u)' = Queued(u) /\ \A i \in Queued(u)' : workqueue'[i] = workqueue[i]
    BY <1>2, <1>4
  <2>3. InQueue(u)' = InQueue(u)
    BY <2>2 DEF InQueue
  <2>4. /\ InQueue(u)' \in Nat /\ InQueue(u)' <= InQueue(u)
        /\ \A i \in Queued(u)' : \E j \in Queued(u) : workqueue'[i] = workqueue[j]
    BY <2>2, <2>3, PartsOfCount
  <2>5. \A v \in Working(u)' : v \in Working(u) /\ job'[v] = job[v]
    BY <1>1, <1>3
  <2>6. UNCHANGED <<late, alive, exit, pc, req, down, up, calls, xid, damaged>>
    BY <1>1 DEF client, wire
  <2>7. Adding(u)' = Adding(u) /\ AtWork(u)' = AtWork(u) /\ Adding(u) # 1
    BY <1>3, <2>1
  <2>. QED  BY <2>3, <2>4, <2>5, <2>6, <2>7, StaysInOrder
<1>5. CASE adding.transp = u
  <2>. SUFFICES ASSUME u \notin late PROVE Answered(u)' /\ Fresh(u)' /\ Counted(u)'
    BY <1>1 DEF InOrder, client
  <2>1. Answered(u) /\ Fresh(u) /\ Counted(u)
    BY <1>1 DEF InOrder
  <2>2. UNCHANGED <<pc, req, exit, late, up, down, calls, xid>>
    BY <1>1 DEF client, wire
  <2>3. Answered(u)'
    BY <2>1, <2>2 DEF Answered, LastCall
  <2>4. adding.file = req[u] /\ xid[u] = calls[u]
    BY <1>1, <1>5, <2>1 DEF Fresh
  <2>5. Fresh(u)'
    BY <1>1, <1>2, <1>3, <2>1, <2>2, <2>4 DEF Fresh, LastCall
  <2>6. InUp(u)' = InUp(u) /\ InDown(u)' = InDown(u)
    BY <2>2 DEF InUp, InDown
  <2>7. Adding(u) = 1
    BY <1>1, <1>5 DEF Adding
  <2>8. UnderWay(u)' = UnderWay(u)
    BY <1>2, <1>3, <1>5, <2>6, <2>7, Places, PartsOfCount
  <2>9. Counted(u)'
    BY <1>1, <2>1, <2>2, <2>8 DEF Counted
  <2>. QED  BY <2>3, <2>5, <2>9
<1>. QED  BY <1>4, <1>5

\* A request is lost from the queue.
LEMMA LossInOrder ==
    ASSUME Types, NEW u \in Thread, InOrder(u), RequestLost
    PROVE  InOrder(u)'
<1>1. PICK n \in DOMAIN workqueue : workqueue' = RemoveAt(workqueue, n)
  BY DEF RequestLost
<1>2. /\ InQueue(u)' \in Nat /\ InQueue(u)' <= InQueue(u)
      /\ \A i \in Queued(u)' : \E j \in Queued(u) : workqueue'[i] = workqueue[j]
  BY <1>1, QueueLoses
<1>3. damaged /\ UNCHANGED <<client, wire, alive, xid, job, adding, damaged>>
  BY DEF RequestLost
<1>4. Adding(u)' = Adding(u) /\ Working(u)' = Working(u) /\ AtWork(u)' = AtWork(u)
  BY <1>3 DEF Adding, Working, AtWork
<1>. QED  BY <1>2, <1>3, <1>4, StaysInOrder DEF client, wire

\* A worker takes a call from the queue.
LEMMA TakesInOrder ==
    ASSUME Types, NEW w \in Workers, NEW u \in Thread, InOrder(u), WorkerTakes(w)
    PROVE  InOrder(u)'
<1>. DEFINE m == Head(workqueue)
<1>1. /\ workqueue \in Seq(WorkItem) /\ workqueue # << >> /\ alive /\ job[w] = None
      /\ workqueue' = Tail(workqueue) /\ job' = [job EXCEPT ![w] = m]
      /\ UNCHANGED <<client, wire, alive, xid, adding>> /\ (damaged => damaged')
  BY DEF WorkerTakes, Types
<1>2. m \in WorkItem
  BY <1>1, HeadTail
<1>3. /\ m.transp = u => InQueue(u)' = InQueue(u) - 1 /\ 1 \in Queued(u) /\ workqueue[1] = m
      /\ m.transp # u => InQueue(u)' = InQueue(u)
      /\ \A i \in Queued(u)' : i + 1 \in Queued(u) /\ workqueue'[i] = workqueue[i + 1]
  BY <1>1, QueueShrinks
<1>4. /\ m.transp = u => AtWork(u)' = AtWork(u) + 1
      /\ m.transp # u => Working(u)' = Working(u)
      /\ \A v \in Working(u)' : \/ v \in Working(u) /\ job'[v] = job[v]
                                \/ m.transp = u /\ job'[v] = m
  <2>. HIDE DEF m
  <2>. QED  BY <1>1, <1>2, WorkerTurns
<1>7. Adding(u)' = Adding(u) /\ adding' = adding
  BY <1>1 DEF Adding
<1>. HIDE DEF m
<1>5. CASE m.transp # u
  <2>1. AtWork(u)' = AtWork(u) /\ \A v \in Working(u)' : v \in Working(u) /\ job'[v] = job[v]
    BY <1>4, <1>5 DEF AtWork
  <2>2. /\ InQueue(u)' = InQueue(u) /\ InQueue(u)' \in Nat /\ InQueue(u)' <= InQueue(u)
        /\ \A i \in Queued(u)' : \E j \in Queued(u) : workqueue'[i] = workqueue[j]
    BY <1>3, <1>5, PartsOfCount
  <2>. QED  BY <1>1, <1>7, <2>1, <2>2, StaysInOrder DEF client, wire
<1>6. CASE m.transp = u
  <2>. SUFFICES ASSUME u \notin late PROVE Answered(u)' /\ Fresh(u)' /\ Counted(u)'
    BY <1>1 DEF InOrder, client
  <2>1. Answered(u) /\ Fresh(u) /\ Counted(u)
    BY <1>1 DEF InOrder
  <2>2. UNCHANGED <<pc, req, exit, late, up, down, calls, xid>>
    BY <1>1 DEF client, wire
  <2>3. Answered(u)'
    BY <2>1, <2>2 DEF Answered, LastCall
  <2>4. m.file = req[u] /\ xid[u] = calls[u]
    BY <1>3, <1>6, <2>1 DEF Fresh
  <2>5. Fresh(u)'
    BY <1>3, <1>4, <1>7, <2>1, <2>2, <2>4 DEF Fresh, LastCall
  <2>6. InUp(u)' = InUp(u) /\ InDown(u)' = InDown(u)
    BY <2>2 DEF InUp, InDown
  <2>7. UnderWay(u)' = UnderWay(u)
    <3>1. InQueue(u)' = InQueue(u) - 1 /\ AtWork(u)' = AtWork(u) + 1 /\ Adding(u)' = Adding(u)
      BY <1>3, <1>4, <1>6, <1>7
    <3>2. InUp(u) \in Nat /\ Adding(u) \in Nat /\ InQueue(u) \in Nat /\ AtWork(u) \in Nat /\ InDown(u) \in Nat
      BY PartsOfCount
    <3>. QED  BY <2>6, <3>1, <3>2, Places
  <2>8. Counted(u)'
    BY <1>1, <2>1, <2>2, <2>7 DEF Counted
  <2>. QED  BY <2>3, <2>5, <2>8
<1>. QED  BY <1>5, <1>6

\* A worker is done with a call: it is answered to a client that is there, or
\* lost on one that has closed.
LEMMA DoneInOrder ==
    ASSUME Types, Placed, NEW w \in Workers, NEW u \in Thread, InOrder(u), FreedIsClosed,
           WorkerAnswers(w) \/ AnswersFreed(w)
    PROVE  InOrder(u)'
<1>. DEFINE t == job[w].transp
            reply(x) == [xid |-> xid[t], stat |-> x, file |-> job[w].file]
<1>1. /\ alive /\ job[w] # None /\ job' = [job EXCEPT ![w] = None]
      /\ UNCHANGED <<client, up, calls, xid, workqueue, adding, damaged>>
  BY DEF WorkerAnswers, AnswersFreed, Works, wire
<1>2. t \in Thread /\ \A x \in {0, 12} : reply(x) \in ReplyMsg
  BY <1>1 DEF Types, WorkItem, ReplyMsg
<1>3. \/ down' = down /\ Closed(t)
      \/ \E x \in {0, 12} : down' = [down EXCEPT ![t] = Append(down[t], reply(x))]
  BY <1>2 DEF WorkerAnswers, AnswersFreed, SendReply, wire, FreedIsClosed
<1>4. /\ t = u => AtWork(u)' = AtWork(u) - 1 /\ w \in Working(u)
      /\ t # u => Working(u)' = Working(u)
      /\ \A v \in Working(u)' : v \in Working(u) /\ job'[v] = job[v]
  BY <1>1, WorkerDone
<1>5. /\ Queued(u)' = Queued(u) /\ InQueue(u)' = InQueue(u) /\ workqueue' = workqueue
      /\ Adding(u)' = Adding(u) /\ adding' = adding
  BY <1>1 DEF Queued, InQueue, Adding
<1>6. CASE t # u
  <2>1. AtWork(u)' = AtWork(u)
    BY <1>4, <1>6 DEF AtWork
  <2>2. down'[u] = down[u]
    BY <1>2, <1>3, <1>6 DEF Types
  <2>3. /\ InQueue(u)' \in Nat /\ InQueue(u)' <= InQueue(u)
        /\ \A i \in Queued(u)' : \E j \in Queued(u) : workqueue'[i] = workqueue[j]
    BY <1>5, PartsOfCount
  <2>. QED  BY <1>1, <1>4, <1>5, <2>1, <2>2, <2>3, StaysInOrder DEF client
<1>7. CASE t = u
  <2>. SUFFICES ASSUME u \notin late PROVE Answered(u)' /\ Fresh(u)' /\ Counted(u)'
    BY <1>1 DEF InOrder, client
  <2>1. Answered(u) /\ Fresh(u) /\ Counted(u)
    BY <1>1 DEF InOrder
  <2>2. UNCHANGED <<pc, req, exit, late, joined, up, calls, xid, workqueue>>
    BY <1>1 DEF client, main
  <2>3. w \in Working(u) /\ AtWork(u) # 0
    BY <1>4, <1>7, PartsOfCount
  <2>4. /\ UnderWay(u) = 1 /\ pc[u] = "wait" /\ Adding(u) = 0
        /\ InUp(u) = 0 /\ InQueue(u) = 0 /\ AtWork(u) = 1 /\ InDown(u) = 0
    BY <2>1, <2>3, Places, PartsOfCount DEF Counted
  <2>5. down[u] = << >>
    BY <2>4, PartsOfCount
  <2>6. job[w].file = req[u] /\ xid[u] = calls[u]
    BY <2>1, <2>3 DEF Fresh
  <2>7. Fresh(u)'
    BY <1>4, <1>5, <2>1, <2>2 DEF Fresh, LastCall
  <2>8. InUp(u)' = 0 /\ Adding(u)' = 0 /\ InQueue(u)' = 0 /\ AtWork(u)' = 0
    <3>1. InUp(u)' = InUp(u)
      BY <2>2 DEF InUp
    <3>. QED  BY <1>4, <1>5, <1>7, <2>4, <3>1
  <2>9. PICK x \in {0, 12} : \/ down'[u] = down[u] /\ Closed(u)
                             \/ down'[u] = Append(down[u], reply(x))
    BY <1>2, <1>3, <1>7 DEF Types
  <2>10. reply(x) \in ReplyMsg /\ LastCall(u, reply(x))
    BY <1>2, <1>7, <2>6, <2>9 DEF LastCall
  <2>11. calls'[u] = calls[u] /\ UNCHANGED client
    BY <1>1
  <2>. HIDE DEF reply
  <2>12. Answered(u)' /\ Counted(u)'
    BY <2>4, <2>5, <2>8, <2>9, <2>10, <2>11, SendInOrder
  <2>. QED  BY <2>7, <2>12
<1>. QED  BY <1>6, <1>7

LEMMA InOrderStep ==
    ASSUME Types, Placed, FreedIsClosed, \A u \in Thread : InOrder(u), Next
    PROVE  \A u \in Thread : InOrder(u)'
<1>. SUFFICES ASSUME NEW u \in Thread PROVE InOrder(u)'
  OBVIOUS
<1>0. InOrder(u)
  OBVIOUS
<1>1. CASE MainStep
  <2>1. /\ pc'[u] = "wait" <=> pc[u] = "wait"
        /\ exit' = "running" => exit = "running"
        /\ UNCHANGED <<late, req, wire, server>>
    <3>1. CASE Create
      <4>1. created + 1 \in Thread /\ created + 1 > created
        BY <3>1, RpcAssumption DEF Create, Types, Thread
      <4>2. pc[created + 1] = "new"
        BY <4>1 DEF Placed
      <4>. QED  BY <3>1, <4>1, <4>2 DEF Create, Go, Types
    <3>2. CASE CreateFails \/ Join \/ Finish
      BY <3>2 DEF CreateFails, Join, Finish, Exits
    <3>. QED  BY <1>1, <3>1, <3>2 DEF MainStep
  <2>. QED  BY <1>0, <2>1, NoCallMoves DEF wire, server, steque
<1>2. ASSUME NEW t \in Thread, ThreadStep(t) PROVE InOrder(u)'
  <2>1. UNCHANGED <<alive, xid, workqueue, job, adding, damaged>>
    BY <1>2, ClientLeavesServer DEF ClientStep, server, steque
  <2>2. late \subseteq late' /\ (exit' = "running" => exit = "running")
    BY <1>2
       DEF ThreadStep, Take, Leave, ReadFails, Call, Reply, ErrorReply, SkipReply, Timeout, Disconnected,
           Returns, Exits, client
  <2>3. CASE u # t
    <3>1. /\ pc'[u] = pc[u] /\ req'[u] = req[u] /\ down'[u] = down[u] /\ up'[u] = up[u]
          /\ calls'[u] = calls[u]
      <4>. USE <2>3 DEF Types, At, Go, Returns, Receive, Exits, wire, client
      <4>1. CASE Take(t) \/ Leave(t) \/ ReadFails(t)
        BY <4>1 DEF Take, Leave, ReadFails
      <4>2. CASE Call(t)
        BY <4>2 DEF Call
      <4>3. CASE Reply(t) \/ ErrorReply(t) \/ SkipReply(t)
        BY <4>3 DEF Reply, ErrorReply, SkipReply
      <4>4. CASE Timeout(t) \/ Disconnected(t)
        BY <4>4 DEF Timeout, Disconnected
      <4>. QED  BY <1>2, <4>1, <4>2, <4>3, <4>4 DEF ThreadStep
    <3>. QED  BY <1>0, <2>1, <2>2, <3>1, NoCallMoves
  <2>4. CASE u = t
    <3>1. CASE Call(t)
      BY <1>0, <2>4, <3>1, CallInOrder
    <3>2. CASE Reply(t) \/ ErrorReply(t)
      BY <1>0, <2>4, <3>2, ReplyInOrder
    <3>3. CASE SkipReply(t)
      BY <1>0, <2>4, <3>3, SkipInOrder
    <3>4. CASE Timeout(t)
      BY <2>4, <3>4 DEF Timeout, InOrder
    <3>5. CASE Take(t) \/ Leave(t) \/ ReadFails(t)
      <4>1. /\ pc'[t] = "wait" <=> pc[t] = "wait"
            /\ pc[t] = "wait" => req'[t] = req[t]
            /\ UNCHANGED wire
        BY <3>5 DEF Take, Leave, ReadFails, At, Go, Exits, Types
      <4>. QED  BY <1>0, <2>1, <2>2, <2>4, <4>1, NoCallMoves DEF wire
    <3>6. CASE Disconnected(t)
      <4>1. CASE Exits("killed")
        <5>1. UNCHANGED <<pc, req, wire>>
          BY <4>1 DEF Exits
        <5>. QED  BY <1>0, <2>1, <2>2, <2>4, <5>1, NoCallMoves DEF wire
      <4>2. CASE ~Exits("killed")
        <5>1. ~alive /\ down[t] = << >> /\ UNCHANGED <<late, down>>
          BY <3>6, <4>2 DEF Disconnected
        <5>2. Len(down'[t]) = 0 /\ DOMAIN down'[t] = {}
          BY <5>1
        <5>3. Answered(t)'
          BY <5>2 DEF Answered
        <5>. QED  BY <2>1, <2>4, <5>1, <5>3 DEF InOrder
      <4>. QED  BY <4>1, <4>2
    <3>. QED  BY <1>2, <3>1, <3>2, <3>3, <3>4, <3>5, <3>6 DEF ThreadStep
  <2>. QED  BY <2>3, <2>4
<1>3. CASE BossStep
  <2>1. ASSUME NEW t \in Thread, BossFrees(t) PROVE InOrder(u)'
    BY <1>0, <2>1, NoCallMoves DEF BossFrees, client, wire, steque
  <2>. QED  BY <1>0, <1>3, <2>1, BossInOrder, AddsInOrder DEF BossStep
<1>4. CASE WorkerStep
  <2>1. ASSUME NEW w \in Workers, BadImage(w) \/ WorkerUnlocks(w) PROVE InOrder(u)'
    BY <1>0, <2>1, NoCallMoves DEF BadImage, WorkerUnlocks, client, wire, steque
  <2>. QED  BY <1>0, <1>4, <2>1, TakesInOrder, DoneInOrder DEF WorkerStep
<1>5. CASE DamageStep
  <2>1. CASE StequeEnds
    BY <1>0, <2>1, NoCallMoves DEF StequeEnds, client, wire, steque
  <2>. QED  BY <1>0, <1>5, <2>1, LossInOrder DEF DamageStep
<1>. QED  BY <1>1, <1>2, <1>3, <1>4, <1>5, NextIs DEF ClientStep, ServerSteps

(***************************************************************************)
(* Transports, and what the process has done when it ends.                 *)
(***************************************************************************)
LEMMA ClientRuns == ClientStep => exit = "running"
  BY DEF ClientStep, MainStep, ThreadStep, Create, CreateFails, Join, Finish, Take,
         Leave, ReadFails, Call, Reply, ErrorReply, SkipReply, Timeout, Disconnected, At

LEMMA LateStays == Next => late \subseteq late'
<1>1. ClientStep => late \subseteq late'
  BY DEF ClientStep, MainStep, ThreadStep, Create, CreateFails, Join, Finish, Exits, Take,
         Leave, ReadFails, Call, Reply, ErrorReply, SkipReply, Timeout, Disconnected, Returns, client
<1>. QED  BY <1>1, NextIs, ServerLeavesClient DEF client

LEMMA FreedStep ==
    ASSUME Types, FreedIsClosed, Next
    PROVE  FreedIsClosed'
<1>1. ASSUME NEW t \in Thread, Closed(t) PROVE Closed(t)'
  <2>1. CASE ClientStep
    <3>1. exit = "running" /\ t <= joined
      BY <1>1, <2>1, ClientRuns DEF Closed
    <3>2. joined' = joined \/ joined' = joined + 1
      BY <2>1
         DEF ClientStep, MainStep, ThreadStep, Create, CreateFails, Join, Finish, Exits, Take,
             Leave, ReadFails, Call, Reply, ErrorReply, SkipReply, Timeout, Disconnected, Returns, client, main
    <3>3. joined \in Nat /\ t \in Nat
      BY DEF Types, Thread
    <3>4. t <= joined'
      BY <3>1, <3>2, <3>3
    <3>. QED  BY <3>4 DEF Closed
  <2>2. CASE ServerSteps
    BY <1>1, <2>2, ServerLeavesClient DEF Closed, client, main
  <2>. QED  BY <2>1, <2>2, NextIs
<1>2. CASE freed' = freed
  BY <1>1, <1>2 DEF FreedIsClosed, Types
<1>3. ASSUME NEW t \in Thread, BossFrees(t) PROVE FreedIsClosed'
  BY <1>1, <1>3 DEF FreedIsClosed, BossFrees, Types
<1>4. ClientStep \/ WorkerStep \/ DamageStep => freed' = freed
  BY ClientLeavesServer
     DEF server, WorkerStep, WorkerTakes, WorkerUnlocks, WorkerAnswers, AnswersFreed, BadImage,
         DamageStep, RequestLost, StequeEnds
<1>5. BossAdds \/ (\E t \in Thread : BossReceives(t)) => freed' = freed
  BY DEF BossReceives, BossAdds
<1>. QED  BY <1>2, <1>3, <1>4, <1>5, NextIs DEF BossStep, ServerSteps

\* A client that has closed and has a call in the server ended while it waited.
LEMMA ClosedWhileWaiting ==
    ASSUME Types, Placed, NEW t \in Thread, InOrder(t), alive, t \notin late, Closed(t),
           Queued(t) # {} \/ Working(t) # {}
    PROVE  exit # "running" /\ joined < Threads
<1>1. Counted(t)
  BY DEF InOrder
<1>2. InQueue(t) # 0 \/ AtWork(t) # 0
  BY PartsOfCount
<1>3. UnderWay(t) # 0
  BY <1>2, Places, PartsOfCount
<1>4. pc[t] = "wait"
  BY <1>1, <1>3 DEF Counted
<1>5. ~(t <= joined)
  BY <1>4 DEF Placed
<1>6. t \in Nat /\ t <= Threads /\ Threads \in Nat /\ joined \in Nat
  BY RpcAssumption DEF Types, Thread
<1>. QED  BY <1>5, <1>6 DEF Closed

LEMMA OutlivesStep ==
    ASSUME Types, Placed, FreedIsClosed, \A u \in Thread : InOrder(u), TransportOutlivesCall, Next
    PROVE  TransportOutlivesCall'
<1>. DEFINE Ended == exit # "running" /\ joined < Threads
<1>0. late \subseteq late'
  BY LateStays
<1>1. CASE ClientStep
  <2>1. exit = "running" /\ UNCHANGED <<job, freed>>
    BY <1>1, ClientRuns, ClientLeavesServer DEF server, steque
  <2>. QED  BY <1>0, <2>1 DEF TransportOutlivesCall
<1>2. CASE ServerSteps
  <2>1. UNCHANGED <<exit, joined, late>>
    BY <1>2, ServerLeavesClient DEF client, main
  <2>2. CASE BossAdds \/ DamageStep \/ \E t \in Thread : BossReceives(t)
    <3>1. UNCHANGED <<job, freed>>
      BY <2>2 DEF BossReceives, BossAdds, DamageStep, RequestLost, StequeEnds, steque
    <3>. QED  BY <2>1, <3>1 DEF TransportOutlivesCall
  <2>3. ASSUME NEW t \in Thread, BossFrees(t) PROVE TransportOutlivesCall'
    <3>1. freed' = freed \cup {t} /\ job' = job /\ alive /\ Closed(t)
      BY <2>3 DEF BossFrees, steque
    <3>2. ASSUME NEW w \in Workers, job[w] # None, job[w].transp = t, t \notin late PROVE Ended
      BY <3>1, <3>2, ClosedWhileWaiting DEF Working
    <3>. QED  BY <2>1, <3>1, <3>2 DEF TransportOutlivesCall
  <2>4. ASSUME NEW w \in Workers, WorkerTakes(w) PROVE TransportOutlivesCall'
    <3>1. /\ workqueue \in Seq(WorkItem) /\ workqueue # << >> /\ alive /\ freed' = freed
          /\ job'[w] = Head(workqueue) /\ \A v \in Workers : v # w => job'[v] = job[v]
      BY <2>4 DEF WorkerTakes, Types
    <3>2. Head(workqueue) \in WorkItem /\ Head(workqueue) = workqueue[1] /\ 1 \in DOMAIN workqueue
      BY <3>1, HeadTail
    <3>3. Head(workqueue).transp \in Thread
      BY <3>2 DEF WorkItem
    <3>4. ASSUME Head(workqueue).transp \in freed, Head(workqueue).transp \notin late PROVE Ended
      <4>1. Queued(Head(workqueue).transp) # {}
        BY <3>2 DEF Queued
      <4>2. Closed(Head(workqueue).transp)
        BY <3>4 DEF FreedIsClosed
      <4>. QED  BY <3>1, <3>3, <3>4, <4>1, <4>2, ClosedWhileWaiting
    <3>. QED  BY <2>1, <3>1, <3>4 DEF TransportOutlivesCall
  <2>5. ASSUME NEW w \in Workers, WorkerAnswers(w) \/ AnswersFreed(w) \/ BadImage(w) \/ WorkerUnlocks(w)
        PROVE  TransportOutlivesCall'
    <3>1. freed' = freed /\ \A v \in Workers : job'[v] = job[v] \/ job'[v] = None
      BY <2>5 DEF WorkerAnswers, AnswersFreed, BadImage, WorkerUnlocks, steque, Types
    <3>. QED  BY <2>1, <3>1 DEF TransportOutlivesCall
  <2>. QED  BY <1>2, <2>2, <2>3, <2>4, <2>5 DEF ServerSteps, BossStep, WorkerStep
<1>. QED  BY <1>1, <1>2, NextIs

LEMMA OutputStep ==
    ASSUME Types, Placed, Taken, \A u \in Thread : InOrder(u), OutputIsOwn, Next
    PROVE  OutputIsOwn'
<1>0. late \subseteq late'
  BY LateStays
<1>1. CASE UNCHANGED <<output, owner>>
  BY <1>0, <1>1 DEF OutputIsOwn
<1>2. ASSUME NEW t \in Thread, Take(t) PROVE OutputIsOwn'
  <2>1. queue \in Seq(Files) /\ queue # << >>
    BY <1>2 DEF Take, Types
  <2>2. Head(queue) \in Files /\ Head(queue) = queue[1] /\ 1 \in DOMAIN queue
    BY <2>1, HeadTail
  <2>3. output[Head(queue)] = None /\ output' = output
    BY <1>2, <2>2 DEF Take, Taken
  <2>4. \A f \in Files : f # Head(queue) => owner'[f] = owner[f]
    BY <1>2 DEF Take, Types
  <2>. QED  BY <1>0, <2>3, <2>4 DEF OutputIsOwn
<1>3. ASSUME NEW t \in Thread, Reply(t) PROVE OutputIsOwn'
  <2>1. /\ down[t] \in Seq(ReplyMsg) /\ down[t] # << >>
        /\ req[t] \in Files /\ owner[req[t]] = t /\ owner' = owner
    BY <1>3, RpcAssumption DEF Reply, Returns, At, Types, Placed, Taken
  <2>2. Head(down[t]) = down[t][1] /\ 1 \in DOMAIN down[t]
    BY <2>1, HeadTail
  <2>3. t \notin late => Head(down[t]).file = req[t]
    <3>1. t \notin late => LastCall(t, down[t][1])
      BY <2>2 DEF InOrder, Answered
    <3>. QED  BY <2>2, <3>1 DEF LastCall
  <2>4. \/ output' = output
        \/ output' = [output EXCEPT ![req[t]] = Head(down[t]).file]
    BY <1>3 DEF Reply, WriteToFile
  <2>5. CASE output' = output
    BY <1>0, <2>1, <2>5 DEF OutputIsOwn
  <2>6. CASE output' = [output EXCEPT ![req[t]] = Head(down[t]).file]
    <3>1. /\ output'[req[t]] = Head(down[t]).file
          /\ \A f \in Files : f # req[t] => output'[f] = output[f]
      BY <2>1, <2>6 DEF Types
    <3>. QED  BY <1>0, <2>1, <2>3, <3>1 DEF OutputIsOwn
  <2>. QED  BY <2>4, <2>5, <2>6
<1>4. CASE ServerSteps \/ MainStep
  BY <1>1, <1>4, ServerLeavesClient
     DEF client, MainStep, Create, CreateFails, Join, Finish, Exits
<1>5. ASSUME NEW t \in Thread, ThreadStep(t), ~Take(t), ~Reply(t) PROVE OutputIsOwn'
  BY <1>1, <1>5
     DEF ThreadStep, Leave, ReadFails, Exits, Call, ErrorReply, SkipReply, client, Timeout,
         Returns, Disconnected
<1>. QED  BY <1>2, <1>3, <1>4, <1>5, NextIs DEF ClientStep

LEMMA SuccessStep ==
    ASSUME Types, Placed, Coded, SuccessIsOfAll, Next
    PROVE  SuccessIsOfAll'
<1>0. UNCHANGED disk
  BY NextIs
<1>1. CASE ServerSteps
  <2>1. UNCHANGED <<exit, queue, req, output, late, erred>> /\ alive
    BY <1>1, ServerLeavesClient, ServerRuns DEF client
  <2>. QED  BY <1>0, <2>1 DEF SuccessIsOfAll, disk
<1>2. CASE ClientStep
  <2>1. exit = "running" /\ alive' = alive
    BY <1>2, ClientRuns, ClientLeavesServer DEF server
  <2>2. CASE exit' \in {"running", "killed"}
    BY <2>2 DEF SuccessIsOfAll
  <2>3. CASE CreateFails
    BY <2>1, <2>3 DEF CreateFails, Exits, SuccessIsOfAll
  <2>4. ASSUME NEW t \in Thread, ReadFails(t) PROVE SuccessIsOfAll'
    BY <1>0, <2>4 DEF ReadFails, Exits, SuccessIsOfAll, disk
  <2>5. CASE Finish
    <3>1. /\ joined = Threads /\ UNCHANGED <<queue, req, output, late, erred>>
          /\ exit' = IF result = 0 THEN "success" ELSE "failure"
      BY <2>5 DEF Finish, Exits
    <3>2. \A t \in Thread : t \in 1..joined /\ pc[t] = "ended"
      BY <3>1 DEF Thread, Placed
    <3>3. CASE result = 0
      <4>1. 1 \in Thread
        BY RpcAssumption DEF Thread
      <4>2. queue = << >>
        BY <3>2, <4>1 DEF Placed
      <4>3. \A t \in Thread : req[t] \in Files \ refused => output[req[t]] # None
        BY <3>2, <3>3 DEF Coded
      <4>. QED  BY <1>0, <3>1, <3>3, <4>2, <4>3 DEF SuccessIsOfAll, disk
    <3>4. CASE result # 0
      BY <2>1, <3>1, <3>4 DEF Coded, SuccessIsOfAll
    <3>. QED  BY <3>3, <3>4
  <2>6. CASE Create \/ Join
    BY <2>1, <2>2, <2>6 DEF Create, Join
  <2>7. ASSUME NEW t \in Thread, ThreadStep(t), ~ReadFails(t) PROVE SuccessIsOfAll'
    <3>1. exit' \in {"running", "killed"}
      BY <2>1, <2>7
         DEF ThreadStep, Take, Leave, Call, Reply, ErrorReply, SkipReply, Timeout, Disconnected,
             Returns, Exits, client
    <3>. QED  BY <2>2, <3>1
  <2>. QED  BY <1>2, <2>3, <2>4, <2>5, <2>6, <2>7 DEF ClientStep, MainStep
<1>. QED  BY <1>1, <1>2, NextIs

(***************************************************************************)
(* The invariant holds.                                                    *)
(***************************************************************************)
LEMMA InitState == Init => IInv
<1>. SUFFICES ASSUME Init PROVE IInv
  OBVIOUS
<1>1. Types
  BY TypesInit
<1>2. \A t \in Thread : t \in Nat /\ t > 0
  BY RpcAssumption DEF Thread
<1>3. Placed
  BY <1>2 DEF Init, Placed
<1>4. Taken
  <2>1. \A i \in DOMAIN queue : queue[i] \in Files
    BY <1>1 DEF Types
  <2>2. \A i, j \in DOMAIN queue : queue[i] = queue[j] => i = j
    BY RpcAssumption DEF Init, IsInjective
  <2>. QED  BY <2>1, <2>2 DEF Init, Taken
<1>5. Coded
  BY RpcAssumption DEF Init, Coded
<1>6. Given
  BY DEF Init, Given
<1>7. ASSUME NEW t \in Thread PROVE InOrder(t)
  <2>1. /\ Len(down[t]) = 0 /\ DOMAIN down[t] = {} /\ DOMAIN up[t] = {} /\ Len(up[t]) = 0
        /\ pc[t] = "new"
    BY DEF Init
  <2>2. Queued(t) = {} /\ Working(t) = {} /\ Adding(t) = 0
    BY DEF Init, Queued, Working, Adding
  <2>3. InUp(t) = 0 /\ InQueue(t) = 0 /\ AtWork(t) = 0 /\ InDown(t) = 0
    BY <2>1, <2>2, FS_EmptySet DEF InUp, InQueue, AtWork, InDown
  <2>4. UnderWay(t) = 0
    BY <2>2, <2>3, Places
  <2>5. Answered(t) /\ Fresh(t)
    BY <2>1, <2>2 DEF Init, Answered, Fresh
  <2>6. Counted(t)
    BY <2>1, <2>4 DEF Counted
  <2>. QED  BY <2>5, <2>6 DEF InOrder
<1>8. FreedIsClosed /\ OutputIsOwn /\ TransportOutlivesCall /\ SuccessIsOfAll
  BY DEF Init, FreedIsClosed, OutputIsOwn, TransportOutlivesCall, SuccessIsOfAll
<1>. QED  BY <1>1, <1>3, <1>4, <1>5, <1>6, <1>7, <1>8 DEF IInv

LEMMA NextKeeps == IInv /\ [Next]_vars => IInv'
<1>1. CASE IInv /\ Next
  <2>1. /\ Types /\ Placed /\ Taken /\ Coded /\ Given /\ (\A t \in Thread : InOrder(t))
        /\ FreedIsClosed /\ OutputIsOwn /\ TransportOutlivesCall /\ SuccessIsOfAll
    BY <1>1 DEF IInv
  <2>2. Types'
    BY <1>1, <2>1, NextIs, TypesOfClient, TypesOfServer
  <2>3. Placed' /\ Taken' /\ Coded' /\ Given'
    BY <1>1, <2>1, PlacedStep, TakenStep, CodedStep, GivenStep
  <2>4. (\A t \in Thread : InOrder(t)') /\ FreedIsClosed'
    BY <1>1, <2>1, InOrderStep, FreedStep
  <2>5. OutputIsOwn' /\ TransportOutlivesCall' /\ SuccessIsOfAll'
    BY <1>1, <2>1, OutputStep, OutlivesStep, SuccessStep
  <2>. QED  BY <2>2, <2>3, <2>4, <2>5 DEF IInv
<1>2. CASE IInv /\ UNCHANGED vars
  <2>. USE <1>2 DEF IInv, vars, disk, client, main, wire, server, steque
  <2>1. Types' /\ Placed' /\ Taken' /\ Coded' /\ Given'
    BY DEF Types, Placed, Taken, Coded, Given
  <2>2. ASSUME NEW t \in Thread PROVE InOrder(t)'
    <3>1. Types /\ InOrder(t)
      OBVIOUS
    <3>. QED  BY <3>1, NoCallMoves
  <2>3. FreedIsClosed' /\ OutputIsOwn' /\ TransportOutlivesCall' /\ SuccessIsOfAll'
    BY DEF FreedIsClosed, Closed, OutputIsOwn, TransportOutlivesCall, SuccessIsOfAll
  <2>. QED  BY <2>1, <2>2, <2>3
<1>. QED  BY <1>1, <1>2

LEMMA Invariance == Spec => []IInv
  BY InitState, NextKeeps, PTL DEF Spec

\* Every variable keeps its type, main joins only what it created, and a
\* transport never holds an xid that the client has not given out.
THEOREM TypeCorrect == Spec => []TypeOK
<1>1. IInv => TypeOK
  BY DEF IInv, Types, Given, TypeOK
<1>. QED  BY <1>1, Invariance, PTL

\* write_to_file writes the reduction of the thread's own input, unless a call
\* of minify_via_rpc on the same connection timed out before.
THEOREM OutputsAreOwn == Spec => []OutputIsOwn
<1>1. IInv => OutputIsOwn
  BY DEF IInv
<1>. QED  BY <1>1, Invariance, PTL

\* svc_sendreply never meets a transport that svc_run has destroyed, unless its
\* client gave up a call or ended before all its threads were joined.
THEOREM TransportsOutliveCalls == Spec => []TransportOutlivesCall
<1>1. IInv => TransportOutlivesCall
  BY DEF IInv
<1>. QED  BY <1>1, Invariance, PTL

\* Between clnt_call and its reply at most one message of the thread exists, on
\* the wire, in the server's queue or with a worker, even when the unlocked
\* enqueue met a pop, and exactly one until then; before and after, none.
THEOREM CallsAreAnsweredOnce == Spec => []OneAnswerPerCall
<1>1. IInv => OneAnswerPerCall
  BY DEF IInv, InOrder, Counted, OneAnswerPerCall
<1>. QED  BY <1>1, Invariance, PTL

\* The process reports success only when the queue is empty and no thread's
\* last image is missing that could be written, and failure only when a file
\* was missing, the server died, a call timed out or its answer was an error.
THEOREM SuccessesAreOfAll == Spec => []SuccessIsOfAll
<1>1. IInv => SuccessIsOfAll
  BY DEF IInv
<1>. QED  BY <1>1, Invariance, PTL
===============================================================================
