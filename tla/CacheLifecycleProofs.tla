------------------------ MODULE CacheLifecycleProofs ------------------------
(***************************************************************************)
(* What CacheLifecycle promises, for any number of handlers, workers and   *)
(* starts of both processes, any list of files and any first capacity.     *)
(***************************************************************************)
EXTENDS CacheLifecycle, FiniteSetTheorems, TLAPS

(***************************************************************************)
(* The inductive invariant.  The types, with those TypeOK leaves out.      *)
(***************************************************************************)
Reply == {NotFound} \cup {Found(f) : f \in Keys}
Serving == {"search", "stat", "notFound", "statFailed", "map", "copy", "unmapped", "reply"}
Locking == {"map", "copy", "unmapped", "reply", "stuck"}
Awaiting == {"find", "keepResp", "recv", "wait"}

\* What the queue of a key holds.
Held(k) == IF key[k] = None THEN << >> ELSE queue[key[k]]

\* A queue that lives has one key, and holds what that key is for.
KernelTypes ==
    /\ made \in Nat /\ key \in [{"req", "resp"} -> Nat \cup {None}]
    /\ \A k \in {"req", "resp"} : key[k] # None => key[k] < made
    /\ DOMAIN queue = {key["req"], key["resp"]} \ {None}
    /\ key["req"] # None => key["req"] # key["resp"]
    /\ Held("req") \in Seq(Keys) /\ Held("resp") \in Seq(Reply)
    /\ segment \in Nat \cup {-1} /\ shm \in Keys \cup {None}

Kinds == {"none", "not found", "header", "OK", "cut short"}
Answers == [kind : Kinds, len : Nat, file : Keys \cup {None}]

ProxyTypes ==
    /\ ppc \in {"down", "segment", "up"} /\ proxies \in Nat /\ left \in Nat
    /\ hpc \in [Handlers -> {"idle", "get", "keepReq", "send", "find", "keepResp", "recv", "wait",
                             "stream"}]
    /\ on \in [Handlers -> Nat \cup {None}]
    /\ want \in [Handlers -> Keys \cup {None}]
    /\ answer \in [Handlers -> Answers]

CacheTypes ==
    /\ cpc \in {"down", "load", "find", "create", "run", "rmReq", "rmResp", "unlink"}
    /\ caches \in Nat /\ errors \in Nat /\ msqid \in Nat /\ msqidC \in Nat
    /\ wpc \in [Workers -> {"off", "wait", "recv", "search", "stat", "notFound", "statFailed",
                            "rmid", "map", "copy", "unmapped", "reply", "gone", "stuck"}]
    /\ job \in [Workers -> Keys \cup {None}]

IndexTypes ==
    /\ rest \in Seq(Keys) /\ items \in Seq(Keys) /\ list \in Seq(Keys) /\ capacity \in Nat
    /\ cpc # "down" => Len(items) < capacity
    /\ sought \in [Workers -> Nat] /\ lo \in [Workers -> Int] /\ hi \in [Workers -> Int]

Types == KernelTypes /\ ProxyTypes /\ CacheTypes /\ IndexTypes

\* An id that is used was given, and never for the other key.
Given ==
    /\ \A h \in Handlers :
          /\ hpc[h] = "keepReq" => on[h] \in 0..made - 1 /\ on[h] # key["resp"]
          /\ hpc[h] = "send" => msqidP \in 0..made - 1 /\ msqidP # key["resp"]
          /\ hpc[h] \in {"keepResp", "wait"} /\ on[h] # None
                => on[h] \in 0..made - 1 /\ on[h] # key["req"]
          /\ hpc[h] = "recv" /\ msqidCP # None => msqidCP \in 0..made - 1 /\ msqidCP # key["req"]
    /\ cpc = "create" => msqid \in 0..made - 1 /\ msqid # key["resp"]
    /\ \A w \in Workers : wpc[w] # "off" =>
          /\ msqid \in 0..made - 1 /\ msqid # key["resp"]
          /\ msqidC \in 0..made - 1 /\ msqidC # key["req"]

\* Where the threads are, and response_mutex.
HandlersPlaced ==
    \A h \in Handlers : hpc[h] # "idle" => ppc = "up" /\ want[h] \in Keys

WorkersPlaced ==
    /\ \A w \in Workers :
          /\ wpc[w] # "off" => cpc \in {"run", "rmReq", "rmResp", "unlink"}
          /\ job[w] # None <=> wpc[w] \in Serving
          /\ job[w] # None => sought[w] = job[w]
    /\ \A v, w \in Workers : wpc[v] \in Locking /\ wpc[w] \in Locking => v = w

\* Who searches finds a table that is sorted and holds the list.
Sorted == Ordered(items) /\ Range(items) = Range(list)

Loaded ==
    /\ cpc = "load" => Range(items) \cup Range(rest) = Range(list)
    /\ cpc \in {"find", "create", "run"} => Sorted
    /\ \A w \in Workers : wpc[w] # "off" => Sorted
    /\ \A w \in Workers : wpc[w] = "notFound" => job[w] \notin Range(list)

\* The proxy comes first and brings the segment, which lasts as long as the
\* first cache does.
Brought ==
    /\ ppc # "down" \/ key["req"] # None \/ cpc \in {"create", "run"} => proxies > 0
    /\ \A w \in Workers : wpc[w] # "off" => proxies > 0
    /\ cpc # "down" => caches > 0
    /\ proxies > 0 /\ (caches = 0 \/ (caches = 1 /\ cpc # "down")) => segment # -1
    /\ \A w \in Workers : wpc[w] = "copy" /\ proxies <= 1 /\ caches <= 1
                          => segment = Size[job[w]]
    /\ \A w \in Workers : wpc[w] = "reply" /\ Size[job[w]] > 0 => segment # -1 /\ shm = job[w]
    /\ \A w \in Workers : wpc[w] = "unmapped" => proxies > 1 \/ caches > 1
    /\ \A w \in Workers : wpc[w] = "statFailed" => errors > 0

IInv ==
    /\ Types /\ Given /\ HandlersPlaced /\ WorkersPlaced /\ Loaded /\ SearchInRange
    /\ Brought /\ KilledAfterRestart /\ NoSecondAnswer

\* With one handler, what is on its way is its own:
InSegment(h) == Size[want[h]] > 0 => shm = want[h] \/ segment = -1
Truly(h, r) ==
    IF r.found THEN r.len = Size[want[h]] /\ InSegment(h)
    ELSE want[h] \notin Range(list) \/ errors > 0

OnItsWay(h) ==
    /\ \A i \in DOMAIN Held("req") : Held("req")[i] = want[h]
    /\ \A w \in Workers : job[w] # None => job[w] = want[h]
    /\ \A i \in DOMAIN Held("resp") : Truly(h, Held("resp")[i])

\* until it has been answered.
Own(h) ==
    left = 0 =>
        /\ hpc[h] \in Awaiting => OnItsWay(h)
        /\ hpc[h] = "stream" => answer[h].kind = "header" /\ answer[h].len = Size[want[h]]
                                /\ InSegment(h)

OwnInv == AnswerIsOwn /\ \A h \in Handlers : Own(h)

(***************************************************************************)
(* The steps, by the process that takes them.                              *)
(***************************************************************************)
ProxyMoves ==
    \/ ProxyStart \/ ProxyQueue \/ ProxySignal
    \/ \E h \in Handlers : Accept(h) \/ HandlerStep(h)
CacheMoves == CacheStart \/ CacheSignal \/ CacheLoadFails \/ CacheStep
WorkerMoves == \E w \in Workers : StatFails(w) \/ ReadFails(w) \/ WorkerStep(w)

\* There are no others, and each process leaves the variables of the other alone.
LEMMA NextIs ==
    /\ Next => ProxyMoves \/ CacheMoves \/ WorkerMoves
    /\ ProxyMoves => UNCHANGED cache
    /\ CacheMoves => UNCHANGED proxy
    /\ WorkerMoves => UNCHANGED proxy
<1>1. Next => ProxyMoves \/ CacheMoves \/ WorkerMoves
  BY DEF Next, Environment, ProxyMoves, CacheMoves, WorkerMoves
<1>2. ProxyMoves => UNCHANGED cache
  BY DEF ProxyMoves, ProxyStart, ProxyQueue, ProxySignal, Accept, HandlerStep, GetQueue,
         KeepRequests, SendRequest, QueueGone, FindQueue, KeepReplies, CallReceive, Receive,
         Stream, Answered, Same
<1>3. CacheMoves => UNCHANGED proxy
  BY DEF CacheMoves, CacheStart, CacheSignal, CacheLoadFails, CacheStep, CacheLoad, CacheSort,
         CacheFind, CacheCreate, RemoveQueue, Unlink, Ends
<1>4. WorkerMoves => UNCHANGED proxy
  BY DEF WorkerMoves, StatFails, ReadFails, WorkerStep, WaitTurn, ReceiveRequest, SearchOn,
         SearchEnds, SendReply, WorkerExits, RemoveReplies, LockSegment, MapSegment, MapNothing,
         CopyFile, CopyNothing, Killed, Calm, Ends
<1>. QED  BY <1>1, <1>2, <1>3, <1>4

\* A worker's step ends the process or touches this worker only.
LEMMA OfWorker ==
    ASSUME CacheTypes, NEW w \in Workers, StatFails(w) \/ ReadFails(w) \/ WorkerStep(w)
    PROVE  \/ \E how : Ends(how)
           \/ /\ UNCHANGED <<cacheMain, table>>
              /\ \A v \in Workers \ {w} : wpc'[v] = wpc[v] /\ job'[v] = job[v]
<1>1. CASE WorkerExits(w) \/ Killed(w)
  BY <1>1 DEF WorkerExits, Killed
<1>2. CASE StatFails(w) \/ ReadFails(w)
  BY <1>2 DEF StatFails, ReadFails, Turn, CacheTypes
<1>3. CASE WaitTurn(w) \/ SearchEnds(w) \/ RemoveReplies(w) \/ LockSegment(w) \/ MapSegment(w)
           \/ MapNothing(w) \/ CopyFile(w) \/ CopyNothing(w)
  BY <1>3 DEF WaitTurn, SearchEnds, RemoveReplies, LockSegment, MapSegment, MapNothing, CopyFile,
              CopyNothing, Turn, Calm, CacheTypes
<1>4. CASE ReceiveRequest(w)
  BY <1>4 DEF ReceiveRequest, Turn, Calm, CacheTypes
<1>5. CASE SearchOn(w)
  BY <1>5 DEF SearchOn, Narrow, Calm
<1>6. CASE SendReply(w)
  BY <1>6 DEF SendReply, Turn, Calm, CacheTypes
<1>. QED  BY <1>1, <1>2, <1>3, <1>4, <1>5, <1>6 DEF WorkerStep

(***************************************************************************)
(* The index.                                                              *)
(***************************************************************************)
LEMMA HeadTail ==
    ASSUME NEW S, NEW q \in Seq(S), q # << >>
    PROVE  /\ Head(q) \in S /\ Tail(q) \in Seq(S) /\ Head(q) = q[1] /\ Len(q) >= 1
           /\ Len(Tail(q)) = Len(q) - 1 /\ 1 \in DOMAIN q
           /\ \A i \in DOMAIN Tail(q) : i \in Nat /\ i + 1 \in DOMAIN q /\ Tail(q)[i] = q[i + 1]
  OBVIOUS

LEMMA Appended ==
    ASSUME NEW S, NEW q \in Seq(S), NEW m \in S
    PROVE  /\ Append(q, m) \in Seq(S) /\ Len(Append(q, m)) = Len(q) + 1
           /\ \A i \in DOMAIN q : Append(q, m)[i] = q[i]
           /\ Append(q, m)[Len(q) + 1] = m
           /\ \A i \in DOMAIN Append(q, m) : \/ i \in DOMAIN q /\ Append(q, m)[i] = q[i]
                                             \/ i = Len(q) + 1 /\ Append(q, m)[i] = m
  OBVIOUS

\* Half of what is left lies within it.
LEMMA MidInRange ==
    ASSUME IndexTypes, NEW w \in Workers, ~Exhausted(w)
    PROVE  Mid(w) \in Int /\ lo[w] <= Mid(w) /\ Mid(w) <= hi[w]
<1>1. lo[w] \in Int /\ hi[w] \in Int /\ lo[w] <= hi[w]
  BY DEF IndexTypes, Exhausted
<1>2. \A d \in Nat : d \div 2 \in Nat /\ d \div 2 <= d
  OBVIOUS
<1>3. hi[w] - lo[w] \in Nat
  BY <1>1
<1>4. (hi[w] - lo[w]) \div 2 \in Nat /\ (hi[w] - lo[w]) \div 2 <= hi[w] - lo[w]
  BY <1>2, <1>3
<1>. QED  BY <1>1, <1>4 DEF Mid

\* A turn of the loop in a sorted table loses no place the key may be at.
LEMMA NarrowKeepsRange ==
    ASSUME IndexTypes, Ordered(items), NEW w \in Workers, InRange(w), Narrow(w)
    PROVE  InRange(w)'
<1>. DEFINE m == Mid(w)
<1>1. m \in Int /\ lo[w] <= m /\ m <= hi[w]
  BY MidInRange DEF Narrow
<1>2. /\ lo[w] \in Int /\ hi[w] \in Int /\ 0 <= lo[w] /\ hi[w] < Len(items)
      /\ DOMAIN items = 1..Len(items) /\ Len(items) \in Nat /\ sought[w] \in Nat
      /\ \A i \in DOMAIN items : items[i] \in Nat
  <2>1. items \in Seq(Keys) /\ \A k \in Keys : k \in Nat
    BY IndexAssumption DEF IndexTypes
  <2>2. /\ DOMAIN items = 1..Len(items) /\ Len(items) \in Nat
        /\ \A i \in DOMAIN items : items[i] \in Nat
    BY <2>1
  <2>. QED  BY <2>2 DEF IndexTypes, InRange
<1>3. m + 1 \in DOMAIN items /\ m + 1 \in Int
  BY <1>1, <1>2
<1>4. items[m + 1] # sought[w] /\ items' = items /\ sought' = sought
  BY DEF Narrow, Hit, table
<1>. HIDE DEF m
<1>5. CASE sought[w] < items[m + 1]
  <2>1. hi'[w] = m - 1 /\ lo' = lo
    BY <1>5 DEF Narrow, IndexTypes, m
  <2>2. \A i \in DOMAIN items : items[i] = sought[w] => i < m + 1
    <3>. SUFFICES ASSUME NEW i \in DOMAIN items, items[i] = sought[w], ~(i < m + 1) PROVE FALSE
      BY <1>2
    <3>1. i = m + 1 \/ m + 1 < i
      BY <1>2, <1>3
    <3>2. items[m + 1] <= items[i]
      BY <1>2, <1>3, <3>1 DEF Ordered
    <3>. QED  BY <1>2, <1>3, <1>5, <3>2
  <2>. QED  BY <1>1, <1>2, <1>4, <2>1, <2>2 DEF InRange
<1>6. CASE ~(sought[w] < items[m + 1])
  <2>1. lo'[w] = m + 1 /\ hi' = hi
    BY <1>6 DEF Narrow, IndexTypes, m
  <2>2. \A i \in DOMAIN items : items[i] = sought[w] => i > m + 1
    <3>. SUFFICES ASSUME NEW i \in DOMAIN items, items[i] = sought[w], ~(i > m + 1) PROVE FALSE
      BY <1>2
    <3>1. i = m + 1 \/ i < m + 1
      BY <1>2, <1>3
    <3>2. items[i] <= items[m + 1]
      BY <1>2, <1>3, <3>1 DEF Ordered
    <3>. QED  BY <1>2, <1>3, <1>4, <1>6, <3>2
  <2>. QED  BY <1>1, <1>2, <1>4, <2>1, <2>2 DEF InRange
<1>. QED  BY <1>5, <1>6

\* qsort gives a table of the same keys.
LEMMA SortKeepsKeys ==
    ASSUME IndexTypes, SortTable
    PROVE  items' \in Seq(Keys) /\ Len(items') = Len(items) /\ Range(items') = Range(items)
<1>1. items \in Seq(Keys) /\ DOMAIN items = 1..Len(items) /\ Len(items) \in Nat
  BY DEF IndexTypes
<1>2. \A k \in Range(items) : k \in Keys
  BY <1>1 DEF Range
<1>3. items' \in [1..Len(items) -> Range(items)]
  BY <1>1 DEF SortTable
<1>4. items' \in Seq(Keys) /\ Len(items') = Len(items) /\ DOMAIN items' = DOMAIN items
  BY <1>1, <1>2, <1>3
<1>5. Range(items') \subseteq Range(items)
  BY <1>3, <1>4 DEF Range
<1>6. ASSUME NEW k \in Range(items) PROVE k \in Range(items')
  <2>1. PICK i \in DOMAIN items : items[i] = k
    BY DEF Range
  <2>2. IsFiniteSet(DOMAIN items)
    BY <1>1, FS_Interval
  <2>3. IsFiniteSet(Occurrences(items, k)) /\ IsFiniteSet(Occurrences(items', k))
    BY <1>4, <2>2, FS_Subset DEF Occurrences
  <2>4. Occurrences(items, k) # {}
    BY <2>1 DEF Occurrences
  <2>5. Cardinality(Occurrences(items', k)) = Cardinality(Occurrences(items, k))
    BY DEF SortTable
  <2>6. Occurrences(items', k) # {}
    BY <2>3, <2>4, <2>5, FS_EmptySet
  <2>. QED  BY <2>6 DEF Occurrences, Range
<1>. QED  BY <1>4, <1>5, <1>6

\* Where every action but those of the index leaves it: the table and the list
\* stay, and nobody is new to the table.
Resting ==
    /\ UNCHANGED <<list, table, search>>
    /\ cpc' \in {"find", "create", "run"} => cpc \in {"find", "create", "run"}
    /\ cpc' = "load" => cpc = "load"
    /\ cpc' # "down" => cpc # "down"
    /\ \A w \in Workers :
          /\ wpc'[w] # "off" => wpc[w] # "off" \/ cpc \in {"find", "create", "run"}
          /\ wpc'[w] = "search" => wpc[w] = "search"
          /\ wpc'[w] = "notFound" => wpc[w] = "notFound" /\ job'[w] = job[w]

IndexInv == IndexTypes /\ Loaded /\ SearchInRange

LEMMA RestingKeeps == IndexInv /\ Resting => IndexInv'
<1>. SUFFICES ASSUME IndexInv, Resting PROVE IndexInv'
  OBVIOUS
<1>1. /\ rest' = rest /\ items' = items /\ capacity' = capacity /\ list' = list
      /\ sought' = sought /\ lo' = lo /\ hi' = hi
  BY DEF Resting, table, search
<1>2. IndexTypes'
  BY <1>1 DEF IndexInv, IndexTypes, Resting
<1>3. Sorted' <=> Sorted
  BY <1>1 DEF Sorted
<1>4. Loaded'
  BY <1>1, <1>3 DEF IndexInv, Loaded, Resting
<1>5. SearchInRange'
  BY <1>1 DEF IndexInv, SearchInRange, InRange, Resting
<1>. QED  BY <1>2, <1>4, <1>5 DEF IndexInv

\* The end of the process leaves no table and no search.
LEMMA EndsIndex ==
    ASSUME IndexInv, NEW how, Ends(how)
    PROVE  IndexInv'
<1>1. /\ cpc' = "down" /\ list' = list /\ rest' = << >> /\ items' = << >> /\ capacity' = 0
      /\ sought' = [t \in Workers |-> 0] /\ lo' = [t \in Workers |-> 0]
      /\ hi' = [t \in Workers |-> -1] /\ \A w \in Workers : wpc'[w] = "off"
  BY DEF Ends, ClearIndex, Workers
<1>2. IndexTypes'
  BY <1>1 DEF IndexInv, IndexTypes
<1>3. Loaded' /\ SearchInRange'
  BY <1>1 DEF Loaded, SearchInRange
<1>. QED  BY <1>2, <1>3 DEF IndexInv

LEMMA IndexOfCache == CacheTypes /\ WorkersPlaced /\ IndexInv /\ CacheMoves => IndexInv'
<1>. SUFFICES ASSUME CacheTypes, WorkersPlaced, IndexInv, CacheMoves PROVE IndexInv'
  OBVIOUS
<1>0. IndexTypes /\ Loaded /\ SearchInRange
  BY DEF IndexInv
<1>1. CASE CacheLoadFails \/ Unlink
  BY <1>1, EndsIndex DEF CacheLoadFails, Unlink
<1>2. CASE CacheStart
  <2>1. /\ cpc = "down" /\ cpc' = "load" /\ rest' = list /\ items' = << >> /\ list' = list
        /\ capacity' = FirstCapacity /\ wpc' = wpc /\ UNCHANGED search
    BY <1>2 DEF CacheStart, OpenList
  <2>2. \A w \in Workers : wpc'[w] = "off"
    BY <2>1 DEF WorkersPlaced
  <2>3. IndexTypes'
    BY <1>0, <2>1, IndexAssumption DEF IndexTypes, search
  <2>4. Range(items') \cup Range(rest') = Range(list')
    BY <2>1 DEF Range
  <2>. QED  BY <2>1, <2>2, <2>3, <2>4 DEF IndexInv, Loaded, SearchInRange
<1>3. CASE CacheLoad
  <2>1. /\ cpc = "load" /\ cpc' = "load" /\ rest # << >> /\ list' = list
        /\ items' = Append(items, Head(rest)) /\ rest' = Tail(rest)
        /\ capacity' = (IF Len(items') = capacity THEN 2 * capacity ELSE capacity)
        /\ wpc' = wpc /\ UNCHANGED search
    BY <1>3 DEF CacheLoad, LoadLine, cacheMain
  <2>2. \A w \in Workers : wpc'[w] = "off"
    BY <2>1 DEF WorkersPlaced
  <2>3. items \in Seq(Keys) /\ rest \in Seq(Keys) /\ capacity \in Nat /\ Len(items) < capacity
    BY <1>0, <2>1 DEF IndexTypes
  <2>4. /\ Head(rest) \in Keys /\ Tail(rest) \in Seq(Keys) /\ Head(rest) = rest[1]
        /\ 1 \in DOMAIN rest
        /\ \A i \in DOMAIN Tail(rest) : i + 1 \in DOMAIN rest /\ Tail(rest)[i] = rest[i + 1]
    BY <2>1, <2>3, HeadTail
  <2>5. /\ items' \in Seq(Keys) /\ Len(items') = Len(items) + 1
        /\ \A i \in DOMAIN items : i \in DOMAIN items' /\ items'[i] = items[i]
        /\ Len(items) + 1 \in DOMAIN items' /\ items'[Len(items) + 1] = Head(rest)
        /\ \A i \in DOMAIN items' : \/ i \in DOMAIN items /\ items'[i] = items[i]
                                    \/ items'[i] = Head(rest)
    BY <2>1, <2>3, <2>4
  <2>6. capacity' \in Nat /\ Len(items') < capacity'
    <3>1. Len(items) \in Nat
      BY <2>3
    <3>. QED  BY <2>1, <2>3, <2>5, <3>1
  <2>7. IndexTypes'
    BY <1>0, <2>1, <2>4, <2>5, <2>6 DEF IndexTypes, search
  <2>8. Range(items') \cup Range(rest') = Range(items) \cup Range(rest)
    <3>1. Range(items') = Range(items) \cup {Head(rest)}
      BY <2>5 DEF Range
    <3>2. Range(rest) = {Head(rest)} \cup Range(Tail(rest))
      <4>1. ASSUME NEW i \in DOMAIN rest, i # 1
            PROVE  i - 1 \in DOMAIN Tail(rest) /\ rest[i] = Tail(rest)[i - 1]
        <5>1. rest \in Seq(Keys) /\ rest # << >>
          BY <2>1, <2>3
        <5>2. /\ DOMAIN rest = 1..Len(rest) /\ Len(rest) \in Nat
              /\ DOMAIN Tail(rest) = 1..Len(rest) - 1
          BY <5>1
        <5>3. i - 1 \in DOMAIN Tail(rest) /\ (i - 1) + 1 = i
          BY <4>1, <5>2
        <5>. QED  BY <2>4, <5>3
      <4>2. ASSUME NEW x \in Range(rest) PROVE x = Head(rest) \/ x \in Range(Tail(rest))
        <5>1. PICK i \in DOMAIN rest : x = rest[i]
          BY DEF Range
        <5>2. CASE i = 1
          BY <2>4, <5>1, <5>2
        <5>3. CASE i # 1
          BY <4>1, <5>1, <5>3 DEF Range
        <5>. QED  BY <5>2, <5>3
      <4>3. \A x \in Range(Tail(rest)) : x \in Range(rest)
        BY <2>4 DEF Range
      <4>4. Head(rest) \in Range(rest)
        BY <2>4 DEF Range
      <4>. QED  BY <4>2, <4>3, <4>4
    <3>. QED  BY <2>1, <3>1, <3>2
  <2>. QED  BY <1>0, <2>1, <2>2, <2>7, <2>8 DEF IndexInv, Loaded, SearchInRange
<1>4. CASE CacheSort
  <2>1. /\ cpc = "load" /\ cpc' = "find" /\ rest = << >> /\ SortTable /\ wpc' = wpc
        /\ UNCHANGED <<list, rest, capacity, search>> /\ Ordered(items')
    BY <1>4 DEF CacheSort, SortTable
  <2>2. items' \in Seq(Keys) /\ Len(items') = Len(items) /\ Range(items') = Range(items)
    BY <1>0, <2>1, SortKeepsKeys
  <2>3. \A w \in Workers : wpc'[w] = "off"
    BY <2>1 DEF WorkersPlaced
  <2>4. IndexTypes'
    BY <1>0, <2>1, <2>2 DEF IndexTypes, search
  <2>5. Range(rest) = {}
    BY <2>1 DEF Range
  <2>6. Sorted'
    BY <1>0, <2>1, <2>2, <2>5 DEF Sorted, Loaded
  <2>. QED  BY <2>1, <2>3, <2>4, <2>6 DEF IndexInv, Loaded, SearchInRange
<1>5. CASE CacheFind \/ CacheSignal
  <2>1. Resting
    BY <1>5 DEF CacheFind, CacheSignal, Resting, table, search
  <2>. QED  BY <2>1, RestingKeeps
<1>6. CASE CacheCreate
  <2>1. Resting
    BY <1>6 DEF CacheCreate, Resting, table, search
  <2>. QED  BY <2>1, RestingKeeps
<1>7. CASE RemoveQueue("rmReq", msqid, "rmResp") \/ RemoveQueue("rmResp", msqidC, "unlink")
  <2>1. Resting
    BY <1>7 DEF RemoveQueue, Resting, table, search
  <2>. QED  BY <2>1, RestingKeeps
<1>. QED  BY <1>1, <1>2, <1>3, <1>4, <1>5, <1>6, <1>7 DEF CacheMoves, CacheStep

LEMMA IndexOfWorker ==
    ASSUME KernelTypes, CacheTypes, WorkersPlaced, Given, IndexInv,
           NEW w \in Workers, StatFails(w) \/ ReadFails(w) \/ WorkerStep(w)
    PROVE  IndexInv'
<1>0. IndexTypes /\ Loaded /\ SearchInRange
  BY DEF IndexInv
<1>1. CASE WorkerExits(w) \/ Killed(w)
  BY <1>1, EndsIndex DEF WorkerExits, Killed
<1>2. CASE StatFails(w) \/ ReadFails(w)
  <2>1. Resting
    BY <1>2 DEF StatFails, ReadFails, Resting, Turn, cacheMain, table, search, CacheTypes
  <2>. QED  BY <2>1, RestingKeeps
<1>3. CASE WaitTurn(w) \/ RemoveReplies(w) \/ LockSegment(w) \/ MapSegment(w) \/ MapNothing(w)
           \/ CopyFile(w) \/ CopyNothing(w)
  <2>1. Resting
    BY <1>3 DEF WaitTurn, RemoveReplies, LockSegment, MapSegment, MapNothing, CopyFile, CopyNothing,
                Resting, Turn, Calm, cacheMain, table, search, CacheTypes
  <2>. QED  BY <2>1, RestingKeeps
<1>4. CASE SendReply(w)
  <2>1. Resting
    BY <1>4 DEF SendReply, Resting, Turn, Calm, cacheMain, table, search, CacheTypes
  <2>. QED  BY <2>1, RestingKeeps
<1>5. CASE ReceiveRequest(w)
  <2>. DEFINE k == Head(queue[msqid])
  <2>1. /\ wpc[w] = "recv" /\ Lives(msqid) /\ queue[msqid] # << >>
        /\ sought' = [sought EXCEPT ![w] = k] /\ lo' = [lo EXCEPT ![w] = 0]
        /\ hi' = [hi EXCEPT ![w] = Len(items) - 1]
        /\ UNCHANGED <<cpc, list, rest, items, capacity>>
        /\ wpc' = [wpc EXCEPT ![w] = "search"] /\ job' = [job EXCEPT ![w] = k]
    BY <1>5 DEF ReceiveRequest, StartSearch, Turn, Calm, cacheMain, table
  <2>2. msqid = key["req"] /\ key["req"] # None
    BY <2>1, LifecycleAssumption DEF Given, Lives, KernelTypes
  <2>3. queue[msqid] \in Seq(Keys)
    BY <2>2 DEF KernelTypes, Held
  <2>4. k \in Keys /\ k \in Nat
    BY <2>1, <2>3, HeadTail, IndexAssumption
  <2>. HIDE DEF k
  <2>5. items \in Seq(Keys) /\ Len(items) \in Nat
    BY <1>0 DEF IndexTypes
  <2>6. IndexTypes'
    BY <1>0, <2>1, <2>4, <2>5 DEF IndexTypes
  <2>7. Sorted' /\ Sorted
    BY <1>0, <2>1 DEF Sorted, Loaded
  <2>8. /\ wpc'[w] = "search" /\ lo'[w] = 0 /\ hi'[w] = Len(items) - 1
        /\ \A v \in Workers \ {w} : /\ wpc'[v] = wpc[v] /\ lo'[v] = lo[v] /\ hi'[v] = hi[v]
                                    /\ sought'[v] = sought[v] /\ job'[v] = job[v]
    BY <1>0, <2>1 DEF CacheTypes, IndexTypes
  <2>9. Loaded'
    BY <1>0, <2>1, <2>7, <2>8 DEF Loaded
  <2>10. SearchInRange'
    <3>. SUFFICES ASSUME NEW v \in Workers, wpc'[v] = "search" PROVE InRange(v)'
      BY DEF SearchInRange
    <3>1. CASE v = w
      <4>1. \A i \in DOMAIN items : i - 1 \in 0..Len(items) - 1
        BY <2>5
      <4>. QED  BY <2>1, <2>5, <2>8, <3>1, <4>1 DEF InRange
    <3>2. CASE v # w
      BY <1>0, <2>1, <2>8, <3>2 DEF SearchInRange, InRange
    <3>. QED  BY <3>1, <3>2
  <2>. QED  BY <2>6, <2>9, <2>10 DEF IndexInv
<1>6. CASE SearchOn(w)
  <2>1. /\ wpc[w] = "search" /\ Narrow(w) /\ UNCHANGED <<cpc, list, wpc, job>>
        /\ items' = items /\ rest' = rest /\ capacity' = capacity /\ sought' = sought
    BY <1>6 DEF SearchOn, Narrow, Calm, cacheMain, table
  <2>2. Sorted /\ InRange(w) /\ Sorted'
    BY <1>0, <2>1 DEF Loaded, SearchInRange, Sorted
  <2>3. InRange(w)'
    BY <1>0, <2>1, <2>2, NarrowKeepsRange DEF Sorted
  <2>4. Mid(w) \in Int
    BY <1>0, <2>1, MidInRange DEF Narrow
  <2>5. lo' \in [Workers -> Int] /\ hi' \in [Workers -> Int]
        /\ \A v \in Workers \ {w} : lo'[v] = lo[v] /\ hi'[v] = hi[v]
    BY <1>0, <2>1, <2>4 DEF Narrow, IndexTypes
  <2>6. IndexTypes' /\ Loaded'
    BY <1>0, <2>1, <2>2, <2>5 DEF IndexTypes, Loaded
  <2>7. SearchInRange'
    BY <1>0, <2>1, <2>3, <2>5 DEF SearchInRange, InRange
  <2>. QED  BY <2>6, <2>7 DEF IndexInv
<1>7. CASE SearchEnds(w)
  <2>1. /\ wpc[w] = "search"
        /\ Exhausted(w) \/ Hit(w)
        /\ wpc' = [wpc EXCEPT ![w] = IF Hit(w) THEN "stat" ELSE "notFound"]
        /\ UNCHANGED <<cpc, list, job, rest, items, capacity, sought, lo, hi>>
    BY <1>7 DEF SearchEnds, Turn, Calm, cacheMain, table, search
  <2>2. /\ wpc'[w] \in {"stat", "notFound"}
        /\ wpc'[w] = "notFound" => Exhausted(w)
        /\ \A v \in Workers \ {w} : wpc'[v] = wpc[v]
    BY <2>1 DEF CacheTypes
  <2>3. IndexTypes' /\ SearchInRange'
    BY <1>0, <2>1, <2>2 DEF IndexTypes, SearchInRange, InRange
  <2>4. Sorted /\ Sorted' /\ InRange(w) /\ sought[w] = job[w]
    <3>1. job[w] # None
      BY <2>1 DEF WorkersPlaced, Serving
    <3>. QED  BY <1>0, <2>1, <3>1 DEF Loaded, Sorted, SearchInRange, WorkersPlaced
  <2>5. ASSUME Exhausted(w) PROVE job[w] \notin Range(list)
    <3>1. lo[w] \in Int /\ hi[w] \in Int /\ lo[w] > hi[w]
      BY <1>0, <2>5 DEF Exhausted, IndexTypes
    <3>2. lo[w]..hi[w] = {}
      BY <3>1
    <3>3. \A i \in DOMAIN items : items[i] # sought[w]
      BY <2>4, <3>2 DEF InRange
    <3>. QED  BY <2>4, <3>3 DEF Sorted, Range
  <2>6. Loaded'
    BY <1>0, <2>1, <2>2, <2>4, <2>5 DEF Loaded
  <2>. QED  BY <2>3, <2>6 DEF IndexInv
<1>. QED  BY <1>1, <1>2, <1>3, <1>4, <1>5, <1>6, <1>7 DEF WorkerStep

\* Whatever the processes do.
LEMMA IndexStep == IInv /\ Next => IndexInv'
<1>. SUFFICES ASSUME IInv, Next PROVE IndexInv'
  OBVIOUS
<1>1. /\ KernelTypes /\ CacheTypes /\ WorkersPlaced /\ Given /\ IndexInv
  BY DEF IInv, Types, IndexInv
<1>2. CASE ProxyMoves
  <2>1. UNCHANGED cache
    BY <1>2, NextIs
  <2>2. Resting
    BY <2>1 DEF cache, cacheMain, Resting
  <2>. QED  BY <1>1, <2>2, RestingKeeps
<1>3. CASE CacheMoves
  BY <1>1, <1>3, IndexOfCache
<1>4. CASE WorkerMoves
  BY <1>1, <1>4, IndexOfWorker DEF WorkerMoves
<1>. QED  BY <1>2, <1>3, <1>4, NextIs

(***************************************************************************)
(* The kernel.                                                             *)
(***************************************************************************)
\* A key changes only to an id that is new, or to none.
KeysMove ==
    /\ made' \in Nat /\ made <= made'
    /\ \A k \in {"req", "resp"} : key'[k] = key[k] \/ key'[k] = None \/ (key'[k] \in Nat /\ key'[k] >= made)

\* msgget: nothing held changes, and the key names what was returned.
LEMMA MsgGetDoes ==
    ASSUME KernelTypes, NEW k \in {"req", "resp"}, MsgGet(k)
    PROVE  /\ KernelTypes' /\ KeysMove
           /\ Held("req")' = Held("req") /\ Held("resp")' = Held("resp")
           /\ KeyId(k) \in Nat /\ KeyId(k) < made' /\ key'[k] = KeyId(k)
           /\ \A j \in {"req", "resp"} \ {k} : key'[j] = key[j] /\ KeyId(k) # key'[j]
<1>1. /\ made \in Nat /\ key \in [{"req", "resp"} -> Nat \cup {None}] /\ None \notin Nat
      /\ \A j \in {"req", "resp"} : key[j] # None => key[j] < made
      /\ DOMAIN queue = {key["req"], key["resp"]} \ {None}
      /\ key["req"] # None => key["req"] # key["resp"]
  BY LifecycleAssumption DEF KernelTypes
<1>2. /\ key' = [key EXCEPT ![k] = KeyId(k)] /\ key'[k] = KeyId(k)
      /\ \A j \in {"req", "resp"} \ {k} : key'[j] = key[j]
      /\ segment' = segment /\ shm' = shm
  BY <1>1 DEF MsgGet
<1>3. CASE key[k] # None
  <2>1. KeyId(k) = key[k] /\ queue' = queue /\ made' = made
    BY <1>3 DEF MsgGet, KeyId
  <2>2. key' = key
    BY <1>1, <1>2, <2>1
  <2>3. Held("req")' = Held("req") /\ Held("resp")' = Held("resp")
    BY <2>1, <2>2 DEF Held
  <2>4. KernelTypes'
    BY <1>2, <2>1, <2>2, <2>3 DEF KernelTypes
  <2>. QED  BY <1>1, <1>2, <1>3, <2>1, <2>2, <2>3, <2>4 DEF KeysMove
<1>4. CASE key[k] = None
  <2>1. /\ KeyId(k) = made /\ made' = made + 1
        /\ queue' = [i \in DOMAIN queue \cup {made} |-> IF i = made THEN << >> ELSE queue[i]]
    BY <1>4 DEF MsgGet, KeyId
  <2>2. made \notin DOMAIN queue
    BY <1>1
  <2>3. /\ DOMAIN queue' = DOMAIN queue \cup {made} /\ queue'[made] = << >>
        /\ \A i \in DOMAIN queue : queue'[i] = queue[i]
    BY <2>1, <2>2
  <2>4. ASSUME NEW j \in {"req", "resp"} PROVE Held(j)' = Held(j)
    <3>1. CASE j = k
      BY <1>2, <1>4, <2>1, <2>3, <3>1, <1>1 DEF Held
    <3>2. CASE j # k /\ key[j] # None
      <4>1. key'[j] = key[j] /\ key[j] \in DOMAIN queue
        BY <1>1, <1>2, <3>2
      <4>. QED  BY <2>3, <3>2, <4>1 DEF Held
    <3>3. CASE j # k /\ key[j] = None
      BY <1>2, <3>3 DEF Held
    <3>. QED  BY <3>1, <3>2, <3>3
  <2>5. made' \in Nat /\ made' > made /\ key' \in [{"req", "resp"} -> Nat \cup {None}]
    BY <1>1, <1>2, <2>1
  <2>6. \A j \in {"req", "resp"} : key'[j] # None => key'[j] < made'
    <3>1. key'[k] < made'
      BY <1>1, <1>2, <2>1
    <3>2. \A j \in {"req", "resp"} \ {k} : key'[j] # None => key'[j] < made /\ key'[j] \in Nat
      BY <1>1, <1>2
    <3>. QED  BY <1>1, <2>5, <3>1, <3>2
  <2>7. \A j \in {"req", "resp"} \ {k} : key'[j] # made
    BY <1>1, <1>2
  <2>8. DOMAIN queue' = {key'["req"], key'["resp"]} \ {None}
    BY <1>1, <1>2, <1>4, <2>1, <2>3
  <2>9. key'["req"] # None => key'["req"] # key'["resp"]
    BY <1>1, <1>2, <2>1, <2>7
  <2>10. KernelTypes'
    BY <1>2, <2>4, <2>5, <2>6, <2>8, <2>9 DEF KernelTypes
  <2>. QED  BY <1>1, <1>2, <2>1, <2>4, <2>5, <2>7, <2>10 DEF KeysMove
<1>. QED  BY <1>3, <1>4

\* msgctl(IPC_RMID): what a queue holds goes with it, the other queue stays.
LEMMA MsgRemoveDoes ==
    ASSUME KernelTypes, NEW id \in Nat, MsgRemove(id)
    PROVE  /\ KernelTypes' /\ KeysMove
           /\ \A k \in {"req", "resp"} : /\ Held(k)' = Held(k) \/ Held(k)' = << >>
                                         /\ key'[k] = key[k] \/ key'[k] = None
<1>1. /\ made \in Nat /\ key \in [{"req", "resp"} -> Nat \cup {None}] /\ None \notin Nat
      /\ \A j \in {"req", "resp"} : key[j] # None => key[j] < made
      /\ DOMAIN queue = {key["req"], key["resp"]} \ {None}
      /\ key["req"] # None => key["req"] # key["resp"]
  BY LifecycleAssumption DEF KernelTypes
<1>2. /\ key' \in [{"req", "resp"} -> Nat \cup {None}]
      /\ \A k \in {"req", "resp"} : key'[k] = IF key[k] = id THEN None ELSE key[k]
      /\ made' = made /\ segment' = segment /\ shm' = shm
      /\ queue' = [i \in DOMAIN queue \ {id} |-> queue[i]]
  BY <1>1 DEF MsgRemove
<1>3. /\ DOMAIN queue' = DOMAIN queue \ {id}
      /\ \A i \in DOMAIN queue \ {id} : queue'[i] = queue[i]
  BY <1>2
<1>4. ASSUME NEW k \in {"req", "resp"} PROVE Held(k)' = Held(k) \/ Held(k)' = << >>
  <2>1. CASE key'[k] = None
    BY <2>1 DEF Held
  <2>2. CASE key'[k] # None
    <3>1. key'[k] = key[k] /\ key[k] # id /\ key[k] \in DOMAIN queue \ {id}
      BY <1>1, <1>2, <2>2
    <3>. QED  BY <1>3, <2>2, <3>1 DEF Held
  <2>. QED  BY <2>1, <2>2
<1>5. DOMAIN queue' = {key'["req"], key'["resp"]} \ {None}
  BY <1>1, <1>2, <1>3
<1>6. Held("req")' \in Seq(Keys) /\ Held("resp")' \in Seq(Reply)
  <2>1. Held("req") \in Seq(Keys) /\ Held("resp") \in Seq(Reply)
    BY DEF KernelTypes
  <2>2. << >> \in Seq(Keys) /\ << >> \in Seq(Reply)
    OBVIOUS
  <2>3. /\ Held("req")' = Held("req") \/ Held("req")' = << >>
        /\ Held("resp")' = Held("resp") \/ Held("resp")' = << >>
    BY <1>4
  <2>. QED  BY <2>1, <2>2, <2>3
<1>7. KernelTypes'
  BY <1>1, <1>2, <1>5, <1>6 DEF KernelTypes
<1>. QED  BY <1>1, <1>2, <1>4, <1>7 DEF KeysMove

\* msgsnd and msgrcv on the queue of a key.
LEMMA QueueDoes ==
    ASSUME KernelTypes, NEW k \in {"req", "resp"}, key[k] # None, NEW q,
           queue' = [queue EXCEPT ![key[k]] = q], UNCHANGED <<key, made, segment, shm>>,
           k = "req" => q \in Seq(Keys), k = "resp" => q \in Seq(Reply)
    PROVE  /\ KernelTypes' /\ KeysMove /\ Held(k)' = q /\ Held(k) = queue[key[k]]
           /\ \A j \in {"req", "resp"} \ {k} : Held(j)' = Held(j)
<1>1. /\ made \in Nat /\ key \in [{"req", "resp"} -> Nat \cup {None}]
      /\ DOMAIN queue = {key["req"], key["resp"]} \ {None}
      /\ key["req"] # None => key["req"] # key["resp"]
  BY DEF KernelTypes
<1>2. key[k] \in DOMAIN queue
  BY <1>1
<1>3. /\ DOMAIN queue' = DOMAIN queue /\ queue'[key[k]] = q
      /\ \A i \in DOMAIN queue \ {key[k]} : queue'[i] = queue[i]
  BY <1>2
<1>4. Held(k)' = q /\ Held(k) = queue[key[k]]
  BY <1>3 DEF Held
<1>5. ASSUME NEW j \in {"req", "resp"} \ {k} PROVE Held(j)' = Held(j)
  <2>1. CASE key[j] = None
    BY <2>1 DEF Held
  <2>2. CASE key[j] # None
    <3>1. key[j] \in DOMAIN queue \ {key[k]}
      BY <1>1, <2>2
    <3>. QED  BY <1>3, <2>2, <3>1 DEF Held
  <2>. QED  BY <2>1, <2>2
<1>6. Held("req")' \in Seq(Keys) /\ Held("resp")' \in Seq(Reply)
  BY <1>4, <1>5 DEF KernelTypes
<1>7. KernelTypes'
  BY <1>1, <1>3, <1>6 DEF KernelTypes
<1>. QED  BY <1>1, <1>4, <1>5, <1>7 DEF KeysMove

\* Which key an id is of that a thread sends to or receives from.
LEMMA IdsOf ==
    ASSUME KernelTypes, Given
    PROVE  /\ \A h \in Handlers : hpc[h] = "send" /\ Lives(msqidP) => key["req"] = msqidP /\ key["req"] # None
           /\ \A h \in Handlers : hpc[h] = "wait" /\ Lives(on[h]) => key["resp"] = on[h] /\ key["resp"] # None
           /\ \A w \in Workers : wpc[w] # "off" /\ Lives(msqid) => key["req"] = msqid /\ key["req"] # None
           /\ \A w \in Workers : wpc[w] # "off" /\ Lives(msqidC) => key["resp"] = msqidC /\ key["resp"] # None
<1>1. DOMAIN queue = {key["req"], key["resp"]} \ {None}
  BY DEF KernelTypes
<1>. QED  BY <1>1 DEF Lives, Given

\* A request joins its queue, and leaves it.
LEMMA RequestMoves ==
    ASSUME KernelTypes, Given
    PROVE  /\ \A h \in Handlers : SendRequest(h) /\ want[h] \in Keys =>
                 /\ KernelTypes' /\ KeysMove
                 /\ Held("req")' = Append(Held("req"), want[h]) /\ Held("resp")' = Held("resp")
           /\ \A w \in Workers : ReceiveRequest(w) =>
                 /\ KernelTypes' /\ KeysMove /\ Held("req") # << >>
                 /\ Head(queue[msqid]) = Head(Held("req"))
                 /\ Held("req")' = Tail(Held("req")) /\ Held("resp")' = Held("resp")
<1>1. ASSUME NEW h \in Handlers, SendRequest(h), want[h] \in Keys
      PROVE  /\ KernelTypes' /\ KeysMove
             /\ Held("req")' = Append(Held("req"), want[h]) /\ Held("resp")' = Held("resp")
  <2>1. hpc[h] = "send" /\ Lives(msqidP) /\ Enqueue(msqidP, want[h])
    BY <1>1 DEF SendRequest
  <2>2. msqidP = key["req"] /\ key["req"] # None
    BY <2>1, IdsOf
  <2>3. Held("req") = queue[key["req"]] /\ Held("req") \in Seq(Keys)
    BY <2>2 DEF Held, KernelTypes
  <2>. DEFINE q == Append(Held("req"), want[h])
  <2>4. q \in Seq(Keys)
    BY <1>1, <2>3, Appended
  <2>5. queue' = [queue EXCEPT ![key["req"]] = q] /\ UNCHANGED <<key, made, segment, shm>>
    BY <2>1, <2>2, <2>3 DEF Enqueue
  <2>. HIDE DEF q
  <2>6. KernelTypes' /\ KeysMove /\ Held("req")' = q
        /\ \A j \in {"req", "resp"} \ {"req"} : Held(j)' = Held(j)
    BY <2>2, <2>4, <2>5, QueueDoes
  <2>. QED  BY <2>6 DEF q
<1>2. ASSUME NEW w \in Workers, ReceiveRequest(w)
      PROVE  /\ KernelTypes' /\ KeysMove /\ Held("req") # << >>
             /\ Head(queue[msqid]) = Head(Held("req"))
             /\ Held("req")' = Tail(Held("req")) /\ Held("resp")' = Held("resp")
  <2>1. wpc[w] = "recv" /\ Lives(msqid) /\ queue[msqid] # << >> /\ Dequeue(msqid)
    BY <1>2 DEF ReceiveRequest
  <2>2. msqid = key["req"] /\ key["req"] # None
    BY <2>1, IdsOf
  <2>3. /\ Held("req") = queue[key["req"]] /\ Held("req") \in Seq(Keys) /\ Held("req") # << >>
        /\ Head(queue[msqid]) = Head(Held("req"))
    BY <2>1, <2>2 DEF Held, KernelTypes
  <2>. DEFINE q == Tail(Held("req"))
  <2>4. q \in Seq(Keys)
    BY <2>3, HeadTail
  <2>5. queue' = [queue EXCEPT ![key["req"]] = q] /\ UNCHANGED <<key, made, segment, shm>>
    BY <2>1, <2>2, <2>3 DEF Dequeue
  <2>. HIDE DEF q
  <2>6. KernelTypes' /\ KeysMove /\ Held("req")' = q
        /\ \A j \in {"req", "resp"} \ {"req"} : Held(j)' = Held(j)
    BY <2>2, <2>4, <2>5, QueueDoes
  <2>. QED  BY <2>3, <2>6 DEF q
<1>. QED  BY <1>1, <1>2

\* What a worker replies.
ReplyOf(w) == IF wpc[w] = "reply" THEN Found(job[w]) ELSE NotFound

\* A reply joins its queue, and leaves it.
LEMMA ReplyMoves ==
    ASSUME KernelTypes, Given
    PROVE  /\ \A w \in Workers : SendReply(w) /\ job[w] \in Keys =>
                 /\ KernelTypes' /\ KeysMove
                 /\ Held("resp")' = Append(Held("resp"), ReplyOf(w)) /\ ReplyOf(w) \in Reply
                 /\ Held("req")' = Held("req")
           /\ \A h \in Handlers : Receive(h) =>
                 /\ KernelTypes' /\ KeysMove /\ Held("resp") # << >>
                 /\ Head(queue[on[h]]) = Head(Held("resp"))
                 /\ Held("resp")' = Tail(Held("resp")) /\ Held("req")' = Held("req")
<1>1. ASSUME NEW w \in Workers, SendReply(w), job[w] \in Keys
      PROVE  /\ KernelTypes' /\ KeysMove
             /\ Held("resp")' = Append(Held("resp"), ReplyOf(w)) /\ ReplyOf(w) \in Reply
             /\ Held("req")' = Held("req")
  <2>1. wpc[w] # "off" /\ Lives(msqidC) /\ Enqueue(msqidC, ReplyOf(w))
    BY <1>1 DEF SendReply, ReplyOf
  <2>2. msqidC = key["resp"] /\ key["resp"] # None
    BY <2>1, IdsOf
  <2>3. Held("resp") = queue[key["resp"]] /\ Held("resp") \in Seq(Reply)
    BY <2>2 DEF Held, KernelTypes
  <2>4. ReplyOf(w) \in Reply
    BY <1>1 DEF ReplyOf, Reply
  <2>. DEFINE q == Append(Held("resp"), ReplyOf(w))
  <2>5. q \in Seq(Reply)
    BY <2>3, <2>4, Appended
  <2>6. queue' = [queue EXCEPT ![key["resp"]] = q] /\ UNCHANGED <<key, made, segment, shm>>
    BY <2>1, <2>2, <2>3 DEF Enqueue
  <2>. HIDE DEF q
  <2>7. KernelTypes' /\ KeysMove /\ Held("resp")' = q
        /\ \A j \in {"req", "resp"} \ {"resp"} : Held(j)' = Held(j)
    BY <2>2, <2>5, <2>6, QueueDoes
  <2>. QED  BY <2>4, <2>7 DEF q
<1>2. ASSUME NEW h \in Handlers, Receive(h)
      PROVE  /\ KernelTypes' /\ KeysMove /\ Held("resp") # << >>
             /\ Head(queue[on[h]]) = Head(Held("resp"))
             /\ Held("resp")' = Tail(Held("resp")) /\ Held("req")' = Held("req")
  <2>1. hpc[h] = "wait" /\ Lives(on[h]) /\ queue[on[h]] # << >> /\ Dequeue(on[h])
    BY <1>2 DEF Receive
  <2>2. on[h] = key["resp"] /\ key["resp"] # None
    BY <2>1, IdsOf
  <2>3. /\ Held("resp") = queue[key["resp"]] /\ Held("resp") \in Seq(Reply) /\ Held("resp") # << >>
        /\ Head(queue[on[h]]) = Head(Held("resp"))
    BY <2>1, <2>2 DEF Held, KernelTypes
  <2>. DEFINE q == Tail(Held("resp"))
  <2>4. q \in Seq(Reply)
    BY <2>3, HeadTail
  <2>5. queue' = [queue EXCEPT ![key["resp"]] = q] /\ UNCHANGED <<key, made, segment, shm>>
    BY <2>1, <2>2, <2>3 DEF Dequeue
  <2>. HIDE DEF q
  <2>6. KernelTypes' /\ KeysMove /\ Held("resp")' = q
        /\ \A j \in {"req", "resp"} \ {"resp"} : Held(j)' = Held(j)
    BY <2>2, <2>4, <2>5, QueueDoes
  <2>. QED  BY <2>3, <2>6 DEF q
<1>. QED  BY <1>1, <1>2

(***************************************************************************)
(* Where processes and threads are, and the ids they use.                  *)
(***************************************************************************)
\* What is not the id of a key never becomes it.
LEMMA StillGiven ==
    ASSUME KernelTypes, KeysMove, NEW id \in 0..made - 1
    PROVE  \A k \in {"req", "resp"} : id # key[k] => id # key'[k] /\ id \in 0..made' - 1
<1>1. made \in Nat /\ made' \in Nat /\ made <= made'
  BY DEF KernelTypes, KeysMove
<1>2. id \in Nat /\ id < made
  BY <1>1
<1>3. id < made' /\ id \in 0..made' - 1 /\ id # None
  <2>1. id < made'
    BY <1>1, <1>2
  <2>2. id \in 0..made' - 1
    <3>1. \A i, n \in Nat : i < n => i \in 0..n - 1
      OBVIOUS
    <3>. QED  BY <1>1, <1>2, <2>1, <3>1
  <2>3. id # None
    BY <1>2, LifecycleAssumption
  <2>. QED  BY <2>1, <2>2, <2>3
<1>4. \A k \in {"req", "resp"} : key'[k] = id => key[k] = id
  BY <1>1, <1>2, <1>3 DEF KeysMove
<1>. QED  BY <1>3, <1>4

\* A handler goes on with an id it had, one that was stored, or the key's.
HandlerIdsStay(h) ==
    /\ hpc'[h] = "keepReq" =>
          \/ hpc[h] = "keepReq" /\ on'[h] = on[h]
          \/ on'[h] = key'["req"] /\ key'["req"] # None
    /\ hpc'[h] = "send" =>
          \/ hpc[h] = "send" /\ msqidP' = msqidP
          \/ \E g \in Handlers : hpc[g] = "keepReq" /\ msqidP' = on[g]
    /\ hpc'[h] \in {"keepResp", "wait"} =>
          \/ hpc[h] = hpc'[h] /\ on'[h] = on[h]
          \/ hpc[h] = "recv" /\ on'[h] = msqidCP
          \/ on'[h] = key'["resp"]
    /\ hpc'[h] = "recv" =>
          \/ hpc[h] = "recv" /\ msqidCP' = msqidCP
          \/ \E g \in Handlers : hpc[g] = "keepResp" /\ msqidCP' = on[g]

\* Ids stay what they are, whoever uses them.
LEMMA GivenStays ==
    ASSUME KernelTypes, Given, KernelTypes', KeysMove,
           \A h \in Handlers : HandlerIdsStay(h),
           cpc' = "create" =>
              \/ cpc = "create" /\ msqid' = msqid
              \/ msqid' = key'["req"] /\ key'["req"] # None,
           \A w \in Workers : wpc'[w] # "off" =>
              /\ msqid' = msqid /\ (wpc[w] # "off" \/ cpc = "create")
              /\ \/ wpc[w] # "off" /\ msqidC' = msqidC
                 \/ msqidC' = key'["resp"] /\ key'["resp"] # None
    PROVE  Given'
<1>1. /\ \A k \in {"req", "resp"} : key'[k] # None => key'[k] \in Nat /\ key'[k] < made'
      /\ key'["req"] # None => key'["req"] # key'["resp"]
      /\ key'["resp"] # None => key'["resp"] # key'["req"]
      /\ made \in Nat /\ made' \in Nat /\ made <= made'
  BY DEF KernelTypes, KeysMove
<1>2. \A id \in 0..made - 1 : \A k \in {"req", "resp"} :
         id # key[k] => id # key'[k] /\ id \in 0..made' - 1
  BY StillGiven
<1>3. \A k \in {"req", "resp"} : key'[k] # None => key'[k] \in 0..made' - 1
  BY <1>1
<1>4. ASSUME NEW h \in Handlers
      PROVE  /\ hpc'[h] = "keepReq" => on'[h] \in 0..made' - 1 /\ on'[h] # key'["resp"]
             /\ hpc'[h] = "send" => msqidP' \in 0..made' - 1 /\ msqidP' # key'["resp"]
  BY <1>1, <1>2, <1>3 DEF Given, HandlerIdsStay
<1>5. ASSUME NEW h \in Handlers
      PROVE  /\ hpc'[h] \in {"keepResp", "wait"} /\ on'[h] # None
                   => on'[h] \in 0..made' - 1 /\ on'[h] # key'["req"]
             /\ hpc'[h] = "recv" /\ msqidCP' # None
                   => msqidCP' \in 0..made' - 1 /\ msqidCP' # key'["req"]
  BY <1>1, <1>2, <1>3 DEF Given, HandlerIdsStay
<1>6. cpc' = "create" => msqid' \in 0..made' - 1 /\ msqid' # key'["resp"]
  BY <1>1, <1>2, <1>3 DEF Given
<1>7. ASSUME NEW w \in Workers, wpc'[w] # "off"
      PROVE  /\ msqid' \in 0..made' - 1 /\ msqid' # key'["resp"]
             /\ msqidC' \in 0..made' - 1 /\ msqidC' # key'["req"]
  <2>1. msqid \in 0..made - 1 /\ msqid # key["resp"] /\ msqid' = msqid
    BY <1>7 DEF Given
  <2>2. CASE wpc[w] # "off" /\ msqidC' = msqidC
    BY <1>2, <2>1, <2>2 DEF Given
  <2>3. CASE msqidC' = key'["resp"] /\ key'["resp"] # None
    BY <1>1, <1>2, <1>3, <2>1, <2>3
  <2>. QED  BY <1>7, <2>2, <2>3
<1>. QED  BY <1>4, <1>5, <1>6, <1>7 DEF Given

\* Keys that do not change move, and without a change of the kernel its types hold.
LEMMA KernelStays ==
    ASSUME KernelTypes, UNCHANGED <<key, queue, made>>,
           segment' \in Nat \cup {-1}, shm' \in Keys \cup {None}
    PROVE  KernelTypes' /\ KeysMove /\ \A k \in {"req", "resp"} : Held(k)' = Held(k)
<1>1. \A k \in {"req", "resp"} : Held(k)' = Held(k)
  BY DEF Held
<1>. QED  BY <1>1 DEF KernelTypes, KeysMove

\* What the counts are of.
LEMMA Counts ==
    ASSUME KernelTypes
    PROVE  /\ \A k \in {"req", "resp"} : Pending(k) = Len(Held(k)) /\ Pending(k) \in Nat
           /\ IsFiniteSet(Busy) /\ Cardinality(Busy) \in Nat
           /\ IsFiniteSet(Waiting) /\ Cardinality(Waiting) \in Nat
<1>1. \A k \in {"req", "resp"} : Pending(k) = Len(Held(k))
  BY DEF Pending, Held
<1>2. Held("req") \in Seq(Keys) /\ Held("resp") \in Seq(Reply)
  BY DEF KernelTypes
<1>3. Len(Held("req")) \in Nat /\ Len(Held("resp")) \in Nat
  BY <1>2
<1>4. IsFiniteSet(Busy) /\ IsFiniteSet(Waiting)
  <2>1. Busy \subseteq Threads /\ Waiting \subseteq Handlers
    BY DEF Busy, Waiting, Workers
  <2>. QED  BY <2>1, LifecycleAssumption, FS_Subset
<1>. QED  BY <1>1, <1>3, <1>4, FS_CardinalityType

\* The answers a handler may give its client.
LEMMA AnswerTypes ==
    ASSUME NEW kind \in Kinds, NEW n \in Nat, NEW f \in Keys \cup {None}
    PROVE  Answer(kind, n, f) \in Answers
  BY DEF Answer, Answers

ProxyInv == KernelTypes /\ ProxyTypes /\ HandlersPlaced /\ Given

LEMMA ProxyKeeps ==
    ASSUME ProxyInv, ProxyMoves
    PROVE  ProxyInv' /\ KeysMove
<1>0. /\ KernelTypes /\ ProxyTypes /\ HandlersPlaced /\ Given
      /\ UNCHANGED <<cpc, wpc, msqid, msqidC>>
  <2>1. UNCHANGED cache
    BY NextIs
  <2>. QED  BY <2>1 DEF ProxyInv, cache, cacheMain
<1>a. ASSUME KernelTypes', KeysMove, UNCHANGED <<hpc, on, msqidP, msqidCP>> PROVE Given'
  BY <1>0, <1>a, GivenStays DEF HandlerIdsStay
<1>1. CASE ProxyStart
  <2>1. /\ UNCHANGED <<key, queue, made, hpc, want, answer, on, msqidP, msqidCP, left>>
        /\ ppc = "down" /\ ppc' = "segment" /\ proxies' = proxies + 1
        /\ segment' = SegCells /\ shm' = IF segment = -1 THEN None ELSE shm
    BY <1>1 DEF ProxyStart
  <2>2. KernelTypes' /\ KeysMove
    <3>1. segment' \in Nat \cup {-1} /\ shm' \in Keys \cup {None}
      BY <1>0, <2>1, LifecycleAssumption DEF KernelTypes
    <3>. QED  BY <1>0, <2>1, <3>1, KernelStays
  <2>3. ProxyTypes' /\ HandlersPlaced'
    BY <1>0, <2>1 DEF ProxyTypes, HandlersPlaced
  <2>4. Given'
    BY <1>a, <2>1, <2>2
  <2>. QED  BY <2>2, <2>3, <2>4 DEF ProxyInv
<1>2. CASE ProxyQueue
  <2>1. /\ UNCHANGED <<proxies, hpc, want, answer, on, msqidP, msqidCP, left>>
        /\ ppc' = "up" /\ MsgGet("req")
    BY <1>2 DEF ProxyQueue
  <2>2. KernelTypes' /\ KeysMove
    BY <1>0, <2>1, MsgGetDoes
  <2>3. ProxyTypes' /\ HandlersPlaced'
    BY <1>0, <2>1 DEF ProxyTypes, HandlersPlaced
  <2>4. Given'
    BY <1>a, <2>1, <2>2
  <2>. QED  BY <2>2, <2>3, <2>4 DEF ProxyInv
<1>3. CASE ProxySignal
  <2>1. /\ hpc' = [h \in Handlers |-> "idle"] /\ want' = [h \in Handlers |-> None]
        /\ answer' = [h \in Handlers |-> NoAnswer] /\ on' = [h \in Handlers |-> None]
        /\ ppc' = "down" /\ proxies' = proxies /\ left' = left + Cardinality(Waiting)
        /\ UNCHANGED <<key, queue, made, segment, shm>>
    BY <1>3 DEF ProxySignal, kernel
  <2>2. KernelTypes' /\ KeysMove
    BY <1>0, <2>1, KernelStays DEF KernelTypes
  <2>3. NoAnswer \in Answers
    BY AnswerTypes DEF NoAnswer, Kinds
  <2>4. left' \in Nat
    BY <1>0, <2>1, Counts DEF ProxyTypes
  <2>5. ProxyTypes' /\ HandlersPlaced'
    BY <1>0, <2>1, <2>3, <2>4 DEF ProxyTypes, HandlersPlaced
  <2>6. Given'
    <3>1. \A h \in Handlers : HandlerIdsStay(h)
      BY <2>1 DEF HandlerIdsStay
    <3>. QED  BY <1>0, <2>2, <3>1, GivenStays
  <2>. QED  BY <2>2, <2>5, <2>6 DEF ProxyInv
<1>4. ASSUME NEW h \in Handlers, Accept(h) \/ HandlerStep(h) PROVE ProxyInv' /\ KeysMove
  <2>1. /\ KernelTypes' /\ KeysMove
    <3>1. CASE GetQueue(h)
      BY <1>0, <3>1, MsgGetDoes DEF GetQueue
    <3>2. CASE SendRequest(h)
      BY <1>0, <3>2, RequestMoves DEF HandlersPlaced, SendRequest
    <3>3. CASE Receive(h)
      BY <1>0, <3>3, ReplyMoves
    <3>4. CASE UNCHANGED kernel
      BY <1>0, <3>4, KernelStays DEF KernelTypes, kernel
    <3>5. GetQueue(h) \/ SendRequest(h) \/ Receive(h) \/ UNCHANGED kernel
      BY <1>4 DEF Accept, HandlerStep, KeepRequests, FindQueue, KeepReplies, CallReceive, QueueGone,
                  Stream
    <3>. QED  BY <3>1, <3>2, <3>3, <3>4, <3>5
  <2>2. ASSUME NEW l \in {"get", "keepReq", "send", "find", "keepResp", "recv", "wait", "stream"},
               ppc = "up", hpc' = [hpc EXCEPT ![h] = l], answer' \in [Handlers -> Answers],
               on' \in [Handlers -> Nat \cup {None}], UNCHANGED <<ppc, proxies, left>>,
               (want' = want /\ hpc[h] # "idle") \/ \E f \in Keys : want' = [want EXCEPT ![h] = f],
               \A g \in Handlers : HandlerIdsStay(g)
        PROVE  ProxyInv' /\ KeysMove
    <3>1. ProxyTypes'
      BY <1>0, <2>2 DEF ProxyTypes
    <3>2. HandlersPlaced'
      BY <1>0, <2>2 DEF ProxyTypes, HandlersPlaced
    <3>3. Given'
      BY <1>0, <2>1, <2>2, GivenStays
    <3>. QED  BY <2>1, <3>1, <3>2, <3>3 DEF ProxyInv
  <2>3. ASSUME NEW a \in Answers, Answered(h, a), hpc[h] # "idle", left' \in Nat
        PROVE  ProxyInv' /\ KeysMove
    <3>1. /\ UNCHANGED <<ppc, proxies, want, msqidP, msqidCP>>
          /\ hpc' = [hpc EXCEPT ![h] = "idle"] /\ answer' = [answer EXCEPT ![h] = a]
          /\ on' = [on EXCEPT ![h] = None]
      BY <2>3 DEF Answered, Go
    <3>2. ProxyTypes' /\ HandlersPlaced'
      BY <1>0, <2>3, <3>1 DEF ProxyTypes, HandlersPlaced
    <3>3. \A g \in Handlers : HandlerIdsStay(g)
      BY <1>0, <3>1 DEF HandlerIdsStay, ProxyTypes
    <3>4. Given'
      BY <1>0, <2>1, <3>3, GivenStays
    <3>. QED  BY <2>1, <3>2, <3>4 DEF ProxyInv
  <2>4. left \in Nat /\ answer \in [Handlers -> Answers] /\ on \in [Handlers -> Nat \cup {None}]
        /\ hpc \in [Handlers -> {"idle", "get", "keepReq", "send", "find", "keepResp", "recv",
                                 "wait", "stream"}]
        /\ (hpc[h] # "idle" => ppc = "up")
    BY <1>0 DEF ProxyTypes, HandlersPlaced
  <2>5. CASE Accept(h)
    <3>1. /\ UNCHANGED <<ppc, proxies, on, msqidP, msqidCP, left>> /\ ppc = "up"
          /\ hpc' = [hpc EXCEPT ![h] = "get"] /\ answer' = [answer EXCEPT ![h] = NoAnswer]
          /\ \E f \in Keys : want' = [want EXCEPT ![h] = f]
      BY <2>5 DEF Accept
    <3>2. NoAnswer \in Answers
      BY AnswerTypes DEF NoAnswer, Kinds
    <3>3. \A g \in Handlers : HandlerIdsStay(g)
      BY <2>4, <3>1 DEF HandlerIdsStay
    <3>. QED  BY <2>2, <2>4, <3>1, <3>2, <3>3
  <2>6. CASE GetQueue(h)
    <3>1. /\ UNCHANGED <<ppc, proxies, want, answer, msqidP, msqidCP, left>> /\ hpc[h] = "get"
          /\ MsgGet("req") /\ on' = [on EXCEPT ![h] = KeyId("req")]
          /\ hpc' = [hpc EXCEPT ![h] = "keepReq"]
      BY <2>6 DEF GetQueue, Go, Same
    <3>2. key'["req"] = KeyId("req") /\ KeyId("req") \in Nat
      BY <1>0, <3>1, MsgGetDoes
    <3>3. key'["req"] # None
      BY <3>2, LifecycleAssumption
    <3>4. \A g \in Handlers : HandlerIdsStay(g)
      BY <2>4, <3>1, <3>2, <3>3 DEF HandlerIdsStay
    <3>. QED  BY <2>2, <2>4, <3>1, <3>2, <3>4
  <2>7. CASE KeepRequests(h) \/ SendRequest(h)
    <3>1. /\ UNCHANGED <<ppc, proxies, want, answer, on, msqidCP, left>>
          /\ \/ hpc[h] = "keepReq" /\ msqidP' = on[h] /\ hpc' = [hpc EXCEPT ![h] = "send"]
             \/ hpc[h] = "send" /\ msqidP' = msqidP /\ hpc' = [hpc EXCEPT ![h] = "find"]
      BY <2>7 DEF KeepRequests, SendRequest, Go, Same
    <3>2. \A g \in Handlers : HandlerIdsStay(g)
      BY <2>4, <3>1 DEF HandlerIdsStay
    <3>. QED  BY <2>2, <2>4, <3>1, <3>2
  <2>8. CASE FindQueue(h)
    <3>1. /\ UNCHANGED <<ppc, proxies, want, answer, key, msqidP, msqidCP, left>> /\ hpc[h] = "find"
          /\ on' = [on EXCEPT ![h] = key["resp"]] /\ hpc' = [hpc EXCEPT ![h] = "keepResp"]
      BY <2>8 DEF FindQueue, Go, Same, kernel
    <3>2. key["resp"] \in Nat \cup {None}
      BY <1>0 DEF KernelTypes
    <3>3. \A g \in Handlers : HandlerIdsStay(g)
      BY <2>4, <3>1 DEF HandlerIdsStay
    <3>. QED  BY <2>2, <2>4, <3>1, <3>2, <3>3
  <2>9. CASE KeepReplies(h)
    <3>1. /\ UNCHANGED <<ppc, proxies, want, answer, on, msqidP, left>> /\ hpc[h] = "keepResp"
          /\ msqidCP' = on[h]
          /\ \/ hpc' = [hpc EXCEPT ![h] = "find"]
             \/ hpc' = [hpc EXCEPT ![h] = "recv"]
      BY <2>9 DEF KeepReplies, Go, Same
    <3>2. \A g \in Handlers : HandlerIdsStay(g)
      BY <2>4, <3>1 DEF HandlerIdsStay
    <3>. QED  BY <2>2, <2>4, <3>1, <3>2
  <2>10. CASE CallReceive(h)
    <3>1. /\ UNCHANGED <<ppc, proxies, want, answer, msqidP, msqidCP, left>> /\ hpc[h] = "recv"
          /\ on' = [on EXCEPT ![h] = msqidCP] /\ hpc' = [hpc EXCEPT ![h] = "wait"]
      BY <2>10 DEF CallReceive, Go, Same
    <3>2. msqidCP \in Nat \cup {None}
      BY <1>0, <3>1 DEF Given
    <3>3. \A g \in Handlers : HandlerIdsStay(g)
      BY <2>4, <3>1 DEF HandlerIdsStay
    <3>. QED  BY <2>2, <2>4, <3>1, <3>2, <3>3
  <2>11. CASE QueueGone(h)
    <3>1. /\ Answered(h, Answer("not found", 0, None)) /\ hpc[h] \in {"send", "wait"}
          /\ left' = left \/ left' = left + 1
      BY <2>11 DEF QueueGone
    <3>2. Answer("not found", 0, None) \in Answers
      BY AnswerTypes DEF Kinds
    <3>3. left' \in Nat
      <4>1. left \in Nat /\ (left' = left \/ left' = left + 1)
        BY <2>4, <3>1
      <4>. QED  BY <4>1
    <3>. QED  BY <2>3, <3>1, <3>2, <3>3
  <2>12. CASE Receive(h)
    <3>. DEFINE r == Head(Held("resp"))
    <3>1. Held("resp") # << >> /\ Head(queue[on[h]]) = r
      BY <1>0, <2>12, ReplyMoves
    <3>2. r \in Reply
      BY <1>0, <3>1, HeadTail DEF KernelTypes
    <3>3. r.found => r.len \in Nat
      BY <3>2, LifecycleAssumption DEF Reply, Found, NotFound
    <3>. HIDE DEF r
    <3>4. CASE r.found
      <4>1. Answer("header", r.len, None) \in Answers
        BY <3>3, <3>4, AnswerTypes DEF Kinds
      <4>2. /\ hpc' = [hpc EXCEPT ![h] = "stream"] /\ hpc[h] = "wait"
            /\ answer' = [answer EXCEPT ![h] = Answer("header", r.len, None)]
            /\ UNCHANGED <<ppc, proxies, want, on, msqidP, msqidCP, left>>
        BY <2>12, <3>1, <3>4 DEF Receive, Go
      <4>3. \A g \in Handlers : HandlerIdsStay(g)
        BY <2>4, <4>2 DEF HandlerIdsStay
      <4>. QED  BY <2>2, <2>4, <4>1, <4>2, <4>3
    <3>5. CASE ~r.found
      <4>1. Answer("not found", 0, None) \in Answers
        BY AnswerTypes DEF Kinds
      <4>2. Answered(h, Answer("not found", 0, None)) /\ hpc[h] = "wait" /\ left' = left
        BY <2>12, <3>1, <3>5 DEF Receive
      <4>. QED  BY <2>3, <2>4, <4>1, <4>2
    <3>. QED  BY <3>4, <3>5
  <2>13. CASE Stream(h)
    <3>1. answer[h].len \in Nat /\ shm \in Keys \cup {None}
      BY <1>0 DEF ProxyTypes, KernelTypes, Answers
    <3>. DEFINE n == answer[h].len
                a == IF n = 0 THEN Answer("OK", 0, None)
                     ELSE IF segment < n THEN Answer("cut short", n, None)
                     ELSE Answer("OK", n, shm)
    <3>2. a \in Answers
      BY <3>1, AnswerTypes DEF Kinds
    <3>3. Answered(h, a) /\ hpc[h] = "stream" /\ left' = left
      BY <2>13 DEF Stream
    <3>. HIDE DEF a
    <3>. QED  BY <2>3, <2>4, <3>2, <3>3
  <2>. QED  BY <1>4, <2>5, <2>6, <2>7, <2>8, <2>9, <2>10, <2>11, <2>12, <2>13 DEF HandlerStep
<1>. QED  BY <1>1, <1>2, <1>3, <1>4 DEF ProxyMoves

CacheInv == KernelTypes /\ CacheTypes /\ WorkersPlaced /\ Given

\* The end of the process leaves no thread and no id.
LEMMA EndsCache ==
    ASSUME CacheInv, NEW how, Ends(how), errors' \in Nat, UNCHANGED <<key, queue, made>>,
           segment' \in Nat \cup {-1}, shm' \in Keys \cup {None}
    PROVE  CacheInv' /\ KeysMove
<1>0. KernelTypes /\ CacheTypes /\ WorkersPlaced /\ Given
  BY DEF CacheInv
<1>1. /\ cpc' = "down" /\ wpc' = [w \in Workers |-> "off"] /\ job' = [w \in Workers |-> None]
      /\ msqid' = 0 /\ msqidC' = 0 /\ caches' = caches /\ UNCHANGED proxy
  BY DEF Ends
<1>2. KernelTypes' /\ KeysMove
  BY <1>0, KernelStays
<1>3. CacheTypes'
  BY <1>0, <1>1 DEF CacheTypes
<1>4. WorkersPlaced'
  BY <1>1 DEF WorkersPlaced, Serving, Locking
<1>5. Given'
  BY <1>0, <1>1, <1>2, GivenStays DEF proxy, HandlerIdsStay
<1>. QED  BY <1>2, <1>3, <1>4, <1>5 DEF CacheInv

LEMMA CacheKeeps ==
    ASSUME CacheInv, CacheMoves
    PROVE  CacheInv' /\ KeysMove
<1>0. KernelTypes /\ CacheTypes /\ WorkersPlaced /\ Given /\ \A h \in Handlers : HandlerIdsStay(h)
  BY NextIs DEF CacheInv, proxy, HandlerIdsStay
<1>1. CASE CacheLoadFails
  <2>1. errors' \in Nat /\ Ends("exit") /\ UNCHANGED <<key, queue, made, segment, shm>>
    BY <1>0, <1>1 DEF CacheLoadFails, CacheTypes, kernel
  <2>. QED  BY <1>0, <2>1, EndsCache DEF KernelTypes
<1>2. CASE Unlink
  BY <1>0, <1>2, EndsCache DEF Unlink, CacheTypes
<1>3. CASE CacheStart \/ CacheLoad \/ CacheSort
  <2>1. /\ UNCHANGED <<key, queue, made, segment, shm, wpc, job, msqid, msqidC, errors, sought>>
        /\ cpc \in {"down", "load"} /\ cpc' \in {"load", "find"} /\ caches' \in {caches, caches + 1}
    BY <1>3 DEF CacheStart, CacheLoad, CacheSort, LoadLine, SortTable, kernel, cacheMain, search
  <2>2. KernelTypes' /\ KeysMove
    BY <1>0, <2>1, KernelStays DEF KernelTypes
  <2>3. CacheTypes' /\ WorkersPlaced'
    BY <1>0, <2>1 DEF CacheTypes, WorkersPlaced
  <2>4. Given'
    BY <1>0, <2>1, <2>2, GivenStays
  <2>. QED  BY <2>2, <2>3, <2>4 DEF CacheInv
<1>4. CASE CacheFind
  <2>1. /\ UNCHANGED <<key, queue, made, segment, shm, wpc, job, msqidC, errors, sought, caches>>
        /\ key["req"] # None /\ msqid' = key["req"] /\ cpc = "find" /\ cpc' = "create"
    BY <1>4 DEF CacheFind, kernel, search
  <2>2. KernelTypes' /\ KeysMove
    BY <1>0, <2>1, KernelStays DEF KernelTypes
  <2>3. \A w \in Workers : wpc[w] = "off"
    BY <1>0, <2>1 DEF WorkersPlaced
  <2>4. CacheTypes' /\ WorkersPlaced'
    BY <1>0, <2>1, <2>3 DEF CacheTypes, WorkersPlaced, KernelTypes
  <2>5. Given'
    BY <1>0, <2>1, <2>2, <2>3, GivenStays
  <2>. QED  BY <2>2, <2>4, <2>5 DEF CacheInv
<1>5. CASE CacheCreate
  <2>1. /\ UNCHANGED <<job, msqid, errors, sought, caches>> /\ MsgGet("resp")
        /\ msqidC' = KeyId("resp") /\ cpc = "create" /\ cpc' = "run"
        /\ wpc' = [w \in Workers |-> "wait"]
    BY <1>5 DEF CacheCreate, search
  <2>2. KernelTypes' /\ KeysMove /\ key'["resp"] = msqidC' /\ msqidC' \in Nat
    BY <1>0, <2>1, MsgGetDoes
  <2>3. \A w \in Workers : wpc[w] = "off" /\ job[w] = None
    BY <1>0, <2>1 DEF WorkersPlaced, Serving
  <2>4. CacheTypes' /\ WorkersPlaced'
    BY <1>0, <2>1, <2>2, <2>3 DEF CacheTypes, WorkersPlaced, Serving, Locking
  <2>5. key'["resp"] # None
    BY <2>2, LifecycleAssumption
  <2>6. Given'
    BY <1>0, <2>1, <2>2, <2>5, GivenStays
  <2>. QED  BY <2>2, <2>4, <2>6 DEF CacheInv
<1>6. CASE CacheSignal
  <2>1. /\ UNCHANGED <<key, queue, made, segment, shm, wpc, job, msqid, msqidC, errors, sought, caches>>
        /\ cpc' = "rmReq"
    BY <1>6 DEF CacheSignal, kernel, search
  <2>2. KernelTypes' /\ KeysMove
    BY <1>0, <2>1, KernelStays DEF KernelTypes
  <2>3. CacheTypes' /\ WorkersPlaced'
    BY <1>0, <2>1 DEF CacheTypes, WorkersPlaced
  <2>4. \A w \in Workers : wpc[w] # "off" => cpc # "create"
    BY <1>0 DEF WorkersPlaced
  <2>5. Given'
    BY <1>0, <2>1, <2>2, GivenStays
  <2>. QED  BY <2>2, <2>3, <2>5 DEF CacheInv
<1>7. ASSUME NEW id \in {msqid, msqidC}, MsgRemove(id), cpc \in {"rmReq", "rmResp"},
             cpc' \in {"rmResp", "unlink"},
             UNCHANGED <<wpc, job, msqid, msqidC, errors, sought, caches>>
      PROVE  CacheInv' /\ KeysMove
  <2>1. id \in Nat
    BY <1>0, <1>7 DEF CacheTypes
  <2>2. KernelTypes' /\ KeysMove
    BY <1>0, <1>7, <2>1, MsgRemoveDoes
  <2>3. CacheTypes' /\ WorkersPlaced'
    BY <1>0, <1>7 DEF CacheTypes, WorkersPlaced
  <2>4. Given'
    BY <1>0, <1>7, <2>2, GivenStays
  <2>. QED  BY <2>2, <2>3, <2>4 DEF CacheInv
<1>8. CASE RemoveQueue("rmReq", msqid, "rmResp")
  BY <1>7, <1>8 DEF RemoveQueue, search
<1>9. CASE RemoveQueue("rmResp", msqidC, "unlink")
  BY <1>7, <1>9 DEF RemoveQueue, search
<1>. QED  BY <1>1, <1>2, <1>3, <1>4, <1>5, <1>6, <1>8, <1>9 DEF CacheMoves, CacheStep

\* A worker goes on, with a request or without.
LEMMA WorkerGoes ==
    ASSUME CacheTypes, WorkersPlaced, NEW w \in Workers, wpc[w] # "off",
           NEW l \in {"wait", "recv", "search", "stat", "notFound", "statFailed",
                      "rmid", "map", "copy", "unmapped", "reply", "gone", "stuck"},
           NEW j \in Keys \cup {None},
           UNCHANGED <<cpc, caches, msqid, msqidC>>, errors' \in Nat,
           wpc' = [wpc EXCEPT ![w] = l], job' = [job EXCEPT ![w] = j],
           \A v \in Workers \ {w} : sought'[v] = sought[v],
           j # None <=> l \in Serving, j # None => sought'[w] = j,
           l \in Locking => wpc[w] \in Locking \/ \A v \in Workers : wpc[v] \notin Locking
    PROVE  CacheTypes' /\ WorkersPlaced'
<1>1. /\ wpc'[w] = l /\ job'[w] = j
      /\ \A v \in Workers \ {w} : wpc'[v] = wpc[v] /\ job'[v] = job[v]
  BY DEF CacheTypes
<1>2. CacheTypes'
  BY DEF CacheTypes
<1>3. \A v \in Workers :
          /\ wpc'[v] # "off" => cpc' \in {"run", "rmReq", "rmResp", "unlink"}
          /\ job'[v] # None <=> wpc'[v] \in Serving
          /\ job'[v] # None => sought'[v] = job'[v]
  BY <1>1 DEF WorkersPlaced
<1>4. \A u, v \in Workers : wpc'[u] \in Locking /\ wpc'[v] \in Locking => u = v
  BY <1>1 DEF WorkersPlaced
<1>. QED  BY <1>2, <1>3, <1>4 DEF WorkersPlaced

LEMMA WorkerKeeps ==
    ASSUME CacheInv, IndexTypes, NEW w \in Workers, StatFails(w) \/ ReadFails(w) \/ WorkerStep(w)
    PROVE  CacheInv' /\ KeysMove
<1>0. /\ KernelTypes /\ CacheTypes /\ WorkersPlaced /\ Given
      /\ \A h \in Handlers : HandlerIdsStay(h)
  <2>1. UNCHANGED proxy
    BY NextIs DEF WorkerMoves
  <2>. QED  BY <2>1 DEF CacheInv, proxy, HandlerIdsStay
<1>1. CASE WorkerExits(w) \/ Killed(w)
  <2>1. errors' \in Nat /\ UNCHANGED <<key, queue, made, segment, shm>> /\ \E how : Ends(how)
    BY <1>0, <1>1 DEF WorkerExits, Killed, CacheTypes, kernel
  <2>. QED  BY <1>0, <2>1, EndsCache DEF KernelTypes
<1>2. ASSUME KernelTypes', KeysMove, UNCHANGED <<cpc, msqid, msqidC>>, wpc[w] # "off",
             \A v \in Workers \ {w} : wpc'[v] = wpc[v]
      PROVE  Given'
  BY <1>0, <1>2, GivenStays
<1>3. ASSUME UNCHANGED <<key, queue, made>>, segment' \in Nat \cup {-1}, shm' \in Keys \cup {None}
      PROVE  KernelTypes' /\ KeysMove
  BY <1>0, <1>3, KernelStays
<1>4. segment \in Nat \cup {-1} /\ shm \in Keys \cup {None} /\ job[w] \in Keys \cup {None}
      /\ errors \in Nat /\ (job[w] # None => sought[w] = job[w])
      /\ job = [job EXCEPT ![w] = job[w]] /\ (job[w] # None <=> wpc[w] \in Serving)
  BY <1>0 DEF KernelTypes, CacheTypes, WorkersPlaced
<1>5. CASE StatFails(w)
  <2>1. /\ wpc[w] = "stat" /\ wpc' = [wpc EXCEPT ![w] = "statFailed"] /\ errors' = errors + 1
        /\ UNCHANGED <<cpc, caches, msqid, msqidC, job, sought, key, queue, made, segment, shm>>
    BY <1>5 DEF StatFails, Turn, cacheMain, kernel, search
  <2>2. CacheTypes' /\ WorkersPlaced'
    <3>1. errors' \in Nat
      BY <1>4, <2>1
    <3>. QED  BY <1>0, <1>4, <2>1, <3>1, WorkerGoes DEF Serving, Locking
  <2>3. KernelTypes' /\ Given' /\ KeysMove
    BY <1>0, <1>2, <1>3, <1>4, <2>1 DEF CacheTypes
  <2>. QED  BY <2>2, <2>3 DEF CacheInv
<1>6. CASE ReadFails(w)
  <2>1. /\ wpc[w] \in {"copy", "unmapped"} /\ wpc' = [wpc EXCEPT ![w] = "stuck"] /\ errors' = errors + 1
        /\ job' = [job EXCEPT ![w] = None]
        /\ UNCHANGED <<cpc, caches, msqid, msqidC, sought, key, queue, made, segment, shm>>
    BY <1>6 DEF ReadFails, Turn, cacheMain, kernel, search
  <2>2. CacheTypes' /\ WorkersPlaced'
    <3>1. errors' \in Nat
      BY <1>4, <2>1
    <3>. QED  BY <1>0, <1>4, <2>1, <3>1, WorkerGoes DEF Serving, Locking
  <2>3. KernelTypes' /\ Given' /\ KeysMove
    BY <1>0, <1>2, <1>3, <1>4, <2>1 DEF CacheTypes
  <2>. QED  BY <2>2, <2>3 DEF CacheInv
<1>7. CASE WaitTurn(w) \/ LockSegment(w)
  <2>1. /\ UNCHANGED <<cpc, caches, msqid, msqidC, errors, job, sought, key, queue, made, segment, shm>>
        /\ \/ wpc[w] = "wait" /\ wpc' = [wpc EXCEPT ![w] = "recv"]
           \/ /\ wpc[w] = "stat" /\ wpc' = [wpc EXCEPT ![w] = "map"]
              /\ \A v \in Workers : wpc[v] \notin Locking
    BY <1>7 DEF WaitTurn, LockSegment, Turn, Calm, cacheMain, kernel, search, Locking
  <2>2. CacheTypes' /\ WorkersPlaced'
    <3>1. CASE wpc[w] = "wait" /\ wpc' = [wpc EXCEPT ![w] = "recv"]
      BY <1>0, <1>4, <2>1, <3>1, WorkerGoes DEF Serving, Locking
    <3>2. CASE /\ wpc[w] = "stat" /\ wpc' = [wpc EXCEPT ![w] = "map"]
               /\ \A v \in Workers : wpc[v] \notin Locking
      BY <1>0, <1>4, <2>1, <3>2, WorkerGoes DEF Serving
    <3>. QED  BY <2>1, <3>1, <3>2
  <2>3. KernelTypes' /\ Given' /\ KeysMove
    BY <1>0, <1>2, <1>3, <1>4, <2>1 DEF CacheTypes
  <2>. QED  BY <2>2, <2>3 DEF CacheInv
<1>8. CASE ReceiveRequest(w)
  <2>. DEFINE k == Head(Held("req"))
  <2>1. KernelTypes' /\ KeysMove /\ Held("req") # << >> /\ Head(queue[msqid]) = k
    BY <1>0, <1>8, RequestMoves
  <2>2. k \in Keys /\ k # None
    <3>1. Held("req") \in Seq(Keys)
      BY <1>0 DEF KernelTypes
    <3>2. k \in Keys
      BY <2>1, <3>1, HeadTail
    <3>. QED  BY <3>2, IndexAssumption, LifecycleAssumption
  <2>3. /\ UNCHANGED <<cpc, caches, msqid, msqidC, errors>> /\ wpc[w] = "recv"
        /\ wpc' = [wpc EXCEPT ![w] = "search"] /\ job' = [job EXCEPT ![w] = k]
        /\ sought' = [sought EXCEPT ![w] = k]
    BY <1>8, <2>1 DEF ReceiveRequest, StartSearch, Turn, Calm, cacheMain
  <2>. HIDE DEF k
  <2>4. sought'[w] = k /\ \A v \in Workers \ {w} : sought'[v] = sought[v]
    BY <2>3 DEF IndexTypes
  <2>5. CacheTypes' /\ WorkersPlaced'
    BY <1>0, <1>4, <2>2, <2>3, <2>4, WorkerGoes DEF Serving, Locking
  <2>6. Given'
    BY <1>0, <1>2, <2>1, <2>3 DEF CacheTypes
  <2>. QED  BY <2>1, <2>5, <2>6 DEF CacheInv
<1>9. CASE SearchOn(w)
  <2>1. UNCHANGED <<cpc, caches, msqid, msqidC, errors, wpc, job, sought, key, queue, made, segment, shm>>
    BY <1>9 DEF SearchOn, Narrow, Calm, cacheMain, kernel
  <2>2. KernelTypes' /\ KeysMove
    BY <1>3, <1>4, <2>1
  <2>3. Given'
    BY <1>0, <2>1, <2>2, GivenStays
  <2>4. CacheTypes' /\ WorkersPlaced'
    BY <1>0, <2>1 DEF CacheTypes, WorkersPlaced
  <2>. QED  BY <2>2, <2>3, <2>4 DEF CacheInv
<1>10. CASE SearchEnds(w)
  <2>. DEFINE l == IF Hit(w) THEN "stat" ELSE "notFound"
  <2>1. /\ UNCHANGED <<cpc, caches, msqid, msqidC, errors, job, sought, key, queue, made, segment, shm>>
        /\ wpc[w] = "search" /\ wpc' = [wpc EXCEPT ![w] = l]
    BY <1>10 DEF SearchEnds, Turn, Calm, cacheMain, kernel, search
  <2>2. l \in {"stat", "notFound"}
    OBVIOUS
  <2>. HIDE DEF l
  <2>3. CacheTypes' /\ WorkersPlaced'
    BY <1>0, <1>4, <2>1, <2>2, WorkerGoes DEF Serving, Locking
  <2>4. KernelTypes' /\ Given' /\ KeysMove
    BY <1>0, <1>2, <1>3, <1>4, <2>1 DEF CacheTypes
  <2>. QED  BY <2>3, <2>4 DEF CacheInv
<1>11. CASE SendReply(w)
  <2>. DEFINE l == IF wpc[w] = "statFailed" THEN "rmid" ELSE "wait"
  <2>1. /\ UNCHANGED <<cpc, caches, msqid, msqidC, errors, sought>>
        /\ wpc[w] \in {"notFound", "statFailed", "reply"}
        /\ wpc' = [wpc EXCEPT ![w] = l] /\ job' = [job EXCEPT ![w] = None]
    BY <1>11 DEF SendReply, Turn, Calm, cacheMain, search
  <2>2. l \in {"rmid", "wait"}
    OBVIOUS
  <2>. HIDE DEF l
  <2>3. job[w] \in Keys
    BY <1>4, <2>1 DEF Serving
  <2>4. KernelTypes' /\ KeysMove
    BY <1>0, <1>11, <2>3, ReplyMoves
  <2>5. CacheTypes' /\ WorkersPlaced'
    BY <1>0, <1>4, <2>1, <2>2, WorkerGoes DEF Serving, Locking
  <2>6. Given'
    BY <1>0, <1>2, <2>1, <2>4 DEF CacheTypes
  <2>. QED  BY <2>4, <2>5, <2>6 DEF CacheInv
<1>12. CASE RemoveReplies(w)
  <2>1. /\ UNCHANGED <<cpc, caches, msqid, msqidC, errors, job, sought>> /\ MsgRemove(msqidC)
        /\ wpc[w] = "rmid" /\ wpc' = [wpc EXCEPT ![w] = "gone"]
    BY <1>12 DEF RemoveReplies, Turn, Calm, cacheMain, search
  <2>2. KernelTypes' /\ KeysMove
    BY <1>0, <2>1, MsgRemoveDoes DEF CacheTypes
  <2>3. CacheTypes' /\ WorkersPlaced'
    BY <1>0, <1>4, <2>1, WorkerGoes DEF Serving, Locking
  <2>4. Given'
    BY <1>0, <1>2, <2>1, <2>2 DEF CacheTypes
  <2>. QED  BY <2>2, <2>3, <2>4 DEF CacheInv
<1>13. CASE MapSegment(w) \/ CopyFile(w)
  <2>1. /\ UNCHANGED <<cpc, caches, msqid, msqidC, errors, job, sought, key, queue, made>>
        /\ \/ wpc[w] = "map" /\ wpc' = [wpc EXCEPT ![w] = "copy"] /\ segment' = Size[job[w]] /\ shm' = shm
           \/ wpc[w] = "copy" /\ wpc' = [wpc EXCEPT ![w] = "reply"] /\ segment' = segment /\ shm' = job[w]
    BY <1>13 DEF MapSegment, CopyFile, Turn, Calm, cacheMain, search
  <2>2. job[w] \in Keys /\ Size[job[w]] \in Nat
    BY <1>4, <2>1, LifecycleAssumption DEF Serving
  <2>3. KernelTypes' /\ KeysMove
    BY <1>3, <1>4, <2>1, <2>2
  <2>4. CacheTypes' /\ WorkersPlaced'
    <3>1. CASE wpc[w] = "map" /\ wpc' = [wpc EXCEPT ![w] = "copy"]
      BY <1>0, <1>4, <2>1, <3>1, WorkerGoes DEF Serving, Locking
    <3>2. CASE wpc[w] = "copy" /\ wpc' = [wpc EXCEPT ![w] = "reply"]
      BY <1>0, <1>4, <2>1, <3>2, WorkerGoes DEF Serving, Locking
    <3>. QED  BY <2>1, <3>1, <3>2
  <2>5. Given'
    BY <1>0, <1>2, <2>1, <2>3 DEF CacheTypes
  <2>. QED  BY <2>3, <2>4, <2>5 DEF CacheInv
<1>14. CASE MapNothing(w) \/ CopyNothing(w)
  <2>1. /\ UNCHANGED <<cpc, caches, msqid, msqidC, errors, job, sought, key, queue, made, segment, shm>>
        /\ \/ wpc[w] = "map" /\ wpc' = [wpc EXCEPT ![w] = "unmapped"]
           \/ wpc[w] = "unmapped" /\ wpc' = [wpc EXCEPT ![w] = "reply"]
    BY <1>14 DEF MapNothing, CopyNothing, Turn, Calm, cacheMain, kernel, search
  <2>2. CacheTypes' /\ WorkersPlaced'
    <3>1. CASE wpc[w] = "map" /\ wpc' = [wpc EXCEPT ![w] = "unmapped"]
      BY <1>0, <1>4, <2>1, <3>1, WorkerGoes DEF Serving, Locking
    <3>2. CASE wpc[w] = "unmapped" /\ wpc' = [wpc EXCEPT ![w] = "reply"]
      BY <1>0, <1>4, <2>1, <3>2, WorkerGoes DEF Serving, Locking
    <3>. QED  BY <2>1, <3>1, <3>2
  <2>3. KernelTypes' /\ Given' /\ KeysMove
    BY <1>0, <1>2, <1>3, <1>4, <2>1 DEF CacheTypes
  <2>. QED  BY <2>2, <2>3 DEF CacheInv
<1>. QED  BY <1>1, <1>5, <1>6, <1>7, <1>8, <1>9, <1>10, <1>11, <1>12, <1>13, <1>14 DEF WorkerStep

(***************************************************************************)
(* The segment, and what the cache dies of.                                *)
(***************************************************************************)
BroughtInv == Brought /\ KilledAfterRestart

LEMMA BroughtByProxy ==
    ASSUME ProxyInv, WorkersPlaced, BroughtInv, ProxyMoves
    PROVE  BroughtInv'
<1>0. /\ KernelTypes /\ ProxyTypes /\ HandlersPlaced /\ Brought /\ KilledAfterRestart
      /\ UNCHANGED <<cpc, wpc, job, caches, errors, ended>> /\ proxies \in Nat
  <2>1. UNCHANGED cache
    BY NextIs
  <2>. QED  BY <2>1 DEF ProxyInv, BroughtInv, ProxyTypes, cache, cacheMain
<1>1. CASE ProxyStart
  <2>1. /\ proxies' = proxies + 1 /\ segment' = SegCells /\ SegCells \in Nat
        /\ shm' = (IF segment = -1 THEN None ELSE shm)
    BY <1>1, LifecycleAssumption DEF ProxyStart
  <2>2. /\ proxies' > 0 /\ segment' # -1 /\ (proxies' <= 1 => proxies = 0)
        /\ proxies > 1 => proxies' > 1
    BY <1>0, <2>1
  <2>3. \A w \in Workers : wpc[w] # "off" => proxies > 0
    BY <1>0 DEF Brought
  <2>4. \A w \in Workers : wpc[w] = "reply" /\ Size[job[w]] > 0 => shm' = job[w]
    BY <1>0, <2>1 DEF Brought
  <2>5. Brought'
    BY <1>0, <2>2, <2>3, <2>4 DEF Brought
  <2>6. KilledAfterRestart'
    BY <1>0, <2>1 DEF KilledAfterRestart
  <2>. QED  BY <2>5, <2>6 DEF BroughtInv
<1>2. ASSUME UNCHANGED <<proxies, segment, shm>>,
             ppc' # "down" \/ key'["req"] # None => ppc # "down" \/ key["req"] # None
      PROVE  BroughtInv'
  <2>1. Brought'
    BY <1>0, <1>2 DEF Brought
  <2>2. KilledAfterRestart'
    BY <1>0, <1>2 DEF KilledAfterRestart
  <2>. QED  BY <2>1, <2>2 DEF BroughtInv
<1>3. CASE ProxyQueue
  BY <1>2, <1>3 DEF ProxyQueue, MsgGet
<1>4. CASE ProxySignal
  BY <1>2, <1>4 DEF ProxySignal, kernel
<1>5. ASSUME NEW h \in Handlers, Accept(h) \/ HandlerStep(h) PROVE BroughtInv'
  <2>1. UNCHANGED <<ppc, proxies, segment, shm>>
    BY <1>5
       DEF Accept, HandlerStep, GetQueue, KeepRequests, SendRequest, QueueGone, FindQueue,
           KeepReplies, CallReceive, Receive, Stream, Answered, Same, MsgGet, Enqueue, Dequeue, kernel
  <2>2. key' = key \/ ppc # "down"
    <3>1. CASE GetQueue(h)
      BY <1>0, <3>1 DEF GetQueue, HandlersPlaced
    <3>2. CASE ~GetQueue(h)
      BY <1>5, <3>2
         DEF Accept, HandlerStep, KeepRequests, SendRequest, QueueGone, FindQueue, KeepReplies,
             CallReceive, Receive, Stream, Enqueue, Dequeue, kernel
    <3>. QED  BY <3>1, <3>2
  <2>. QED  BY <1>2, <2>1, <2>2
<1>. QED  BY <1>1, <1>3, <1>4, <1>5 DEF ProxyMoves

\* The end of the process: only the first one's segment was promised.
LEMMA BroughtEnds ==
    ASSUME Brought, NEW how, Ends(how), cpc # "down",
           how = "killed" => proxies > 1 \/ caches > 1,
           key' = key \/ key'["req"] = None,
           UNCHANGED <<ppc, proxies>>
    PROVE  BroughtInv'
<1>1. /\ cpc' = "down" /\ ended' = how /\ caches' = caches /\ \A w \in Workers : wpc'[w] = "off"
  BY DEF Ends
<1>2. caches > 0
  BY DEF Brought
<1>3. Brought'
  BY <1>1, <1>2 DEF Brought
<1>. QED  BY <1>1, <1>3 DEF BroughtInv, KilledAfterRestart

LEMMA BroughtByCache ==
    ASSUME CacheInv, BroughtInv, CacheMoves
    PROVE  BroughtInv'
<1>0. /\ KernelTypes /\ CacheTypes /\ WorkersPlaced /\ Brought /\ KilledAfterRestart
      /\ UNCHANGED <<ppc, proxies>> /\ caches \in Nat
  <2>1. UNCHANGED proxy
    BY NextIs
  <2>. QED  BY <2>1 DEF CacheInv, BroughtInv, CacheTypes, proxy
<1>1. CASE CacheLoadFails \/ Unlink
  BY <1>0, <1>1, BroughtEnds DEF CacheLoadFails, Unlink, kernel
<1>2. CASE CacheStart
  <2>1. /\ caches' = caches + 1 /\ cpc = "down" /\ cpc' = "load"
        /\ UNCHANGED <<key, segment, shm, wpc, job, errors, ended>>
    BY <1>2 DEF CacheStart, kernel
  <2>2. caches' > 0 /\ (caches' = 1 => caches = 0)
    BY <1>0, <2>1
  <2>3. \A w \in Workers : wpc[w] = "off"
    BY <1>0, <2>1 DEF WorkersPlaced
  <2>4. Brought'
    BY <1>0, <2>1, <2>2, <2>3 DEF Brought
  <2>5. KilledAfterRestart'
    BY <1>0, <2>1 DEF KilledAfterRestart
  <2>. QED  BY <2>4, <2>5 DEF BroughtInv
<1>3. ASSUME UNCHANGED <<caches, segment, shm, job, errors, ended>>, cpc # "down",
             key'["req"] # None => key["req"] # None,
             cpc' \in {"create", "run"} => cpc \in {"create", "run"} \/ key["req"] # None,
             \A w \in Workers :
                \/ wpc'[w] = wpc[w]
                \/ wpc'[w] = "wait" /\ cpc = "create"
      PROVE  BroughtInv'
  <2>1. KilledAfterRestart'
    BY <1>0, <1>3 DEF KilledAfterRestart
  <2>2. Brought'
    BY <1>0, <1>3 DEF Brought
  <2>. QED  BY <2>1, <2>2 DEF BroughtInv
<1>4. CASE CacheLoad \/ CacheSort \/ CacheFind \/ CacheSignal
  <2>1. /\ UNCHANGED <<caches, segment, shm, wpc, job, errors, ended, key>> /\ cpc # "down"
        /\ cpc' \in {"create", "run"} => cpc \in {"create", "run"} \/ key["req"] # None
    BY <1>4 DEF CacheLoad, CacheSort, CacheFind, CacheSignal, cacheMain, kernel
  <2>. QED  BY <1>3, <2>1
<1>5. CASE CacheCreate
  <2>1. /\ UNCHANGED <<caches, segment, shm, job, errors, ended>> /\ cpc = "create"
        /\ MsgGet("resp") /\ wpc' = [w \in Workers |-> "wait"]
    BY <1>5 DEF CacheCreate, MsgGet
  <2>2. key'["req"] = key["req"]
    BY <1>0, <2>1, MsgGetDoes
  <2>. QED  BY <1>3, <2>1, <2>2
<1>6. ASSUME NEW id \in {msqid, msqidC}, MsgRemove(id), cpc \in {"rmReq", "rmResp"},
             cpc' \in {"rmResp", "unlink"}, UNCHANGED <<wpc, job, errors, ended, caches>>
      PROVE  BroughtInv'
  <2>1. id \in Nat
    BY <1>0, <1>6 DEF CacheTypes
  <2>2. key'["req"] = key["req"] \/ key'["req"] = None
    BY <1>0, <1>6, <2>1, MsgRemoveDoes
  <2>3. UNCHANGED <<segment, shm>>
    BY <1>6 DEF MsgRemove
  <2>. QED  BY <1>3, <1>6, <2>2, <2>3
<1>7. CASE RemoveQueue("rmReq", msqid, "rmResp")
  BY <1>6, <1>7 DEF RemoveQueue
<1>8. CASE RemoveQueue("rmResp", msqidC, "unlink")
  BY <1>6, <1>8 DEF RemoveQueue
<1>. QED  BY <1>1, <1>2, <1>4, <1>5, <1>7, <1>8 DEF CacheMoves, CacheStep

LEMMA BroughtByWorker ==
    ASSUME CacheInv, ProxyTypes, BroughtInv, NEW w \in Workers, StatFails(w) \/ ReadFails(w) \/ WorkerStep(w)
    PROVE  BroughtInv'
<1>0. /\ KernelTypes /\ CacheTypes /\ WorkersPlaced /\ Brought /\ KilledAfterRestart
      /\ UNCHANGED <<ppc, proxies>> /\ caches \in Nat /\ errors \in Nat
  <2>1. UNCHANGED proxy
    BY NextIs DEF WorkerMoves
  <2>. QED  BY <2>1 DEF CacheInv, BroughtInv, CacheTypes, proxy
<1>1. wpc[w] # "off" => cpc # "down" /\ proxies > 0 /\ caches > 0
  BY <1>0 DEF WorkersPlaced, Brought
<1>2. CASE WorkerExits(w)
  <2>1. Ends("exit") /\ UNCHANGED key /\ wpc[w] # "off"
    BY <1>2 DEF WorkerExits, kernel
  <2>. QED  BY <1>0, <1>1, <2>1, BroughtEnds
<1>3. CASE Killed(w)
  <2>1. /\ Ends("killed") /\ UNCHANGED key
        /\ wpc[w] = "unmapped" \/ (wpc[w] = "copy" /\ segment < Size[job[w]])
    BY <1>3 DEF Killed, kernel
  <2>2. proxies > 1 \/ caches > 1
    <3>. SUFFICES ASSUME ~(proxies > 1 \/ caches > 1) PROVE FALSE
      OBVIOUS
    <3>1. caches = 1 /\ ~(proxies > 1)
      BY <1>0, <1>1, <2>1
    <3>2. segment # -1
      BY <1>0, <1>1, <2>1, <3>1 DEF Brought
    <3>3. wpc[w] = "copy" /\ segment < Size[job[w]] /\ segment \in Nat
      BY <1>0, <2>1, <3>1, <3>2 DEF KernelTypes, Brought
    <3>4. proxies <= 1 /\ caches <= 1
      BY <3>1 DEF ProxyTypes
    <3>5. segment = Size[job[w]]
      BY <1>0, <3>3, <3>4 DEF Brought
    <3>. QED  BY <3>3, <3>5
  <2>. QED  BY <1>0, <1>1, <2>1, <2>2, BroughtEnds
<1>4. ASSUME UNCHANGED <<cpc, caches, ended>>, wpc[w] # "off", errors' \in Nat, errors' >= errors,
             key' = key \/ key'["req"] = None \/ key'["req"] = key["req"],
             \A v \in Workers \ {w} : wpc'[v] = wpc[v] /\ job'[v] = job[v],
             wpc'[w] = "statFailed" => errors' > 0,
             \/ UNCHANGED <<segment, shm>> /\ wpc'[w] \notin {"copy", "reply", "unmapped"}
             \/ UNCHANGED <<segment, shm>> /\ wpc'[w] = "unmapped" /\ (proxies > 1 \/ caches > 1)
             \/ /\ UNCHANGED <<segment, shm>> /\ wpc'[w] = "reply"
                /\ job'[w] = job[w] /\ ~(Size[job[w]] > 0)
             \/ /\ wpc[w] = "map" /\ wpc'[w] = "copy" /\ job'[w] = job[w]
                /\ segment' = Size[job[w]] /\ segment' \in Nat
             \/ /\ wpc[w] = "copy" /\ wpc'[w] = "reply" /\ job'[w] = job[w]
                /\ segment' = segment /\ segment # -1 /\ shm' = job[w]
      PROVE  BroughtInv'
  <2>1. proxies > 0 /\ caches > 0
    BY <1>1, <1>4
  <2>2. \A v \in Workers : wpc'[v] # "off" => proxies' > 0
    BY <1>0, <2>1
  <2>3. ppc' # "down" \/ key'["req"] # None \/ cpc' \in {"create", "run"} => proxies' > 0
    BY <1>0, <2>1
  <2>4. proxies' > 0 /\ (caches' = 0 \/ (caches' = 1 /\ cpc' # "down")) => segment' # -1
    BY <1>0, <1>4 DEF Brought
  <2>5. \A v \in Workers : wpc'[v] = "statFailed" => errors' > 0
    BY <1>0, <1>4 DEF Brought
  <2>6. wpc[w] \in {"map", "copy"} => \A v \in Workers \ {w} : wpc[v] \notin {"copy", "reply"}
    BY <1>0 DEF WorkersPlaced, Locking
  <2>7. \A v \in Workers : wpc'[v] = "copy" /\ proxies' <= 1 /\ caches' <= 1
                          => segment' = Size[job'[v]]
    BY <1>0, <1>4, <2>6 DEF Brought
  <2>8. \A v \in Workers : wpc'[v] = "reply" /\ Size[job'[v]] > 0 => segment' # -1 /\ shm' = job'[v]
    BY <1>0, <1>4, <2>6 DEF Brought
  <2>a. \A v \in Workers : wpc'[v] = "unmapped" => proxies' > 1 \/ caches' > 1
    BY <1>0, <1>4 DEF Brought
  <2>9. Brought'
    BY <1>0, <1>4, <2>1, <2>2, <2>3, <2>4, <2>5, <2>7, <2>8, <2>a DEF Brought
  <2>10. KilledAfterRestart'
    BY <1>0, <1>4 DEF KilledAfterRestart
  <2>. QED  BY <2>9, <2>10 DEF BroughtInv
<1>5. CASE StatFails(w)
  <2>1. /\ UNCHANGED <<cpc, caches, ended, job, key, segment, shm>> /\ wpc[w] = "stat"
        /\ errors' = errors + 1 /\ wpc' = [wpc EXCEPT ![w] = "statFailed"]
    BY <1>5 DEF StatFails, Turn, cacheMain, kernel
  <2>2. errors' \in Nat /\ errors' >= errors /\ errors' > 0
    BY <1>0, <2>1
  <2>3. wpc'[w] = "statFailed" /\ \A v \in Workers \ {w} : wpc'[v] = wpc[v]
    BY <1>0, <2>1 DEF CacheTypes
  <2>. QED  BY <1>4, <2>1, <2>2, <2>3
<1>6. CASE ReadFails(w)
  <2>1. /\ UNCHANGED <<cpc, caches, ended, key, segment, shm>> /\ wpc[w] \in {"copy", "unmapped"}
        /\ errors' = errors + 1 /\ wpc' = [wpc EXCEPT ![w] = "stuck"]
        /\ job' = [job EXCEPT ![w] = None]
    BY <1>6 DEF ReadFails, Turn, cacheMain, kernel
  <2>2. errors' \in Nat /\ errors' >= errors
    BY <1>0, <2>1
  <2>3. /\ wpc'[w] = "stuck"
        /\ \A v \in Workers \ {w} : wpc'[v] = wpc[v] /\ job'[v] = job[v]
    BY <1>0, <2>1 DEF CacheTypes
  <2>. QED  BY <1>4, <2>1, <2>2, <2>3
<1>7. CASE WaitTurn(w) \/ LockSegment(w) \/ SearchEnds(w)
  <2>1. /\ UNCHANGED <<cpc, caches, ended, errors, job, key, segment, shm>>
        /\ wpc[w] \in {"wait", "stat", "search"}
        /\ \E l \in {"recv", "map", "stat", "notFound"} : wpc' = [wpc EXCEPT ![w] = l]
    BY <1>7 DEF WaitTurn, LockSegment, SearchEnds, Turn, Calm, cacheMain, kernel
  <2>2. /\ wpc'[w] \in {"recv", "map", "stat", "notFound"}
        /\ \A v \in Workers \ {w} : wpc'[v] = wpc[v]
    BY <1>0, <2>1 DEF CacheTypes
  <2>. QED  BY <1>0, <1>4, <2>1, <2>2
<1>8. CASE ReceiveRequest(w)
  <2>1. /\ UNCHANGED <<cpc, caches, ended, errors, key, segment, shm>> /\ wpc[w] = "recv"
        /\ wpc' = [wpc EXCEPT ![w] = "search"] /\ job' = [job EXCEPT ![w] = Head(queue[msqid])]
    BY <1>8 DEF ReceiveRequest, Dequeue, Turn, Calm, cacheMain
  <2>2. /\ wpc'[w] = "search"
        /\ \A v \in Workers \ {w} : wpc'[v] = wpc[v] /\ job'[v] = job[v]
    BY <1>0, <2>1 DEF CacheTypes
  <2>. QED  BY <1>0, <1>4, <2>1, <2>2
<1>9. CASE SearchOn(w)
  <2>1. /\ UNCHANGED <<cpc, caches, ended, errors, job, wpc, key, segment, shm>>
        /\ wpc[w] = "search"
    BY <1>9 DEF SearchOn, Calm, cacheMain, kernel
  <2>. QED  BY <1>0, <1>4, <2>1
<1>10. CASE SendReply(w)
  <2>1. /\ UNCHANGED <<cpc, caches, ended, errors, key, segment, shm>>
        /\ wpc[w] # "off" /\ job' = [job EXCEPT ![w] = None]
        /\ \E l \in {"rmid", "wait"} : wpc' = [wpc EXCEPT ![w] = l]
    BY <1>10 DEF SendReply, Enqueue, Turn, Calm, cacheMain
  <2>2. /\ wpc'[w] \in {"rmid", "wait"}
        /\ \A v \in Workers \ {w} : wpc'[v] = wpc[v] /\ job'[v] = job[v]
    BY <1>0, <2>1 DEF CacheTypes
  <2>. QED  BY <1>0, <1>4, <2>1, <2>2
<1>11. CASE RemoveReplies(w)
  <2>1. /\ UNCHANGED <<cpc, caches, ended, errors, job>> /\ MsgRemove(msqidC)
        /\ wpc[w] = "rmid" /\ wpc' = [wpc EXCEPT ![w] = "gone"]
    BY <1>11 DEF RemoveReplies, Turn, Calm, cacheMain
  <2>2. key'["req"] = key["req"] \/ key'["req"] = None
    BY <1>0, <2>1, MsgRemoveDoes DEF CacheTypes
  <2>3. UNCHANGED <<segment, shm>>
    BY <2>1 DEF MsgRemove
  <2>4. wpc'[w] = "gone" /\ \A v \in Workers \ {w} : wpc'[v] = wpc[v]
    BY <1>0, <2>1 DEF CacheTypes
  <2>. QED  BY <1>0, <1>4, <2>1, <2>2, <2>3, <2>4
<1>12. CASE MapSegment(w)
  <2>1. /\ UNCHANGED <<cpc, caches, ended, errors, job, key>> /\ segment' = Size[job[w]]
        /\ wpc[w] = "map" /\ wpc' = [wpc EXCEPT ![w] = "copy"]
    BY <1>12 DEF MapSegment, Turn, Calm, cacheMain
  <2>2. job[w] \in Keys
    BY <1>0, <2>1 DEF WorkersPlaced, CacheTypes, Serving
  <2>3. segment' \in Nat
    BY <2>1, <2>2, LifecycleAssumption
  <2>4. wpc'[w] = "copy" /\ \A v \in Workers \ {w} : wpc'[v] = wpc[v]
    BY <1>0, <2>1 DEF CacheTypes
  <2>. QED  BY <1>0, <1>4, <2>1, <2>3, <2>4
<1>13. CASE CopyFile(w)
  <2>1. /\ UNCHANGED <<cpc, caches, ended, errors, job, key, segment>> /\ shm' = job[w]
        /\ wpc[w] = "copy" /\ wpc' = [wpc EXCEPT ![w] = "reply"] /\ segment >= Size[job[w]]
    BY <1>13 DEF CopyFile, Turn, Calm, cacheMain
  <2>2. job[w] \in Keys
    BY <1>0, <2>1 DEF WorkersPlaced, CacheTypes, Serving
  <2>3. segment # -1
    <3>1. Size[job[w]] \in Nat
      BY <2>2, LifecycleAssumption
    <3>. QED  BY <2>1, <3>1
  <2>4. wpc'[w] = "reply" /\ \A v \in Workers \ {w} : wpc'[v] = wpc[v]
    BY <1>0, <2>1 DEF CacheTypes
  <2>. QED  BY <1>0, <1>4, <2>1, <2>3, <2>4
<1>14. CASE MapNothing(w)
  <2>1. /\ UNCHANGED <<cpc, caches, ended, errors, job, key, segment, shm>> /\ segment = -1
        /\ wpc[w] = "map" /\ wpc' = [wpc EXCEPT ![w] = "unmapped"]
    BY <1>14 DEF MapNothing, Turn, Calm, cacheMain, kernel
  <2>2. proxies > 1 \/ caches > 1
    <3>. SUFFICES ASSUME ~(caches > 1) PROVE FALSE
      OBVIOUS
    <3>1. caches = 1
      BY <1>0, <1>1, <2>1
    <3>. QED  BY <1>0, <1>1, <2>1, <3>1 DEF Brought
  <2>3. wpc'[w] = "unmapped" /\ \A v \in Workers \ {w} : wpc'[v] = wpc[v]
    BY <1>0, <2>1 DEF CacheTypes
  <2>. QED  BY <1>0, <1>4, <2>1, <2>2, <2>3
<1>15. CASE CopyNothing(w)
  <2>1. /\ UNCHANGED <<cpc, caches, ended, errors, job, key, segment, shm>> /\ Size[job[w]] = 0
        /\ wpc[w] = "unmapped" /\ wpc' = [wpc EXCEPT ![w] = "reply"]
    BY <1>15 DEF CopyNothing, Turn, Calm, cacheMain, kernel
  <2>2. wpc'[w] = "reply" /\ (\A v \in Workers \ {w} : wpc'[v] = wpc[v]) /\ ~(Size[job[w]] > 0)
    BY <1>0, <2>1 DEF CacheTypes
  <2>. QED  BY <1>0, <1>4, <2>1, <2>2
<1>. QED  BY <1>2, <1>3, <1>5, <1>6, <1>7, <1>8, <1>9, <1>10, <1>11, <1>12, <1>13, <1>14, <1>15
          DEF WorkerStep

(***************************************************************************)
(* Counting requests, replies and those that wait.                         *)
(***************************************************************************)
\* Nothing new is on its way, and nobody stops waiting.
LEMMA NothingNew ==
    ASSUME KernelTypes, KernelTypes', NoSecondAnswer, left \in Nat, left' = left,
           \A k \in {"req", "resp"} : Held(k)' = Held(k) \/ Held(k)' = << >>,
           Busy' \subseteq Busy, Waiting' = Waiting
    PROVE  NoSecondAnswer'
<1>1. /\ \A k \in {"req", "resp"} : Pending(k) = Len(Held(k)) /\ Pending(k) \in Nat
      /\ IsFiniteSet(Busy) /\ Cardinality(Busy) \in Nat /\ Cardinality(Waiting) \in Nat
  BY Counts
<1>2. \A k \in {"req", "resp"} : Pending(k)' = Len(Held(k)')
  BY DEF Pending, Held
<1>3. \A k \in {"req", "resp"} : Pending(k)' \in Nat /\ Pending(k)' <= Pending(k)
  <2>1. Len(<< >>) = 0
    OBVIOUS
  <2>. QED  BY <1>1, <1>2, <2>1
<1>4. Cardinality(Busy') \in Nat /\ Cardinality(Busy') <= Cardinality(Busy)
  BY <1>1, FS_Subset, FS_CardinalityType
<1>5. Tokens' <= Tokens /\ Tokens \in Nat /\ Tokens' \in Nat
  BY <1>1, <1>3, <1>4 DEF Tokens
<1>6. Cardinality(Waiting') = Cardinality(Waiting)
  OBVIOUS
<1>. QED  BY <1>1, <1>5, <1>6 DEF NoSecondAnswer

LEMMA CountOfProxy ==
    ASSUME ProxyInv, ProxyInv', NoSecondAnswer, ProxyMoves
    PROVE  NoSecondAnswer'
<1>0. /\ KernelTypes /\ KernelTypes' /\ ProxyTypes /\ HandlersPlaced /\ Given
      /\ Busy' = Busy /\ left \in Nat
  <2>1. UNCHANGED cache
    BY NextIs
  <2>. QED  BY <2>1 DEF ProxyInv, ProxyTypes, cache, Busy
<1>1. /\ \A k \in {"req", "resp"} : Pending(k) = Len(Held(k)) /\ Pending(k) \in Nat
      /\ Cardinality(Busy) \in Nat /\ IsFiniteSet(Waiting) /\ Cardinality(Waiting) \in Nat
      /\ \A k \in {"req", "resp"} : Pending(k)' = Len(Held(k)') /\ Pending(k)' \in Nat
      /\ Cardinality(Busy)' = Cardinality(Busy)
  <2>1. \A k \in {"req", "resp"} : Pending(k)' = Len(Held(k)')
    BY DEF Pending, Held
  <2>2. Len(Held("req")') \in Nat /\ Len(Held("resp")') \in Nat
    <3>1. Held("req")' \in Seq(Keys) /\ Held("resp")' \in Seq(Reply)
      BY <1>0 DEF KernelTypes
    <3>. QED  BY <3>1
  <2>. QED  BY <1>0, <2>1, <2>2, Counts
<1>2. CASE ProxyStart
  <2>1. Waiting' = Waiting /\ left' = left /\ \A k \in {"req", "resp"} : Held(k)' = Held(k)
    BY <1>2 DEF ProxyStart, Waiting, Held
  <2>. QED  BY <1>0, <2>1, NothingNew
<1>3. CASE ProxyQueue
  <2>1. Waiting' = Waiting /\ left' = left
    BY <1>3 DEF ProxyQueue, Waiting
  <2>2. \A k \in {"req", "resp"} : Held(k)' = Held(k)
    BY <1>0, <1>3, MsgGetDoes DEF ProxyQueue
  <2>. QED  BY <1>0, <2>1, <2>2, NothingNew
<1>4. CASE ProxySignal
  <2>1. /\ left' = left + Cardinality(Waiting) /\ hpc' = [h \in Handlers |-> "idle"]
        /\ \A k \in {"req", "resp"} : Held(k)' = Held(k)
    BY <1>4 DEF ProxySignal, kernel, Held
  <2>2. Waiting' = {}
    BY <2>1 DEF Waiting
  <2>3. Tokens' = Tokens /\ Tokens \in Nat
    BY <1>1, <2>1 DEF Tokens
  <2>4. Cardinality(Waiting') = 0
    BY <2>2, FS_EmptySet
  <2>. QED  BY <1>0, <1>1, <2>1, <2>3, <2>4 DEF NoSecondAnswer
<1>5. ASSUME NEW h \in Handlers, Accept(h) \/ HandlerStep(h) PROVE NoSecondAnswer'
  <2>1. CASE \/ Accept(h) \/ KeepRequests(h) \/ FindQueue(h) \/ KeepReplies(h) \/ CallReceive(h)
             \/ Stream(h)
    <3>1. left' = left /\ \A k \in {"req", "resp"} : Held(k)' = Held(k)
      BY <2>1 DEF Accept, KeepRequests, FindQueue, KeepReplies, CallReceive, Stream, kernel, Held
    <3>2. Waiting' = Waiting
      <4>1. \/ /\ hpc[h] \in Awaiting
               /\ \E l \in Awaiting : hpc' = [hpc EXCEPT ![h] = l]
            \/ /\ hpc[h] \notin Awaiting
               /\ \E l \in {"idle", "get", "send"} : hpc' = [hpc EXCEPT ![h] = l]
        BY <2>1 DEF Accept, KeepRequests, FindQueue, KeepReplies, CallReceive, Stream, Answered, Go,
                    Awaiting
      <4>2. hpc'[h] \in Awaiting <=> hpc[h] \in Awaiting
        BY <1>0, <4>1 DEF ProxyTypes, Awaiting
      <4>3. \A g \in Handlers \ {h} : hpc'[g] = hpc[g]
        BY <1>0, <4>1 DEF ProxyTypes
      <4>. QED  BY <4>2, <4>3 DEF Waiting, Awaiting
    <3>. QED  BY <1>0, <3>1, <3>2, NothingNew
  <2>2. CASE GetQueue(h)
    <3>1. left' = left /\ Waiting' = Waiting
      BY <1>0, <2>2 DEF GetQueue, Go, Waiting, ProxyTypes
    <3>2. \A k \in {"req", "resp"} : Held(k)' = Held(k)
      BY <1>0, <2>2, MsgGetDoes DEF GetQueue
    <3>. QED  BY <1>0, <3>1, <3>2, NothingNew
  <2>3. CASE SendRequest(h)
    <3>1. /\ left' = left /\ hpc[h] = "send" /\ hpc' = [hpc EXCEPT ![h] = "find"]
      BY <2>3 DEF SendRequest, Go
    <3>2. want[h] \in Keys
      BY <1>0, <3>1 DEF HandlersPlaced
    <3>3. /\ Held("req")' = Append(Held("req"), want[h]) /\ Held("resp")' = Held("resp")
      BY <1>0, <2>3, <3>2, RequestMoves
    <3>4. Pending("req")' = Pending("req") + 1 /\ Pending("resp")' = Pending("resp")
      <4>1. Held("req") \in Seq(Keys)
        BY <1>0 DEF KernelTypes
      <4>2. Len(Append(Held("req"), want[h])) = Len(Held("req")) + 1
        BY <3>2, <4>1, Appended
      <4>. QED  BY <1>1, <3>3, <4>2
    <3>5. Waiting' = Waiting \cup {h} /\ h \notin Waiting
      BY <1>0, <3>1 DEF Waiting, ProxyTypes
    <3>6. Cardinality(Waiting') = Cardinality(Waiting) + 1
      BY <1>1, <3>5, FS_AddElement
    <3>7. Tokens' = Tokens + 1 /\ Tokens \in Nat
      <4>1. /\ Pending("req") \in Nat /\ Pending("resp") \in Nat /\ Cardinality(Busy) \in Nat
            /\ Cardinality(Busy)' = Cardinality(Busy)
        BY <1>1
      <4>. QED  BY <3>4, <4>1 DEF Tokens
    <3>. QED  BY <1>0, <1>1, <3>1, <3>6, <3>7 DEF NoSecondAnswer
  <2>4. CASE QueueGone(h)
    <3>1. /\ hpc' = [hpc EXCEPT ![h] = "idle"] /\ hpc[h] \in {"send", "wait"}
          /\ left' = IF hpc[h] = "wait" THEN left + 1 ELSE left
          /\ \A k \in {"req", "resp"} : Held(k)' = Held(k)
      BY <2>4 DEF QueueGone, Answered, Go, kernel, Held
    <3>2. CASE hpc[h] = "send"
      <4>1. Waiting' = Waiting /\ left' = left
        BY <1>0, <3>1, <3>2 DEF Waiting, ProxyTypes
      <4>. QED  BY <1>0, <3>1, <4>1, NothingNew
    <3>3. CASE hpc[h] = "wait"
      <4>1. Waiting' = Waiting \ {h} /\ h \in Waiting
        BY <1>0, <3>1, <3>3 DEF Waiting, ProxyTypes
      <4>2. Cardinality(Waiting') = Cardinality(Waiting) - 1
        BY <1>1, <4>1, FS_RemoveElement
      <4>3. Tokens' = Tokens /\ Tokens \in Nat
        BY <1>1, <3>1 DEF Tokens
      <4>4. left' = left + 1
        BY <3>1, <3>3
      <4>. QED  BY <1>0, <1>1, <4>2, <4>3, <4>4 DEF NoSecondAnswer
    <3>. QED  BY <3>1, <3>2, <3>3
  <2>5. CASE Receive(h)
    <3>1. /\ Held("resp") # << >> /\ Held("resp")' = Tail(Held("resp")) /\ Held("req")' = Held("req")
      BY <1>0, <2>5, RequestMoves, ReplyMoves
    <3>2. hpc[h] = "wait" /\ left' = left
          /\ hpc' \in {[hpc EXCEPT ![h] = "stream"], [hpc EXCEPT ![h] = "idle"]}
      BY <2>5 DEF Receive, Answered, Go
    <3>3. Pending("resp")' = Pending("resp") - 1 /\ Pending("req")' = Pending("req")
      <4>1. Held("resp") \in Seq(Reply)
        BY <1>0 DEF KernelTypes
      <4>2. Len(Tail(Held("resp"))) = Len(Held("resp")) - 1
        BY <3>1, <4>1, HeadTail
      <4>. QED  BY <1>1, <3>1, <4>2
    <3>4. Waiting' = Waiting \ {h} /\ h \in Waiting
      <4>1. hpc'[h] \in {"stream", "idle"} /\ \A g \in Handlers \ {h} : hpc'[g] = hpc[g]
        BY <1>0, <3>2 DEF ProxyTypes
      <4>. QED  BY <3>2, <4>1 DEF Waiting
    <3>5. Cardinality(Waiting') = Cardinality(Waiting) - 1
      BY <1>1, <3>4, FS_RemoveElement
    <3>6. Tokens' = Tokens - 1 /\ Tokens \in Nat
      BY <1>1, <3>3 DEF Tokens
    <3>. QED  BY <1>0, <1>1, <3>2, <3>5, <3>6 DEF NoSecondAnswer
  <2>. QED  BY <1>5, <2>1, <2>2, <2>3, <2>4, <2>5 DEF HandlerStep
<1>. QED  BY <1>2, <1>3, <1>4, <1>5 DEF ProxyMoves

LEMMA CountOfCache ==
    ASSUME CacheInv, CacheInv', NoSecondAnswer, left \in Nat, CacheMoves
    PROVE  NoSecondAnswer'
<1>0. /\ KernelTypes /\ KernelTypes' /\ CacheTypes /\ Waiting' = Waiting /\ left' = left
  <2>1. UNCHANGED proxy
    BY NextIs
  <2>. QED  BY <2>1 DEF CacheInv, proxy, Waiting
<1>1. CASE CacheLoadFails \/ Unlink
  <2>1. Busy' = {} /\ \A k \in {"req", "resp"} : Held(k)' = Held(k)
    BY <1>1 DEF CacheLoadFails, Unlink, Ends, kernel, Held, Busy
  <2>. QED  BY <1>0, <2>1, NothingNew
<1>2. CASE CacheStart \/ CacheLoad \/ CacheSort \/ CacheFind \/ CacheSignal
  <2>1. Busy' = Busy /\ \A k \in {"req", "resp"} : Held(k)' = Held(k)
    BY <1>2 DEF CacheStart, CacheLoad, CacheSort, CacheFind, CacheSignal, kernel, Held, Busy
  <2>. QED  BY <1>0, <2>1, NothingNew
<1>3. CASE CacheCreate
  <2>1. Busy' = Busy
    BY <1>3 DEF CacheCreate, Busy
  <2>2. \A k \in {"req", "resp"} : Held(k)' = Held(k)
    BY <1>0, <1>3, MsgGetDoes DEF CacheCreate
  <2>. QED  BY <1>0, <2>1, <2>2, NothingNew
<1>4. CASE RemoveQueue("rmReq", msqid, "rmResp") \/ RemoveQueue("rmResp", msqidC, "unlink")
  <2>1. Busy' = Busy
    BY <1>4 DEF RemoveQueue, Busy
  <2>2. \A k \in {"req", "resp"} : Held(k)' = Held(k) \/ Held(k)' = << >>
    <3>1. CASE RemoveQueue("rmReq", msqid, "rmResp")
      BY <1>0, <3>1, MsgRemoveDoes DEF RemoveQueue, CacheTypes
    <3>2. CASE RemoveQueue("rmResp", msqidC, "unlink")
      BY <1>0, <3>2, MsgRemoveDoes DEF RemoveQueue, CacheTypes
    <3>. QED  BY <1>4, <3>1, <3>2
  <2>. QED  BY <1>0, <2>1, <2>2, NothingNew
<1>. QED  BY <1>1, <1>2, <1>3, <1>4 DEF CacheMoves, CacheStep

LEMMA CountOfWorker ==
    ASSUME CacheInv, CacheInv', NoSecondAnswer, left \in Nat,
           NEW w \in Workers, StatFails(w) \/ ReadFails(w) \/ WorkerStep(w)
    PROVE  NoSecondAnswer'
<1>0. /\ KernelTypes /\ KernelTypes' /\ CacheTypes /\ WorkersPlaced /\ Given
      /\ Waiting' = Waiting /\ left' = left
  <2>1. UNCHANGED proxy
    BY NextIs DEF WorkerMoves
  <2>. QED  BY <2>1 DEF CacheInv, proxy, Waiting
<1>1. /\ \A k \in {"req", "resp"} : Pending(k) = Len(Held(k)) /\ Pending(k) \in Nat
      /\ Cardinality(Busy) \in Nat /\ IsFiniteSet(Busy) /\ Cardinality(Waiting) \in Nat
      /\ \A k \in {"req", "resp"} : Pending(k)' = Len(Held(k)')
      /\ Cardinality(Waiting)' = Cardinality(Waiting)
  <2>1. \A k \in {"req", "resp"} : Pending(k)' = Len(Held(k)')
    BY DEF Pending, Held
  <2>. QED  BY <1>0, <2>1, Counts
<1>2. CASE WorkerExits(w) \/ Killed(w)
  <2>1. Busy' = {} /\ \A k \in {"req", "resp"} : Held(k)' = Held(k)
    BY <1>2 DEF WorkerExits, Killed, Ends, kernel, Held, Busy
  <2>. QED  BY <1>0, <2>1, NothingNew
<1>3. CASE StatFails(w) \/ WaitTurn(w) \/ SearchOn(w) \/ SearchEnds(w) \/ LockSegment(w)
           \/ MapSegment(w) \/ MapNothing(w) \/ CopyFile(w) \/ CopyNothing(w)
  <2>1. Busy' = Busy /\ \A k \in {"req", "resp"} : Held(k)' = Held(k)
    BY <1>3 DEF StatFails, WaitTurn, SearchOn, SearchEnds, LockSegment, MapSegment, MapNothing,
                CopyFile, CopyNothing, Narrow, kernel, Held, Busy
  <2>. QED  BY <1>0, <2>1, NothingNew
<1>4. CASE ReadFails(w)
  <2>1. Busy' \subseteq Busy /\ \A k \in {"req", "resp"} : Held(k)' = Held(k)
    BY <1>0, <1>4 DEF ReadFails, CacheTypes, kernel, Held, Busy
  <2>. QED  BY <1>0, <2>1, NothingNew
<1>5. CASE RemoveReplies(w)
  <2>1. Busy' = Busy /\ MsgRemove(msqidC)
    BY <1>5 DEF RemoveReplies, Busy
  <2>2. \A k \in {"req", "resp"} : Held(k)' = Held(k) \/ Held(k)' = << >>
    BY <1>0, <2>1, MsgRemoveDoes DEF CacheTypes
  <2>. QED  BY <1>0, <2>1, <2>2, NothingNew
<1>6. CASE ReceiveRequest(w)
  <2>. DEFINE k == Head(Held("req"))
  <2>1. /\ Held("req") # << >> /\ Head(queue[msqid]) = k
        /\ Held("req")' = Tail(Held("req")) /\ Held("resp")' = Held("resp")
    BY <1>0, <1>6, RequestMoves
  <2>2. Held("req") \in Seq(Keys)
    BY <1>0 DEF KernelTypes
  <2>3. k # None /\ Len(Tail(Held("req"))) = Len(Held("req")) - 1
    BY <2>1, <2>2, HeadTail, IndexAssumption, LifecycleAssumption
  <2>4. /\ job' = [job EXCEPT ![w] = k] /\ wpc[w] = "recv"
    BY <1>6, <2>1 DEF ReceiveRequest
  <2>. HIDE DEF k
  <2>5. Busy' = Busy \cup {w} /\ w \notin Busy
    <3>1. job[w] = None
      BY <1>0, <2>4 DEF WorkersPlaced, Serving
    <3>. QED  BY <1>0, <2>3, <2>4, <3>1 DEF CacheTypes, Busy
  <2>6. Cardinality(Busy') = Cardinality(Busy) + 1
    BY <1>1, <2>5, FS_AddElement
  <2>7. Pending("req")' = Pending("req") - 1 /\ Pending("resp")' = Pending("resp")
    BY <1>1, <2>1, <2>3
  <2>8. Tokens' = Tokens
    BY <1>1, <2>6, <2>7 DEF Tokens
  <2>. QED  BY <1>0, <1>1, <2>8 DEF NoSecondAnswer
<1>7. CASE SendReply(w)
  <2>1. wpc[w] \in {"notFound", "statFailed", "reply"} /\ job' = [job EXCEPT ![w] = None]
    BY <1>7 DEF SendReply
  <2>2. job[w] \in Keys /\ job[w] # None
    BY <1>0, <2>1 DEF WorkersPlaced, CacheTypes, Serving
  <2>3. /\ Held("resp")' = Append(Held("resp"), ReplyOf(w)) /\ ReplyOf(w) \in Reply
        /\ Held("req")' = Held("req")
    BY <1>0, <1>7, <2>2, ReplyMoves
  <2>4. Held("resp") \in Seq(Reply)
    BY <1>0 DEF KernelTypes
  <2>5. Len(Append(Held("resp"), ReplyOf(w))) = Len(Held("resp")) + 1
    BY <2>3, <2>4, Appended
  <2>6. Busy' = Busy \ {w} /\ w \in Busy
    BY <1>0, <2>1, <2>2 DEF CacheTypes, Busy
  <2>7. Cardinality(Busy') = Cardinality(Busy) - 1
    BY <1>1, <2>6, FS_RemoveElement
  <2>8. Pending("resp")' = Pending("resp") + 1 /\ Pending("req")' = Pending("req")
    BY <1>1, <2>3, <2>5
  <2>9. Tokens' = Tokens
    BY <1>1, <2>7, <2>8 DEF Tokens
  <2>. QED  BY <1>0, <1>1, <2>9 DEF NoSecondAnswer
<1>. QED  BY <1>2, <1>3, <1>4, <1>5, <1>6, <1>7 DEF WorkerStep

(***************************************************************************)
(* The invariant holds.                                                    *)
(***************************************************************************)
LEMMA InitState == Init => IInv
<1>. SUFFICES ASSUME Init PROVE IInv
  OBVIOUS
<1>1. key = [k \in {"req", "resp"} |-> None] /\ queue = << >> /\ made = 0 /\ segment = -1 /\ shm = None
  BY DEF Init
<1>2. Held("req") = << >> /\ Held("resp") = << >> /\ DOMAIN queue = {}
  BY <1>1 DEF Held
<1>3. KernelTypes
  <2>1. Held("req") \in Seq(Keys) /\ Held("resp") \in Seq(Reply)
    <3>1. << >> \in Seq(Keys) /\ << >> \in Seq(Reply)
      OBVIOUS
    <3>. QED  BY <1>2, <3>1
  <2>2. key["req"] = None /\ key["resp"] = None
    BY <1>1
  <2>3. DOMAIN queue = {key["req"], key["resp"]} \ {None}
    BY <1>2, <2>2
  <2>. QED  BY <1>1, <2>1, <2>2, <2>3 DEF KernelTypes
<1>4. ProxyTypes
  <2>1. NoAnswer \in Answers
    BY AnswerTypes DEF NoAnswer, Kinds
  <2>. QED  BY <2>1 DEF Init, ProxyTypes
<1>5. CacheTypes
  BY DEF Init, CacheTypes
<1>6. IndexTypes
  <2>1. list \in Seq(Keys)
    BY IndexAssumption DEF Init
  <2>. QED  BY <2>1 DEF Init, IndexInit, IndexTypes, Workers
<1>7. Given /\ HandlersPlaced /\ WorkersPlaced
  BY DEF Init, Given, HandlersPlaced, WorkersPlaced, Serving, Locking
<1>8. Loaded /\ SearchInRange /\ Brought /\ KilledAfterRestart
  BY DEF Init, Loaded, SearchInRange, Brought, KilledAfterRestart
<1>9. NoSecondAnswer
  <2>1. Busy = {} /\ Waiting = {}
    BY DEF Init, Busy, Waiting
  <2>2. /\ Pending("req") = 0 /\ Pending("resp") = 0 /\ Cardinality(Busy) = 0
        /\ Cardinality(Waiting) = 0 /\ left = 0
    BY <1>1, <2>1, FS_EmptySet DEF Pending, Init
  <2>. QED  BY <2>2 DEF NoSecondAnswer, Tokens
<1>. QED  BY <1>3, <1>4, <1>5, <1>6, <1>7, <1>8, <1>9 DEF IInv, Types

LEMMA NextKeeps == IInv /\ [Next]_vars => IInv'
<1>1. CASE IInv /\ Next
  <2>1. /\ IndexInv /\ ProxyInv /\ CacheInv /\ BroughtInv /\ NoSecondAnswer
        /\ left \in Nat /\ ProxyTypes /\ HandlersPlaced /\ WorkersPlaced /\ IndexTypes
    BY <1>1 DEF IInv, Types, ProxyTypes, IndexInv, ProxyInv, CacheInv, BroughtInv
  <2>2. IndexInv'
    BY <1>1, IndexStep
  <2>3. CASE ProxyMoves
    <3>1. ProxyInv' /\ BroughtInv'
      BY <2>1, <2>3, ProxyKeeps, BroughtByProxy
    <3>2. CacheTypes' /\ WorkersPlaced'
      <4>1. UNCHANGED cache
        BY <2>3, NextIs
      <4>. QED  BY <2>1, <4>1 DEF CacheInv, CacheTypes, WorkersPlaced, cache, cacheMain, search
    <3>3. NoSecondAnswer'
      BY <2>1, <2>3, <3>1, CountOfProxy
    <3>. QED  BY <2>2, <3>1, <3>2, <3>3 DEF IInv, Types, IndexInv, ProxyInv, BroughtInv
  <2>4. ASSUME CacheMoves \/ WorkerMoves PROVE IInv'
    <3>1. CacheInv' /\ BroughtInv' /\ NoSecondAnswer'
      <4>1. CASE CacheMoves
        BY <2>1, <4>1, CacheKeeps, BroughtByCache, CountOfCache
      <4>2. CASE WorkerMoves
        BY <2>1, <4>2, WorkerKeeps, BroughtByWorker, CountOfWorker DEF WorkerMoves
      <4>. QED  BY <2>4, <4>1, <4>2
    <3>2. ProxyTypes' /\ HandlersPlaced'
      <4>1. UNCHANGED proxy
        BY <2>4, NextIs
      <4>. QED  BY <2>1, <4>1 DEF ProxyTypes, HandlersPlaced, proxy
    <3>. QED  BY <2>2, <3>1, <3>2 DEF IInv, Types, IndexInv, CacheInv, BroughtInv
  <2>. QED  BY <1>1, <2>3, <2>4, NextIs
<1>2. CASE IInv /\ UNCHANGED vars
  <2>. USE <1>2 DEF IInv, Types, vars, kernel, proxy, cache, cacheMain, table, search
  <2>1. \A k \in {"req", "resp"} : Held(k)' = Held(k)
    BY DEF Held
  <2>2. KernelTypes' /\ ProxyTypes' /\ CacheTypes' /\ IndexTypes'
    BY <2>1 DEF KernelTypes, ProxyTypes, CacheTypes, IndexTypes
  <2>3. Given' /\ HandlersPlaced' /\ WorkersPlaced'
    BY DEF Given, HandlersPlaced, WorkersPlaced
  <2>4. Loaded' /\ Brought' /\ KilledAfterRestart'
    BY DEF Loaded, Sorted, Brought, KilledAfterRestart
  <2>5. SearchInRange'
    BY DEF SearchInRange, InRange
  <2>6. NoSecondAnswer'
    <3>1. Busy' = Busy /\ Waiting' = Waiting /\ left \in Nat /\ left' = left
      BY DEF Busy, Waiting, ProxyTypes
    <3>. QED  BY <2>1, <2>2, <3>1, NothingNew
  <2>. QED  BY <2>2, <2>3, <2>4, <2>5, <2>6
<1>. QED  BY <1>1, <1>2

LEMMA Invariance == Spec => []IInv
  BY InitState, NextKeeps, PTL DEF Spec

\* Every variable keeps its type, a key names a queue that lives, and the table
\* has room for a line after each one that was loaded.
THEOREM TypeCorrect == Spec => []TypeOK
<1>1. IInv => TypeOK
  <2>. SUFFICES ASSUME IInv PROVE TypeOK
    OBVIOUS
  <2>1. KernelTypes /\ ProxyTypes /\ CacheTypes /\ IndexTypes
    BY DEF IInv, Types
  <2>2. key \in [{"req", "resp"} -> DOMAIN queue \cup {None}]
    BY <2>1 DEF KernelTypes
  <2>3. DOMAIN queue \subseteq 0..made - 1
    <3>1. \A k \in {"req", "resp"} : key[k] # None => key[k] \in 0..made - 1
      BY <2>1 DEF KernelTypes
    <3>. QED  BY <2>1, <3>1 DEF KernelTypes
  <2>. QED  BY <2>1, <2>2, <2>3 DEF TypeOK, KernelTypes, ProxyTypes, CacheTypes, IndexTypes
<1>. QED  BY <1>1, Invariance, PTL

\* simplecache_get reads only the table it was given, sorted and whole, and
\* never steps over the key it looks for, whatever is stopped meanwhile.
THEOREM SearchesInRange == Spec => []SearchInRange
<1>1. IInv => SearchInRange
  BY DEF IInv
<1>. QED  BY <1>1, Invariance, PTL

\* No request is replied to twice: requests, jobs and replies never outnumber
\* the handlers that wait and those that stopped waiting without their reply.
THEOREM NothingAnsweredTwice == Spec => []NoSecondAnswer
<1>1. IInv => NoSecondAnswer
  BY DEF IInv
<1>. QED  BY <1>1, Invariance, PTL

\* The cache dies of the segment only after one of the two was started again.
THEOREM DiesOfRestartOnly == Spec => []KilledAfterRestart
<1>1. IInv => KilledAfterRestart
  BY DEF IInv
<1>. QED  BY <1>1, Invariance, PTL

(***************************************************************************)
(* A proxy with one handler at a time.                                     *)
(***************************************************************************)
Alone == \A g, h \in Handlers : g = h

\* When nobody waits, nothing is on its way.
LEMMA NothingAbout ==
    ASSUME IInv, left = 0, \A h \in Handlers : hpc[h] \notin Awaiting
    PROVE  Held("req") = << >> /\ Held("resp") = << >> /\ \A w \in Workers : job[w] = None
<1>1. KernelTypes /\ NoSecondAnswer
  BY DEF IInv, Types
<1>2. Waiting = {}
  BY DEF Waiting, Awaiting
<1>3. Tokens <= 0
  <2>1. Cardinality(Waiting) = 0
    BY <1>2, FS_EmptySet
  <2>. QED  BY <1>1, <2>1 DEF NoSecondAnswer
<1>4. /\ Pending("req") = Len(Held("req")) /\ Pending("req") \in Nat
      /\ Pending("resp") = Len(Held("resp")) /\ Pending("resp") \in Nat
      /\ Cardinality(Busy) \in Nat /\ IsFiniteSet(Busy)
  BY <1>1, Counts
<1>5. Len(Held("req")) = 0 /\ Len(Held("resp")) = 0 /\ Cardinality(Busy) = 0
  BY <1>3, <1>4 DEF Tokens
<1>6. Busy = {}
  BY <1>4, <1>5, FS_EmptySet
<1>7. Held("req") \in Seq(Keys) /\ Held("resp") \in Seq(Reply)
  BY <1>1 DEF KernelTypes
<1>. QED  BY <1>5, <1>6, <1>7 DEF Busy

\* What other processes do to the handlers' requests when they add nothing.
LessAbout ==
    /\ \A k \in {"req", "resp"} : Held(k)' = Held(k) \/ Held(k)' = << >>
    /\ \A w \in Workers : job'[w] = job[w] \/ job'[w] = None
    /\ (segment' = segment /\ shm' = shm) \/ segment' = -1

\* A queue that was removed stays so.
LEMMA RemovedStays ==
    ASSUME KernelTypes, KernelTypes', KeysMove, Removed
    PROVE  Removed'
<1>1. PICK id \in 0..made - 1 : id \notin DOMAIN queue
  BY DEF Removed, Lives
<1>2. id \in Nat /\ id # None
  <2>1. id \in Nat
    BY DEF KernelTypes
  <2>. QED  BY <2>1, LifecycleAssumption
<1>3. id # key["req"] /\ id # key["resp"]
  BY <1>1, <1>2 DEF KernelTypes
<1>4. id # key'["req"] /\ id # key'["resp"] /\ id \in 0..made' - 1
  BY <1>3, StillGiven
<1>5. id \notin DOMAIN queue'
  BY <1>4 DEF KernelTypes
<1>. QED  BY <1>4, <1>5 DEF Removed, Lives

\* What the handlers have, and what a worker reads of the list, stays.
OthersStep ==
    /\ UNCHANGED <<proxy, list>> /\ errors \in Nat /\ errors' \in Nat /\ errors' >= errors
    /\ Removed => Removed'

LEMMA OwnStays ==
    ASSUME OwnInv, OthersStep,
           \A h \in Handlers : left = 0 /\ hpc[h] \in Awaiting /\ OnItsWay(h) => OnItsWay(h)',
           \A h \in Handlers : left = 0 /\ hpc[h] = "stream" /\ InSegment(h) => InSegment(h)'
    PROVE  OwnInv'
<1>1. UNCHANGED <<hpc, want, answer, left, list>> /\ (errors > 0 => errors' > 0) /\ (Removed => Removed')
  BY DEF OthersStep, proxy
<1>2. AnswerIsOwn'
  BY <1>1 DEF OwnInv, AnswerIsOwn
<1>3. ASSUME NEW h \in Handlers PROVE Own(h)'
  BY <1>1 DEF OwnInv, Own
<1>. QED  BY <1>2, <1>3 DEF OwnInv

\* What is true of the path after the step.
TrulyThen(h, r) ==
    IF r.found THEN r.len = Size[want'[h]] /\ InSegment(h)'
    ELSE want'[h] \notin Range(list') \/ errors' > 0

LEMMA TrulyStays ==
    ASSUME OthersStep, NEW h \in Handlers, InSegment(h) => InSegment(h)'
    PROVE  \A r : Truly(h, r) => TrulyThen(h, r)
<1>1. want' = want /\ list' = list /\ (errors > 0 => errors' > 0)
  BY DEF OthersStep, proxy
<1>. QED  BY <1>1 DEF Truly, TrulyThen

LEMMA LessKeepsOwn ==
    ASSUME OwnInv, OthersStep, LessAbout
    PROVE  OwnInv'
<1>1. ASSUME NEW h \in Handlers, InSegment(h) PROVE InSegment(h)'
  <2>1. want' = want
    BY DEF OthersStep, proxy
  <2>. QED  BY <1>1, <2>1 DEF InSegment, LessAbout
<1>2. ASSUME NEW h \in Handlers, OnItsWay(h) PROVE OnItsWay(h)'
  <2>1. want' = want
    BY DEF OthersStep, proxy
  <2>2. DOMAIN << >> = {}
    OBVIOUS
  <2>3. \A i \in DOMAIN Held("req")' : i \in DOMAIN Held("req") /\ Held("req")'[i] = Held("req")[i]
    BY <2>2 DEF LessAbout
  <2>4. \A i \in DOMAIN Held("resp")' : i \in DOMAIN Held("resp") /\ Held("resp")'[i] = Held("resp")[i]
    BY <2>2 DEF LessAbout
  <2>5. \A i \in DOMAIN Held("req")' : Held("req")'[i] = want'[h]
    BY <1>2, <2>1, <2>3 DEF OnItsWay
  <2>6. \A w \in Workers : job'[w] # None => job'[w] = want'[h]
    BY <1>2, <2>1 DEF OnItsWay, LessAbout
  <2>7. \A i \in DOMAIN Held("resp")' : TrulyThen(h, Held("resp")'[i])
    <3>1. \A i \in DOMAIN Held("resp") : Truly(h, Held("resp")[i])
      BY <1>2 DEF OnItsWay
    <3>. QED  BY <1>1, <2>4, <3>1, TrulyStays
  <2>. QED  BY <2>5, <2>6, <2>7 DEF OnItsWay, Truly, TrulyThen
<1>. QED  BY <1>1, <1>2, OwnStays

LEMMA AnswerHas ==
    ASSUME NEW kind, NEW n, NEW f
    PROVE  /\ Answer(kind, n, f).kind = kind
           /\ Answer(kind, n, f).len = n /\ Answer(kind, n, f).file = f
  BY DEF Answer

LEMMA OwnOfProxy ==
    ASSUME Alone, IInv, OwnInv, ProxyMoves
    PROVE  OwnInv'
<1>0. /\ KernelTypes /\ ProxyTypes /\ HandlersPlaced /\ Given /\ AnswerIsOwn
      /\ UNCHANGED <<list, errors, job>> /\ left \in Nat /\ (Removed => Removed')
  <2>1. UNCHANGED cache
    BY NextIs
  <2>2. ProxyInv
    BY DEF IInv, Types, ProxyInv
  <2>3. KernelTypes' /\ KeysMove
    BY <2>2, ProxyKeeps DEF ProxyInv
  <2>4. Removed => Removed'
    BY <2>2, <2>3, RemovedStays DEF ProxyInv
  <2>. QED  BY <2>1, <2>4 DEF IInv, Types, ProxyTypes, OwnInv, cache, cacheMain
<1>1. ASSUME \A h \in Handlers : hpc[h] = "idle", UNCHANGED <<hpc, want, answer, left>>
      PROVE  OwnInv'
  BY <1>0, <1>1 DEF OwnInv, AnswerIsOwn, Own, Awaiting
<1>2. CASE ProxyStart \/ ProxyQueue
  <2>1. ppc # "up" /\ UNCHANGED <<hpc, want, answer, left>>
    BY <1>2 DEF ProxyStart, ProxyQueue
  <2>. QED  BY <1>0, <1>1, <2>1 DEF HandlersPlaced
<1>3. CASE ProxySignal
  <2>1. \A h \in Handlers : hpc'[h] = "idle" /\ answer'[h].kind = "none"
    BY <1>3 DEF ProxySignal, NoAnswer, Answer
  <2>. QED  BY <2>1 DEF OwnInv, AnswerIsOwn, Own, Awaiting
<1>4. ASSUME NEW h \in Handlers, Accept(h) \/ HandlerStep(h) PROVE OwnInv'
  <2>0. Own(h) /\ \A g \in Handlers : g = h
    BY DEF OwnInv, Alone
  <2>1. CASE Accept(h) \/ GetQueue(h) \/ KeepRequests(h)
    <3>1. hpc'[h] \in {"get", "keepReq", "send"}
      BY <1>0, <2>1 DEF Accept, GetQueue, KeepRequests, Go, ProxyTypes
    <3>. QED  BY <2>0, <3>1 DEF OwnInv, AnswerIsOwn, Own, Awaiting
  <2>2. CASE SendRequest(h)
    <3>1. /\ hpc[h] = "send" /\ hpc'[h] = "find" /\ want' = want /\ left' = left
      BY <1>0, <2>2 DEF SendRequest, Go, Same, ProxyTypes
    <3>2. want[h] \in Keys
      BY <1>0, <3>1 DEF HandlersPlaced
    <3>3. Held("req")' = Append(Held("req"), want[h]) /\ Held("resp")' = Held("resp")
      BY <1>0, <2>2, <3>2, RequestMoves
    <3>4. ASSUME left = 0 PROVE OnItsWay(h)'
      <4>1. Held("req") = << >> /\ Held("resp") = << >> /\ \A w \in Workers : job[w] = None
        BY <2>0, <3>1, <3>4, NothingAbout DEF Awaiting
      <4>2. /\ DOMAIN << >> = {} /\ DOMAIN Append(<< >>, want[h]) = {1}
            /\ Append(<< >>, want[h])[1] = want[h]
        OBVIOUS
      <4>3. \A i \in DOMAIN Held("req")' : Held("req")'[i] = want'[h]
        BY <3>1, <3>3, <4>1, <4>2
      <4>4. DOMAIN Held("resp")' = {}
        BY <3>3, <4>1, <4>2
      <4>. QED  BY <1>0, <4>1, <4>3, <4>4 DEF OnItsWay
    <3>. QED  BY <2>0, <3>1, <3>4 DEF OwnInv, AnswerIsOwn, Own
  <2>3. CASE QueueGone(h)
    <3>1. /\ hpc'[h] = "idle" /\ answer'[h] = Answer("not found", 0, None)
          /\ left' = (IF hpc[h] = "wait" THEN left + 1 ELSE left)
          /\ hpc[h] = "wait" \/ (hpc[h] = "send" /\ ~Lives(msqidP))
      BY <1>0, <2>3 DEF QueueGone, Answered, Go, ProxyTypes
    <3>2. answer'[h].kind = "not found"
      <4>. DEFINE a == Answer("not found", 0, None)
      <4>1. a.kind = "not found"
        BY DEF Answer
      <4>2. answer'[h] = a
        BY <3>1
      <4>. HIDE DEF a
      <4>. QED  BY <4>1, <4>2
    <3>3. left' = 0 => Removed'
      <4>1. CASE hpc[h] = "wait"
        <5>1. left' = left + 1 /\ left \in Nat
          BY <1>0, <3>1, <4>1
        <5>. QED  BY <5>1
      <4>2. CASE hpc[h] = "send" /\ ~Lives(msqidP)
        <5>1. msqidP \in 0..made - 1
          BY <1>0, <4>2 DEF Given
        <5>. QED  BY <1>0, <4>2, <5>1 DEF Removed
      <4>. QED  BY <3>1, <4>1, <4>2
    <3>. QED  BY <2>0, <3>1, <3>2, <3>3 DEF OwnInv, AnswerIsOwn, Own, Awaiting
  <2>4. CASE FindQueue(h) \/ KeepReplies(h) \/ CallReceive(h)
    <3>1. /\ hpc[h] \in Awaiting /\ hpc'[h] \in Awaiting
          /\ UNCHANGED <<want, left, key, queue, made, segment, shm>>
      BY <1>0, <2>4 DEF FindQueue, KeepReplies, CallReceive, Go, Same, ProxyTypes, kernel, Awaiting
    <3>2. \A k \in {"req", "resp"} : Held(k)' = Held(k)
      BY <3>1 DEF Held
    <3>3. OnItsWay(h) => OnItsWay(h)'
      BY <1>0, <3>1, <3>2 DEF OnItsWay, Truly, InSegment
    <3>4. hpc'[h] # "idle" /\ hpc'[h] # "stream"
      BY <3>1 DEF Awaiting
    <3>. QED  BY <2>0, <3>1, <3>3, <3>4 DEF OwnInv, AnswerIsOwn, Own
  <2>5. CASE Receive(h)
    <3>. DEFINE r == Head(Held("resp"))
    <3>1. Held("resp") # << >> /\ Head(queue[on[h]]) = r
      BY <1>0, <2>5, ReplyMoves
    <3>2. r = Held("resp")[1] /\ 1 \in DOMAIN Held("resp")
      BY <1>0, <3>1, HeadTail DEF KernelTypes
    <3>3. /\ hpc[h] = "wait" /\ UNCHANGED <<want, left, segment, shm>>
          /\ r.found => /\ hpc' = [hpc EXCEPT ![h] = "stream"]
                        /\ answer' = [answer EXCEPT ![h] = Answer("header", r.len, None)]
          /\ ~r.found => /\ hpc' = [hpc EXCEPT ![h] = "idle"]
                         /\ answer' = [answer EXCEPT ![h] = Answer("not found", 0, None)]
      BY <2>5, <3>1 DEF Receive, Dequeue, Answered, Go
    <3>4. left = 0 => Truly(h, r)
      BY <2>0, <3>2, <3>3 DEF Own, OnItsWay, Awaiting
    <3>. HIDE DEF r
    <3>5. CASE r.found
      <4>1. hpc'[h] = "stream" /\ answer'[h].kind = "header" /\ answer'[h].len = r.len
        BY <1>0, <3>3, <3>5 DEF Answer, ProxyTypes
      <4>2. left = 0 => r.len = Size[want'[h]] /\ InSegment(h)'
        BY <3>3, <3>4, <3>5 DEF Truly, InSegment
      <4>. QED  BY ZenonT(60), <2>0, <3>3, <4>1, <4>2 DEF OwnInv, AnswerIsOwn, Own, Awaiting
    <3>6. CASE ~r.found
      <4>1. hpc'[h] = "idle" /\ answer'[h].kind = "not found"
        <5>1. hpc'[h] = "idle" /\ answer'[h] = Answer("not found", 0, None)
          BY <1>0, <3>3, <3>6 DEF ProxyTypes
        <5>. DEFINE a == Answer("not found", 0, None)
        <5>2. a.kind = "not found"
          BY DEF Answer
        <5>. HIDE DEF a
        <5>3. answer'[h] = a
          BY <5>1 DEF a
        <5>. QED  BY <5>1, <5>2, <5>3
      <4>2. left = 0 => want'[h] \notin Range(list') \/ errors' > 0
        BY <1>0, <3>3, <3>4, <3>6 DEF Truly
      <4>. QED  BY <2>0, <3>3, <4>1, <4>2 DEF OwnInv, AnswerIsOwn, Own, Awaiting
    <3>. QED  BY <3>5, <3>6
  <2>6. CASE Stream(h)
    <3>. DEFINE n == answer[h].len
    <3>1. /\ hpc[h] = "stream" /\ hpc' = [hpc EXCEPT ![h] = "idle"] /\ UNCHANGED <<want, left>>
          /\ n = 0 => answer' = [answer EXCEPT ![h] = Answer("OK", 0, None)]
          /\ n # 0 /\ segment < n => answer' = [answer EXCEPT ![h] = Answer("cut short", n, None)]
          /\ n # 0 /\ ~(segment < n) => answer' = [answer EXCEPT ![h] = Answer("OK", n, shm)]
      BY <2>6 DEF Stream, Answered, Go
    <3>2. hpc'[h] = "idle" /\ n \in Nat
      BY <1>0, <3>1 DEF ProxyTypes, Answers
    <3>3. left = 0 => n = Size[want[h]] /\ InSegment(h)
      BY <2>0, <3>1 DEF Own
    <3>. HIDE DEF n
    <3>4. CASE n = 0
      <4>1. answer'[h].kind = "OK" /\ answer'[h].len = 0 /\ answer'[h].file = None
        BY <1>0, <3>1, <3>4 DEF Answer, ProxyTypes
      <4>. QED  BY <2>0, <3>1, <3>2, <3>3, <3>4, <4>1 DEF OwnInv, AnswerIsOwn, Own, Awaiting
    <3>5. CASE n # 0 /\ segment < n
      <4>0. answer'[h] = Answer("cut short", n, None)
        BY <1>0, <3>1, <3>5 DEF ProxyTypes
      <4>1. answer'[h].kind = "cut short"
        <5>. DEFINE a == Answer("cut short", n, None)
        <5>1. a.kind = "cut short"
          BY DEF Answer
        <5>2. answer'[h] = a
          BY <4>0
        <5>. HIDE DEF a
        <5>. QED  BY <5>1, <5>2
      <4>. QED  BY <2>0, <3>2, <4>1 DEF OwnInv, AnswerIsOwn, Own, Awaiting
    <3>6. CASE n # 0 /\ ~(segment < n)
      <4>0. answer'[h] = Answer("OK", n, shm)
        BY <1>0, <3>1, <3>6 DEF ProxyTypes
      <4>1. answer'[h].kind = "OK" /\ answer'[h].len = n /\ answer'[h].file = shm
        BY <4>0, AnswerHas
      <4>2. n > 0 /\ segment # -1
        BY <3>2, <3>6
      <4>3. left = 0 => shm = want[h]
        BY <3>3, <4>2 DEF InSegment
      <4>. QED  BY <2>0, <3>1, <3>2, <3>3, <3>6, <4>1, <4>3 DEF OwnInv, AnswerIsOwn, Own, Awaiting
    <3>. QED  BY <3>4, <3>5, <3>6
  <2>. QED  BY <1>4, <2>1, <2>2, <2>3, <2>4, <2>5, <2>6 DEF HandlerStep
<1>. QED  BY <1>2, <1>3, <1>4 DEF ProxyMoves

LEMMA OwnOfCache ==
    ASSUME IInv, OwnInv, CacheMoves
    PROVE  OwnInv'
<1>0. KernelTypes /\ CacheTypes /\ UNCHANGED proxy
  BY NextIs DEF IInv, Types
<1>1. OthersStep
  <2>1. list' = list
    BY DEF CacheMoves, CacheStart, CacheSignal, CacheLoadFails, CacheStep, CacheLoad, CacheSort,
           CacheFind, CacheCreate, RemoveQueue, Unlink, Ends, cacheMain
  <2>2. errors' = errors \/ errors' = errors + 1
    BY DEF CacheMoves, CacheStart, CacheSignal, CacheLoadFails, CacheStep, CacheLoad, CacheSort,
           CacheFind, CacheCreate, RemoveQueue, Unlink
  <2>3. CacheInv
    BY DEF IInv, Types, CacheInv
  <2>4. KernelTypes' /\ KeysMove
    BY <2>3, CacheKeeps DEF CacheInv
  <2>5. Removed => Removed'
    BY <1>0, <2>4, RemovedStays
  <2>. QED  BY <1>0, <2>1, <2>2, <2>5 DEF OthersStep, CacheTypes
<1>2. CASE CacheLoadFails \/ Unlink
  <2>1. LessAbout
    BY <1>2 DEF CacheLoadFails, Unlink, Ends, kernel, Held, LessAbout
  <2>. QED  BY <1>1, <2>1, LessKeepsOwn
<1>3. CASE CacheStart \/ CacheLoad \/ CacheSort \/ CacheFind \/ CacheSignal
  <2>1. LessAbout
    BY <1>3 DEF CacheStart, CacheLoad, CacheSort, CacheFind, CacheSignal, kernel, Held, LessAbout
  <2>. QED  BY <1>1, <2>1, LessKeepsOwn
<1>4. CASE CacheCreate
  <2>1. \A k \in {"req", "resp"} : Held(k)' = Held(k)
    BY <1>0, <1>4, MsgGetDoes DEF CacheCreate
  <2>2. LessAbout
    BY <1>4, <2>1 DEF CacheCreate, MsgGet, LessAbout
  <2>. QED  BY <1>1, <2>2, LessKeepsOwn
<1>5. ASSUME NEW id \in {msqid, msqidC}, MsgRemove(id), job' = job PROVE OwnInv'
  <2>1. \A k \in {"req", "resp"} : Held(k)' = Held(k) \/ Held(k)' = << >>
    BY <1>0, <1>5, MsgRemoveDoes DEF CacheTypes
  <2>2. LessAbout
    BY <1>5, <2>1 DEF MsgRemove, LessAbout
  <2>. QED  BY <1>1, <2>2, LessKeepsOwn
<1>6. CASE RemoveQueue("rmReq", msqid, "rmResp") \/ RemoveQueue("rmResp", msqidC, "unlink")
  BY <1>5, <1>6 DEF RemoveQueue
<1>. QED  BY <1>2, <1>3, <1>4, <1>6 DEF CacheMoves, CacheStep

LEMMA OwnOfWorker ==
    ASSUME Alone, IInv, OwnInv, NEW w \in Workers, StatFails(w) \/ ReadFails(w) \/ WorkerStep(w)
    PROVE  OwnInv'
<1>0. /\ KernelTypes /\ CacheTypes /\ WorkersPlaced /\ Given /\ Loaded /\ Brought
      /\ UNCHANGED proxy
  BY NextIs DEF IInv, Types, WorkerMoves
<1>1. OthersStep
  <2>1. list' = list
    <3>1. (\E how : Ends(how)) \/ UNCHANGED cacheMain
      BY <1>0, OfWorker
    <3>. QED  BY <3>1 DEF Ends, cacheMain
  <2>2. errors' = errors \/ errors' = errors + 1
    BY DEF StatFails, ReadFails, WorkerStep, WaitTurn, ReceiveRequest, SearchOn, SearchEnds,
           SendReply, WorkerExits, RemoveReplies, LockSegment, MapSegment, MapNothing, CopyFile,
           CopyNothing, Killed, Calm
  <2>3. CacheInv /\ IndexTypes
    BY DEF IInv, Types, CacheInv
  <2>4. KernelTypes' /\ KeysMove
    BY <2>3, WorkerKeeps DEF CacheInv
  <2>5. Removed => Removed'
    BY <1>0, <2>4, RemovedStays
  <2>. QED  BY <1>0, <2>1, <2>2, <2>5 DEF OthersStep, CacheTypes
<1>2. /\ want' = want
      /\ \A h \in Handlers : left = 0 /\ hpc[h] = "stream" => \A v \in Workers : job[v] = None
  <2>1. ASSUME NEW h \in Handlers, left = 0, hpc[h] = "stream" PROVE \A v \in Workers : job[v] = None
    <3>1. \A g \in Handlers : hpc[g] \notin Awaiting
      BY <2>1 DEF Alone, Awaiting
    <3>. QED  BY <2>1, <3>1, NothingAbout
  <2>. QED  BY <1>0, <2>1 DEF proxy
<1>3. CASE WorkerExits(w) \/ Killed(w)
  <2>1. LessAbout
    BY <1>3 DEF WorkerExits, Killed, Ends, kernel, Held, LessAbout
  <2>. QED  BY <1>1, <2>1, LessKeepsOwn
<1>4. CASE StatFails(w) \/ WaitTurn(w) \/ SearchOn(w) \/ SearchEnds(w) \/ LockSegment(w)
           \/ MapNothing(w) \/ CopyNothing(w)
  <2>1. LessAbout
    BY <1>4 DEF StatFails, WaitTurn, SearchOn, SearchEnds, LockSegment, MapNothing, CopyNothing,
                kernel, Held, LessAbout
  <2>. QED  BY <1>1, <2>1, LessKeepsOwn
<1>5. CASE ReadFails(w)
  <2>1. LessAbout
    BY <1>0, <1>5 DEF ReadFails, CacheTypes, kernel, Held, LessAbout
  <2>. QED  BY <1>1, <2>1, LessKeepsOwn
<1>6. CASE RemoveReplies(w)
  <2>1. MsgRemove(msqidC) /\ job' = job
    BY <1>6 DEF RemoveReplies
  <2>2. \A k \in {"req", "resp"} : Held(k)' = Held(k) \/ Held(k)' = << >>
    BY <1>0, <2>1, MsgRemoveDoes DEF CacheTypes
  <2>3. LessAbout
    BY <2>1, <2>2 DEF MsgRemove, LessAbout
  <2>. QED  BY <1>1, <2>3, LessKeepsOwn
<1>7. CASE ReceiveRequest(w)
  <2>. DEFINE k == Head(Held("req"))
  <2>1. /\ Held("req") # << >> /\ Head(queue[msqid]) = k
        /\ Held("req")' = Tail(Held("req")) /\ Held("resp")' = Held("resp")
    BY <1>0, <1>7, RequestMoves
  <2>2. Held("req") \in Seq(Keys)
    BY <1>0 DEF KernelTypes
  <2>3. /\ k = Held("req")[1] /\ 1 \in DOMAIN Held("req")
        /\ \A i \in DOMAIN Tail(Held("req")) :
              i + 1 \in DOMAIN Held("req") /\ Tail(Held("req"))[i] = Held("req")[i + 1]
    BY <2>1, <2>2, HeadTail
  <2>4. job' = [job EXCEPT ![w] = k] /\ UNCHANGED <<segment, shm>>
    BY <1>7, <2>1 DEF ReceiveRequest, Dequeue
  <2>. HIDE DEF k
  <2>5. ASSUME NEW h \in Handlers, OnItsWay(h) PROVE OnItsWay(h)'
    <3>1. \A i \in DOMAIN Held("req")' : Held("req")'[i] = want'[h]
      BY <1>2, <2>1, <2>3, <2>5 DEF OnItsWay
    <3>2. k = want[h]
      BY <2>3, <2>5 DEF OnItsWay
    <3>3. \A v \in Workers : job'[v] # None => job'[v] = want'[h]
      BY <1>0, <1>2, <2>4, <2>5, <3>2 DEF OnItsWay, CacheTypes
    <3>4. InSegment(h) => InSegment(h)'
      BY <1>2, <2>4 DEF InSegment
    <3>5. \A i \in DOMAIN Held("resp")' : TrulyThen(h, Held("resp")'[i])
      BY <1>1, <2>1, <2>5, <3>4, TrulyStays DEF OnItsWay
    <3>. QED  BY <3>1, <3>3, <3>5 DEF OnItsWay, Truly, TrulyThen
  <2>6. \A h \in Handlers : InSegment(h) => InSegment(h)'
    BY <1>2, <2>4 DEF InSegment
  <2>. QED  BY <1>1, <2>5, <2>6, OwnStays
<1>8. CASE SendReply(w)
  <2>1. /\ wpc[w] \in {"notFound", "statFailed", "reply"} /\ job' = [job EXCEPT ![w] = None]
        /\ UNCHANGED <<segment, shm>>
    BY <1>8 DEF SendReply, Enqueue
  <2>2. job[w] \in Keys /\ job[w] # None
    BY <1>0, <2>1 DEF WorkersPlaced, CacheTypes, Serving
  <2>. DEFINE r == ReplyOf(w)
  <2>3. /\ Held("resp")' = Append(Held("resp"), r) /\ r \in Reply
        /\ Held("req")' = Held("req")
    BY <1>0, <1>8, <2>2, ReplyMoves
  <2>. HIDE DEF r
  <2>4. Held("resp") \in Seq(Reply)
    BY <1>0 DEF KernelTypes
  <2>5. \A i \in DOMAIN Held("resp")' : \/ i \in DOMAIN Held("resp") /\ Held("resp")'[i] = Held("resp")[i]
                                        \/ Held("resp")'[i] = r
    BY <2>3, <2>4, Appended
  <2>6. \A h \in Handlers : InSegment(h) => InSegment(h)'
    BY <1>2, <2>1 DEF InSegment
  <2>7. ASSUME NEW h \in Handlers, OnItsWay(h) PROVE OnItsWay(h)'
    <3>1. job[w] = want[h]
      BY <2>2, <2>7 DEF OnItsWay
    <3>2. Truly(h, r)
      <4>1. CASE wpc[w] = "reply"
        <5>1. r.found /\ r.len = Size[want[h]]
          BY <3>1, <4>1 DEF r, ReplyOf, Found
        <5>2. InSegment(h)
          BY <1>0, <3>1, <4>1 DEF Brought, InSegment
        <5>. QED  BY <5>1, <5>2 DEF Truly
      <4>2. CASE wpc[w] # "reply"
        <5>1. ~r.found
          BY <4>2 DEF r, ReplyOf, NotFound
        <5>2. want[h] \notin Range(list) \/ errors > 0
          BY <1>0, <2>1, <3>1, <4>2 DEF Loaded, Brought
        <5>. QED  BY <5>1, <5>2 DEF Truly
      <4>. QED  BY <4>1, <4>2
    <3>3. \A i \in DOMAIN Held("req")' : Held("req")'[i] = want'[h]
      BY <1>2, <2>3, <2>7 DEF OnItsWay
    <3>4. \A v \in Workers : job'[v] # None => job'[v] = want'[h]
      BY <1>0, <1>2, <2>1, <2>7 DEF OnItsWay, CacheTypes
    <3>5. \A i \in DOMAIN Held("resp") : Truly(h, Held("resp")[i])
      BY <2>7 DEF OnItsWay
    <3>6. \A x : Truly(h, x) => TrulyThen(h, x)
      BY <1>1, <2>6, TrulyStays
    <3>7. \A i \in DOMAIN Held("resp")' : TrulyThen(h, Held("resp")'[i])
      BY <2>5, <3>2, <3>5, <3>6
    <3>. QED  BY <3>3, <3>4, <3>7 DEF OnItsWay, Truly, TrulyThen
  <2>. QED  BY <1>1, <2>6, <2>7, OwnStays
<1>9. CASE MapSegment(w) \/ CopyFile(w)
  <2>1. /\ wpc[w] \in {"map", "copy"} /\ UNCHANGED <<key, queue, job>> /\ segment # -1
        /\ shm' = shm \/ shm' = job[w]
    <3>1. CASE MapSegment(w)
      BY <3>1 DEF MapSegment
    <3>2. CASE CopyFile(w)
      <4>1. job[w] \in Keys /\ segment >= Size[job[w]]
        BY <1>0, <3>2 DEF CopyFile, WorkersPlaced, CacheTypes, Serving
      <4>2. Size[job[w]] \in Nat
        BY <4>1, LifecycleAssumption
      <4>3. segment # -1
        BY <4>1, <4>2
      <4>. QED  BY <3>2, <4>3 DEF CopyFile
    <3>. QED  BY <1>9, <3>1, <3>2
  <2>2. job[w] # None
    BY <1>0, <2>1 DEF WorkersPlaced, Serving
  <2>3. \A k \in {"req", "resp"} : Held(k)' = Held(k)
    BY <2>1 DEF Held
  <2>4. ASSUME NEW h \in Handlers, OnItsWay(h) PROVE OnItsWay(h)'
    <3>1. job[w] = want[h]
      BY <2>2, <2>4 DEF OnItsWay
    <3>2. InSegment(h) => InSegment(h)'
      BY <1>2, <2>1, <3>1 DEF InSegment
    <3>3. \A x : Truly(h, x) => TrulyThen(h, x)
      BY <1>1, <3>2, TrulyStays
    <3>. QED  BY <1>2, <2>1, <2>3, <2>4, <3>3 DEF OnItsWay, Truly, TrulyThen
  <2>. QED  BY <1>1, <1>2, <2>2, <2>4, OwnStays
<1>. QED  BY <1>3, <1>4, <1>5, <1>6, <1>7, <1>8, <1>9 DEF WorkerStep

LEMMA OwnNext ==
    ASSUME Alone
    PROVE  IInv /\ OwnInv /\ [Next]_vars => OwnInv'
<1>1. CASE IInv /\ OwnInv /\ Next
  BY <1>1, NextIs, OwnOfProxy, OwnOfCache, OwnOfWorker DEF WorkerMoves
<1>2. CASE IInv /\ OwnInv /\ UNCHANGED vars
  <2>1. UNCHANGED <<proxy, list>> /\ UNCHANGED <<key, queue, job, segment, shm, errors>>
    BY <1>2 DEF vars, kernel, cache, cacheMain
  <2>2. errors \in Nat /\ errors' = errors
    BY <1>2, <2>1 DEF IInv, Types, CacheTypes
  <2>3. OthersStep
    <3>1. made' = made
      BY <1>2 DEF vars, kernel
    <3>. QED  BY <2>1, <2>2, <3>1 DEF OthersStep, Removed, Lives
  <2>4. LessAbout
    BY <2>1 DEF LessAbout, Held
  <2>. QED  BY <1>2, <2>3, <2>4, LessKeepsOwn
<1>. QED  BY <1>1, <1>2

\* With a proxy of one thread, a client that is told OK gets its own file whole,
\* and one told "not found" asked for a path that is not on the list, or a queue
\* was removed, or fstat failed: whatever was stopped, killed and started again,
\* as long as no handler left without the reply it waited for.
THEOREM AnswersAreOwn ==
    ASSUME Alone
    PROVE  Spec => []AnswerIsOwn
<1>1. Init => OwnInv
  <2>. SUFFICES ASSUME Init PROVE OwnInv
    OBVIOUS
  <2>1. \A h \in Handlers : hpc[h] = "idle" /\ answer[h] = NoAnswer
    BY DEF Init
  <2>2. NoAnswer.kind = "none"
    BY DEF NoAnswer, Answer
  <2>. QED  BY <2>1, <2>2 DEF OwnInv, AnswerIsOwn, Own, Awaiting
<1>2. IInv /\ OwnInv /\ [Next]_vars => OwnInv'
  BY OwnNext
<1>3. OwnInv => AnswerIsOwn
  BY DEF OwnInv
<1>. QED  BY <1>1, <1>2, <1>3, Invariance, PTL DEF Spec
=============================================================================
