--------------------------- MODULE ProxyCacheProofs ---------------------------
(***************************************************************************)
(* What holds of ProxyCache for every number of handlers, workers, paths   *)
(* and blocks.                                                             *)
(***************************************************************************)
EXTENDS ProxyCache, FiniteSetTheorems, TLAPS

(***************************************************************************)
(* What the helpers return.                                                *)
(***************************************************************************)
Cell == Paths \cup {None}

\* The remainder of the cast at simplecached.c:165 is a number of that span.
LEMMA ModBounds ==
    ASSUME NEW a \in Int, NEW m \in Nat \ {0}
    PROVE  a % m \in 0 .. (m - 1)
  OBVIOUS

\* The cast at simplecached.c:165 gives an int, and the same number whenever
\* it fits.
LEMMA CastType ==
    ASSUME NEW n \in Nat, IntMax \in Nat
    PROVE  /\ AsInt(n) \in (-(IntMax + 1)) .. IntMax
           /\ n <= IntMax => AsInt(n) = n
<1>1. IntSpan \in Nat \ {0}  BY DEF IntSpan
<1>2. (n + IntMax + 1) % IntSpan \in 0 .. (IntSpan - 1)  BY <1>1, ModBounds
<1>. QED  BY <1>1, <1>2 DEF AsInt, IntSpan

\* An int converted to size_t is a natural number, and the same one if it was.
LEMMA SizeTType ==
    ASSUME IntMax \in Nat, NEW n \in (-(IntMax + 1)) .. IntMax
    PROVE  /\ AsSizeT(n) \in Nat
           /\ n >= 0 => AsSizeT(n) = n
<1>1. SizeTSpan \in Nat /\ SizeTSpan >= IntMax + 1
  <2>1. IntSpan \in Nat /\ IntSpan >= 1 /\ IntSpan >= IntMax + 1  BY DEF IntSpan
  <2>2. ASSUME NEW k \in Nat, k >= 1 PROVE k * k \in Nat /\ k * k >= k  BY <2>2
  <2>. QED  BY <2>1, <2>2 DEF SizeTSpan
<1>. QED  BY <1>1 DEF AsSizeT

\* ftruncate leaves a segment of the length asked for.
LEMMA TruncateType ==
    ASSUME NEW seg \in Seq(Cell), NEW n \in Nat
    PROVE  Truncate(seg, n) \in Seq(Cell) /\ Len(Truncate(seg, n)) = n
  BY DEF Truncate, Cell

\* A copied chunk changes cells, never the length.
LEMMA FilledType ==
    ASSUME NEW seg \in Seq(Cell), NEW f \in Paths, NEW off \in Nat,
           Chunk \in Nat, Size[f] \in Nat
    PROVE  /\ Filled(seg, f, off) \in Seq(Cell)
           /\ Len(Filled(seg, f, off)) = Len(seg)
  BY DEF Filled, Cell

\* One pread moves the offset forward, by at most BUFSIZE and not past the end.
LEMMA ChunkEndType ==
    ASSUME NEW off \in Nat, NEW len \in Nat, Chunk \in Nat \ {0}
    PROVE  /\ ChunkEnd(off, len) \in Nat
           /\ ChunkEnd(off, len) <= len
           /\ ChunkEnd(off, len) <= off + Chunk
           /\ off < len => off < ChunkEnd(off, len)
  BY DEF ChunkEnd

\* What a handler has sent grows by the cells of the segment at its offset.
LEMMA ExtendedType ==
    ASSUME NEW sent \in Seq(Cell), NEW seg \in Seq(Cell), Chunk \in Nat \ {0}
    PROVE  /\ Extended(sent, seg) \in Seq(Cell)
           /\ Len(Extended(sent, seg)) = ChunkEnd(Len(sent), Len(seg))
           /\ \A i \in 1..Len(Extended(sent, seg)) :
                 Extended(sent, seg)[i] = IF i <= Len(sent) THEN sent[i] ELSE seg[i]
<1> DEFINE n == ChunkEnd(Len(sent), Len(seg))
<1>1. Len(sent) \in Nat /\ Len(seg) \in Nat  OBVIOUS
<1>2. n \in Nat /\ n <= Len(seg)  BY <1>1, ChunkEndType
<1> DEFINE g == [i \in 1..n |-> IF i <= Len(sent) THEN sent[i] ELSE seg[i]]
<1>3. \A i \in 1..n : (IF i <= Len(sent) THEN sent[i] ELSE seg[i]) \in Cell
  BY <1>1, <1>2
<1>4. Extended(sent, seg) = g  BY DEF Extended
<1> HIDE DEF n
<1>5. g \in [1..n -> Cell]  BY <1>3
<1>6. g \in Seq(Cell) /\ Len(g) = n  BY <1>2, <1>5
<1>7. \A i \in 1..n : g[i] = IF i <= Len(sent) THEN sent[i] ELSE seg[i]  OBVIOUS
<1> HIDE DEF g
<1>8. /\ g \in Seq(Cell)
      /\ Len(g) = n
      /\ \A i \in 1..Len(g) : g[i] = IF i <= Len(sent) THEN sent[i] ELSE seg[i]
  BY <1>6, <1>7
<1>. QED  BY <1>4, <1>8 DEF n

(***************************************************************************)
(* The inductive invariant: types, which thread has a request in hand, and *)
(* what the two semaphores say of where the workers are.                   *)
(***************************************************************************)
HasJob(w) == wpc[w] \in {"unlockCmd", "sendNotFound", "lockResp", "map", "copy"}
HasFile(w) == wpc[w] \in {"lockResp", "map", "copy"}
InCommand(w) == wpc[w] \in {"recv", "unlockCmd"}

Assigned ==
    /\ \A p \in Proxies : pc[p] = "idle" <=> want[p] = None
    /\ \A w \in Workers : HasJob(w) <=> job[w] # None
    /\ \A w \in Workers : HasFile(w) => job[w] \in Cached
    /\ \A w \in Workers : wpc[w] = "sendNotFound" => job[w] \notin Cached

CommandLock ==
    /\ \A w \in Workers : InCommand(w) => cmdSem = 0
    /\ \A v, w \in Workers : InCommand(v) /\ InCommand(w) => v = w

SegmentLock ==
    /\ \A w \in Workers : InSegment(w) => respSem = 0
    /\ \A v, w \in Workers : InSegment(v) /\ InSegment(w) => v = w

IInv == TypeOK /\ Assigned /\ CommandLock /\ SegmentLock

LEMMA InitIInv == Init => IInv
<1> SUFFICES ASSUME Init PROVE IInv  OBVIOUS
<1> USE ConstantsAssumption DEF Init
<1>1. TypeOK  BY DEF TypeOK, ProxyPC, WorkerPC
<1>2. Assigned  BY DEF Assigned, HasJob, HasFile
<1>3. CommandLock /\ SegmentLock  BY DEF CommandLock, SegmentLock, InCommand, InSegment
<1>. QED  BY <1>1, <1>2, <1>3 DEF IInv

\* A file a worker has in hand has a size.
LEMMA FileSize ==
    ASSUME IInv, NEW w \in Workers, HasFile(w)
    PROVE  job[w] \in Cached /\ job[w] \in Paths /\ Size[job[w]] \in Nat
  BY ConstantsAssumption DEF IInv, Assigned

LEMMA TypeStep == IInv /\ [Next]_vars => TypeOK'
<1> SUFFICES ASSUME IInv, [Next]_vars PROVE TypeOK'  OBVIOUS
<1> USE ConstantsAssumption
<1>t. TypeOK  BY DEF IInv
<1> USE DEF TypeOK, ProxyPC, WorkerPC
<1>1. ASSUME NEW p \in Proxies, Accept(p) PROVE TypeOK'
  BY <1>t, <1>1 DEF Accept, server, reply
<1>2. ASSUME NEW p \in Proxies, SendRequest(p) PROVE TypeOK'
  BY <1>t, <1>2 DEF SendRequest, server, reply, HasRoom, IInv, Assigned
<1>3. ASSUME NEW p \in Proxies, ReceiveNotFound(p) PROVE TypeOK'
  BY <1>t, <1>3 DEF ReceiveNotFound, server, Received
<1>4. ASSUME NEW p \in Proxies, ReceiveLength(p) PROVE TypeOK'
  <2>1. Head(respQ) \in Message /\ Tail(respQ) \in Seq(Message) /\ Len(Tail(respQ)) <= QueueCap
    BY <1>t, <1>4 DEF ReceiveLength
  <2>2. AsSizeT(Head(respQ).len) \in Nat
    BY <2>1, SizeTType DEF Message
  <2>3. hlen' \in [Proxies -> Nat]
    BY <1>t, <1>4, <2>2 DEF ReceiveLength
  <2>4. /\ pc' \in [Proxies -> ProxyPC]
        /\ ret' \in [Proxies -> {"none", "ok", "fail"}]
        /\ proxyFds' \in Nat
    <3>1. CASE proxyFds < FdLimit
      <4>1. /\ proxyFds' = proxyFds + 1
            /\ pc' = [pc EXCEPT ![p] = "stream"]
            /\ ret' = ret
        <5>1. proxyFds \in Nat /\ FdLimit \in Nat /\ ~(proxyFds >= FdLimit)  BY <1>t, <3>1
        <5>. QED  BY <1>4, <5>1 DEF ReceiveLength
      <4>. QED  BY <1>t, <4>1
    <3>2. CASE proxyFds >= FdLimit
      <4> DEFINE r == IF Head(respQ).len = 0 THEN "ok" ELSE "fail"
      <4>1. r \in {"none", "ok", "fail"}  OBVIOUS
      <4>2. ret' = [ret EXCEPT ![p] = r]  BY <1>t, <1>4, <3>2 DEF ReceiveLength
      <4>3. pc' = [pc EXCEPT ![p] = "done"] /\ proxyFds' = proxyFds
        BY <1>t, <1>4, <3>2 DEF ReceiveLength
      <4> HIDE DEF r
      <4>. QED  BY <1>t, <4>1, <4>2, <4>3
    <3>. QED  BY <1>t, <3>1, <3>2
  <2>5. respQ' \in Seq(Message) /\ Len(respQ') <= QueueCap
    BY <1>4, <2>1 DEF ReceiveLength, Received
  <2>6. status' \in [Proxies -> {"none", "OK", "FILE_NOT_FOUND"}]
    BY <1>t, <1>4 DEF ReceiveLength
  <2>. QED  BY <1>t, <1>4, <2>3, <2>4, <2>5, <2>6 DEF ReceiveLength, server
<1>5. ASSUME NEW p \in Proxies, StreamChunk(p) PROVE TypeOK'
  <2>1. Extended(body[p], shm) \in Seq(Cell)
    BY <1>t, ExtendedType DEF Cell
  <2>. QED  BY <1>t, <1>5, <2>1 DEF StreamChunk, server, Cell
<1>6. ASSUME NEW p \in Proxies, StreamFail(p) PROVE TypeOK'
  BY <1>t, <1>6 DEF StreamFail, server
<1>7. ASSUME NEW p \in Proxies, StreamDone(p) PROVE TypeOK'
  BY <1>t, <1>7 DEF StreamDone, server
<1>8. ASSUME NEW p \in Proxies, Return(p) PROVE TypeOK'
  BY <1>t, <1>8 DEF Return, server
<1>9. ASSUME NEW w \in Workers, LockCommand(w) PROVE TypeOK'
  BY <1>t, <1>9 DEF LockCommand, Go, client, reply
<1>10. ASSUME NEW w \in Workers, ReceiveRequest(w) PROVE TypeOK'
  BY <1>t, <1>10 DEF ReceiveRequest, Go, client, reply, Received
<1>11. ASSUME NEW w \in Workers, UnlockCommand(w) PROVE TypeOK'
  BY <1>t, <1>11 DEF UnlockCommand, At, Go, client, reply, Post, IInv, CommandLock, InCommand
<1>12. ASSUME NEW w \in Workers, SendNotFound(w) PROVE TypeOK'
  BY <1>t, <1>12 DEF SendNotFound, Go, client, reply, ToWait, NotFound, Message, HasRoom
<1>13. ASSUME NEW w \in Workers, LockResponse(w) PROVE TypeOK'
  BY <1>t, <1>13 DEF LockResponse, Go, client, reply, SegmentFree
<1>14. ASSUME NEW w \in Workers, MapSegment(w) PROVE TypeOK'
  <2>1. Truncate(shm, Size[job[w]]) \in Seq(Cell)
    BY <1>t, <1>14, FileSize, TruncateType DEF MapSegment, At, HasFile, Cell
  <2>. QED  BY <1>t, <1>14, <2>1 DEF MapSegment, Go, client, reply, Cell
<1>15. ASSUME NEW w \in Workers, MapFailed(w) PROVE TypeOK'
  BY <1>t, <1>15 DEF MapFailed, Go, client, reply
<1>16. ASSUME NEW w \in Workers, CopyChunk(w) PROVE TypeOK'
  <2>1. Size[job[w]] \in Nat /\ job[w] \in Paths
    BY <1>16, FileSize DEF CopyChunk, At, HasFile
  <2>2. Filled(shm, job[w], wrote[w]) \in Seq(Cell)
    BY <1>t, <2>1, FilledType DEF Cell
  <2>3. ChunkEnd(wrote[w], Size[job[w]]) \in Nat
    BY <1>t, <2>1, ChunkEndType
  <2>. QED  BY <1>t, <1>16, <2>2, <2>3 DEF CopyChunk, client, reply, Cell
<1>17. ASSUME NEW w \in Workers, ReadError(w) PROVE TypeOK'
  BY <1>t, <1>17 DEF ReadError, Go, client, reply
<1>18. ASSUME NEW w \in Workers, SendLength(w) PROVE TypeOK'
  <2>1. Found(AsInt(Size[job[w]])) \in Message
    BY <1>18, FileSize, CastType DEF SendLength, At, HasFile, Found, Message
  <2>. QED  BY <1>t, <1>18, <2>1 DEF SendLength, Go, client, reply, HasRoom
<1>19. ASSUME NEW w \in Workers, UnlockResponse(w) PROVE TypeOK'
  BY <1>t, <1>19 DEF UnlockResponse, At, Go, client, reply, Post, IInv, SegmentLock, InSegment
<1>20. CASE UNCHANGED vars
  BY <1>t, <1>20 DEF vars, client, server, reply
<1>. QED
  BY <1>1, <1>2, <1>3, <1>4, <1>5, <1>6, <1>7, <1>8, <1>9, <1>10, <1>11, <1>12, <1>13,
     <1>14, <1>15, <1>16, <1>17, <1>18, <1>19, <1>20
     DEF Next, HandlerStep, WorkerStep

\* The program counters at which a worker has a request, and a file, in hand.
Working(l) == l \in {"unlockCmd", "sendNotFound", "lockResp", "map", "copy"}
Copying(l) == l \in {"lockResp", "map", "copy"}

\* A worker's step that leaves w at l with j in hand, l and j fitting each
\* other, keeps Assigned; no other worker is touched.
LEMMA AssignedWorker ==
    ASSUME TypeOK, Assigned, pc' = pc, want' = want,
           NEW w \in Workers, NEW l, NEW j,
           wpc' = [wpc EXCEPT ![w] = l],
           job' = [job EXCEPT ![w] = j],
           Working(l) <=> j # None,
           Copying(l) => j \in Cached,
           l = "sendNotFound" => j \notin Cached
    PROVE  Assigned'
<1>1. /\ wpc'[w] = l /\ job'[w] = j
      /\ \A v \in Workers \ {w} : wpc'[v] = wpc[v] /\ job'[v] = job[v]
  BY DEF TypeOK
<1>2. \A p \in Proxies : pc'[p] = "idle" <=> want'[p] = None
  BY DEF Assigned
<1>3. ASSUME NEW v \in Workers
      PROVE  /\ Working(wpc'[v]) <=> job'[v] # None
             /\ Copying(wpc'[v]) => job'[v] \in Cached
             /\ wpc'[v] = "sendNotFound" => job'[v] \notin Cached
  <2>1. CASE v = w
    BY <1>1, <2>1
  <2>2. CASE v # w
    BY <1>1, <2>2 DEF Assigned, HasJob, HasFile, Working, Copying
  <2>. QED  BY <2>1, <2>2
<1>. QED  BY <1>2, <1>3 DEF Assigned, HasJob, HasFile, Working, Copying

LEMMA AssignedStep == IInv /\ [Next]_vars => Assigned'
<1> SUFFICES ASSUME IInv, [Next]_vars PROVE Assigned'  OBVIOUS
<1> USE ConstantsAssumption
<1>t. TypeOK /\ Assigned  BY DEF IInv
<1> USE DEF TypeOK, Assigned, HasJob, HasFile
<1>1. ASSUME NEW p \in Proxies, Accept(p) PROVE Assigned'
  BY <1>t, <1>1 DEF Accept, server, reply
<1>2. ASSUME NEW p \in Proxies, HandlerStep(p) PROVE Assigned'
  <2>1. UNCHANGED server
    BY <1>2 DEF HandlerStep, SendRequest, ReceiveNotFound, ReceiveLength, StreamChunk,
                StreamFail, StreamDone, Return
  <2>2. CASE pc[p] = "done"
    <3>1. Return(p)
      BY <1>2, <2>2 DEF HandlerStep, SendRequest, ReceiveNotFound, ReceiveLength,
                        StreamChunk, StreamFail, StreamDone
    <3>. QED  BY <1>t, <2>1, <3>1 DEF Return, server
  <2>3. CASE pc[p] # "done"
    <3>1. /\ want' = want
          /\ \E l \in ProxyPC \ {"idle"} : pc' = [pc EXCEPT ![p] = l]
          /\ pc[p] # "idle"
      <4>1. /\ want' = want /\ pc[p] # "idle"
            /\ \/ pc' = [pc EXCEPT ![p] = "recv"] \/ pc' = [pc EXCEPT ![p] = "done"]
               \/ pc' = [pc EXCEPT ![p] = "stream"]
               \/ pc' = pc /\ pc[p] = "stream"
        BY <1>2, <2>3
           DEF HandlerStep, SendRequest, ReceiveNotFound, ReceiveLength, StreamChunk,
               StreamFail, StreamDone, Return
      <4>. QED  BY <1>t, <4>1 DEF ProxyPC
    <3>. QED  BY <1>t, <2>1, <3>1 DEF server
  <2>. QED  BY <2>2, <2>3
<1>3. ASSUME NEW w \in Workers, WorkerStep(w) \/ ReadError(w) PROVE Assigned'
  <2>1. UNCHANGED client
    BY <1>3 DEF WorkerStep, LockCommand, ReceiveRequest, UnlockCommand, SendNotFound,
                LockResponse, MapSegment, MapFailed, CopyChunk, SendLength,
                UnlockResponse, ReadError
  <2>0. pc' = pc /\ want' = want  BY <2>1 DEF client
  <2> HIDE DEF TypeOK, Assigned, HasJob, HasFile
  <2>2. CASE ReceiveRequest(w)
    <3>1. Head(reqQ) \in Paths  BY <1>t, <2>2 DEF TypeOK, ReceiveRequest
    <3>2. /\ wpc' = [wpc EXCEPT ![w] = "unlockCmd"]
          /\ job' = [job EXCEPT ![w] = Head(reqQ)]
      BY <2>2 DEF ReceiveRequest, Go
    <3>3. Working("unlockCmd") /\ ~Copying("unlockCmd") /\ Head(reqQ) # None
      BY <3>1 DEF Working, Copying
    <3>. QED  BY <1>t, <2>0, <3>2, <3>3, AssignedWorker
  <2>3. CASE LockCommand(w) \/ UnlockCommand(w) \/ LockResponse(w) \/ UnlockResponse(w)
             \/ MapSegment(w) \/ MapFailed(w)
    <3>1. /\ job' = job
          /\ \/ wpc[w] = "lockCmd" /\ wpc' = [wpc EXCEPT ![w] = "recv"]
             \/ /\ wpc[w] = "unlockCmd"
                /\ wpc' = [wpc EXCEPT ![w] = IF job[w] \in Cached THEN "lockResp"
                                                                 ELSE "sendNotFound"]
             \/ wpc[w] = "lockResp" /\ wpc' = [wpc EXCEPT ![w] = "map"]
             \/ wpc[w] = "unlockResp" /\ wpc' = [wpc EXCEPT ![w] = "lockCmd"]
             \/ wpc[w] = "map" /\ wpc' = [wpc EXCEPT ![w] = "copy"]
      BY <2>3 DEF LockCommand, UnlockCommand, LockResponse, UnlockResponse, MapSegment,
                  MapFailed, At, Go
    <3>2. /\ HasJob(w) <=> job[w] # None
          /\ HasFile(w) => job[w] \in Cached
      BY <1>t DEF Assigned
    <3>3. job' = [job EXCEPT ![w] = job[w]] /\ job[w] \in Paths \cup {None}
      BY <1>t, <3>1 DEF TypeOK
    <3>4. PICK l : /\ wpc' = [wpc EXCEPT ![w] = l]
                   /\ Working(l) <=> job[w] # None
                   /\ Copying(l) => job[w] \in Cached
                   /\ l = "sendNotFound" => job[w] \notin Cached
      BY <3>1, <3>2 DEF HasJob, HasFile, Working, Copying
    <3>. QED  BY <1>t, <2>0, <3>3, <3>4, AssignedWorker
  <2>4. CASE SendNotFound(w) \/ SendLength(w) \/ ReadError(w)
    <3>1. /\ job' = [job EXCEPT ![w] = None]
          /\ \/ wpc' = [wpc EXCEPT ![w] = "lockCmd"]
             \/ wpc' = [wpc EXCEPT ![w] = "unlockResp"]
             \/ wpc' = [wpc EXCEPT ![w] = "gone"]
      BY <2>4 DEF SendNotFound, SendLength, ReadError, Go, ToWait
    <3>2. PICK l : /\ wpc' = [wpc EXCEPT ![w] = l]
                   /\ ~Working(l) /\ ~Copying(l) /\ l # "sendNotFound"
      BY <3>1 DEF Working, Copying
    <3>. QED  BY <1>t, <2>0, <3>1, <3>2, AssignedWorker
  <2>5. CASE CopyChunk(w)
    <3>1. wpc' = wpc /\ job' = job  BY <2>5 DEF CopyChunk
    <3>. QED  BY <1>t, <2>0, <3>1 DEF Assigned, HasJob, HasFile
  <2>. QED  BY <1>3, <2>2, <2>3, <2>4, <2>5 DEF WorkerStep
<1>4. CASE UNCHANGED vars
  BY <1>t, <1>4 DEF vars, client, server
<1>. QED  BY <1>1, <1>2, <1>3, <1>4 DEF Next

\* Both semaphores are taken by one worker at a time.
LEMMA LockStep == IInv /\ [Next]_vars => CommandLock' /\ SegmentLock'
<1> SUFFICES ASSUME IInv, [Next]_vars PROVE CommandLock' /\ SegmentLock'  OBVIOUS
<1>t. TypeOK /\ CommandLock /\ SegmentLock  BY DEF IInv
<1> USE DEF TypeOK, CommandLock, SegmentLock, InCommand, InSegment
<1>1. ASSUME NEW w \in Workers, WorkerStep(w) \/ ReadError(w)
      PROVE  CommandLock' /\ SegmentLock'
  <2>1. CASE LockCommand(w)
    BY <1>t, <2>1 DEF LockCommand, At, Go
  <2>2. CASE ReceiveRequest(w)
    BY <1>t, <2>2 DEF ReceiveRequest, At, Go
  <2>3. CASE UnlockCommand(w)
    BY <1>t, <2>3 DEF UnlockCommand, At, Go, Post
  <2>4. CASE SendNotFound(w)
    BY <1>t, <2>4 DEF SendNotFound, At, Go, ToWait
  <2>5. CASE LockResponse(w)
    BY <1>t, <2>5 DEF LockResponse, At, Go, SegmentFree
  <2>6. CASE MapSegment(w) \/ MapFailed(w)
    <3>1. /\ wpc[w] = "map" /\ wpc' = [wpc EXCEPT ![w] = "copy"]
          /\ cmdSem' = cmdSem /\ respSem' = respSem
      BY <2>6 DEF MapSegment, MapFailed, At, Go
    <3>. QED  BY <1>t, <3>1
  <2>7. CASE CopyChunk(w)
    BY <1>t, <2>7 DEF CopyChunk, At, Go
  <2>8. CASE ReadError(w) \/ SendLength(w)
    BY ZenonT(60), <1>t, <2>8 DEF ReadError, SendLength, At, Go
  <2>9. CASE UnlockResponse(w)
    BY <1>t, <2>9 DEF UnlockResponse, At, Go, Post
  <2>. QED  BY <1>1, <2>1, <2>2, <2>3, <2>4, <2>5, <2>6, <2>7, <2>8, <2>9 DEF WorkerStep
<1>2. CASE UNCHANGED server
  BY <1>t, <1>2 DEF server
<1>3. ASSUME NEW p \in Proxies, Accept(p) \/ HandlerStep(p) PROVE UNCHANGED server
  BY <1>3 DEF Accept, HandlerStep, SendRequest, ReceiveNotFound, ReceiveLength,
              StreamChunk, StreamFail, StreamDone, Return
<1>. QED  BY <1>1, <1>2, <1>3 DEF Next, vars

LEMMA Inductive == IInv /\ [Next]_vars => IInv'
  BY TypeStep, AssignedStep, LockStep DEF IInv

LEMMA Invariant == Spec => []IInv
  BY InitIInv, Inductive, PTL DEF Spec

\* Type correctness for every number of handlers and workers, with the bounds
\* of both queues and both semaphores binary.
THEOREM TypeCorrect == Spec => []TypeOK
<1>1. IInv => TypeOK  BY DEF IInv
<1>. QED  BY <1>1, Invariant, PTL

(***************************************************************************)
(* response_mutex keeps a copy in place until its length is sent.          *)
(***************************************************************************)
LEMMA CopyStep == IInv /\ CopyInPlace /\ [Next]_vars => CopyInPlace'
<1> SUFFICES ASSUME IInv, CopyInPlace, [Next]_vars PROVE CopyInPlace'  OBVIOUS
<1>t. TypeOK /\ SegmentLock  BY DEF IInv
<1>c. Chunk \in Nat \ {0}  BY ConstantsAssumption
\* Only the holder of response_mutex is copying.
<1>h. ASSUME NEW v \in Workers, NEW w \in Workers, InSegment(w), v # w
      PROVE  wpc[v] # "copy"
  BY <1>t, <1>h DEF SegmentLock, InSegment
<1>1. ASSUME NEW w \in Workers, MapSegment(w) PROVE CopyInPlace'
  <2>1. /\ wpc[w] = "map" /\ wpc' = [wpc EXCEPT ![w] = "copy"]
        /\ wrote' = [wrote EXCEPT ![w] = 0] /\ job' = job
        /\ shm' = Truncate(shm, Size[job[w]])
    BY <1>1 DEF MapSegment, At, Go
  <2>2. Size[job[w]] \in Nat  BY <2>1, FileSize DEF HasFile
  <2>3. Len(shm') = Size[job[w]]  BY <1>t, <2>1, <2>2, TruncateType DEF TypeOK, Cell
  <2>4. \A v \in Workers : wpc'[v] = "copy" => v = w
    BY <1>t, <1>h, <2>1 DEF InSegment, TypeOK
  <2>5. wrote'[w] = 0 /\ job'[w] = job[w]  BY <1>t, <2>1 DEF TypeOK
  <2>. QED  BY <2>2, <2>3, <2>4, <2>5 DEF CopyInPlace
<1>2. ASSUME NEW w \in Workers, CopyChunk(w) PROVE CopyInPlace'
  <2>1. /\ wpc[w] = "copy" /\ alive /\ wpc' = wpc /\ job' = job /\ alive' = alive
        /\ wrote' = [wrote EXCEPT ![w] = ChunkEnd(wrote[w], Size[job[w]])]
        /\ shm' = Filled(shm, job[w], wrote[w])
        /\ ~(wrote[w] >= Size[job[w]])
    BY <1>2 DEF CopyChunk, At, CopyWhole
  <2>2. Size[job[w]] \in Nat /\ job[w] \in Paths  BY <2>1, FileSize DEF HasFile
  <2>3. wrote[w] \in Nat /\ shm \in Seq(Cell)  BY <1>t DEF TypeOK, Cell
  <2>4. /\ Len(shm) = Size[job[w]]
        /\ \A i \in 1..wrote[w] : shm[i] = job[w]
    BY <2>1, <2>2, <2>3 DEF CopyInPlace
  <2>5. Len(shm') = Size[job[w]]  BY <1>c, <2>1, <2>2, <2>3, <2>4, FilledType
  <2> DEFINE n == ChunkEnd(wrote[w], Size[job[w]])
  <2>6. n \in Nat /\ n <= Size[job[w]] /\ n <= wrote[w] + Chunk
    BY <1>c, <2>2, <2>3, ChunkEndType
  <2>7. \A i \in 1..n : shm'[i] = job[w]
    <3> SUFFICES ASSUME NEW i \in 1..n PROVE shm'[i] = job[w]  OBVIOUS
    <3> HIDE DEF n
    <3>1. i \in 1..Len(shm) /\ i <= Size[job[w]] /\ i <= wrote[w] + Chunk
      BY <1>c, <2>2, <2>3, <2>4, <2>6
    <3>2. shm'[i] = IF wrote[w] < i /\ i <= wrote[w] + Chunk /\ i <= Size[job[w]]
                    THEN job[w] ELSE shm[i]
      BY <2>1, <3>1 DEF Filled
    <3>. QED  BY <2>3, <2>4, <3>1, <3>2
  <2>8. \A v \in Workers : wpc'[v] = "copy" => v = w
    BY <1>h, <2>1 DEF InSegment
  <2>9. wrote'[w] = n  BY <1>t, <2>1 DEF TypeOK
  <2>. QED  BY <2>1, <2>5, <2>6, <2>7, <2>8, <2>9 DEF CopyInPlace
<1>3. ASSUME NEW w \in Workers, MapFailed(w) PROVE CopyInPlace'
  <2>1. /\ wpc[w] = "map" /\ wpc' = [wpc EXCEPT ![w] = "copy"]
        /\ job' = job /\ alive' = (Size[job[w]] = 0)
    BY <1>3 DEF MapFailed, At, Go
  <2>2. \A v \in Workers : wpc'[v] = "copy" => v = w
    BY <1>t, <1>h, <2>1 DEF InSegment, TypeOK
  <2>3. alive' => Size[job'[w]] = 0  BY <2>1, Zenon
  <2>4. ASSUME NEW v \in Workers, wpc'[v] = "copy", alive' PROVE ~(Size[job'[v]] > 0)
    BY <2>2, <2>3, <2>4
  <2>. QED  BY <2>4 DEF CopyInPlace
\* The other steps bring no worker into the loop and touch neither the
\* segment nor what the copying worker has.
<1>4. ASSUME shm' = shm, wrote' = wrote, alive' = alive,
             \A v \in Workers : wpc'[v] = "copy" => wpc[v] = "copy" /\ job'[v] = job[v]
      PROVE  CopyInPlace'
  BY <1>4 DEF CopyInPlace
<1>5. ASSUME NEW p \in Proxies, Accept(p) \/ HandlerStep(p) PROVE CopyInPlace'
  <2>1. UNCHANGED <<shm, server>>
    BY <1>5 DEF Accept, HandlerStep, SendRequest, ReceiveNotFound, ReceiveLength,
                StreamChunk, StreamFail, StreamDone, Return
  <2>. QED  BY <1>4, <2>1 DEF server
<1>6. ASSUME NEW w \in Workers,
             LockCommand(w) \/ ReceiveRequest(w) \/ UnlockCommand(w) \/ SendNotFound(w)
             \/ LockResponse(w) \/ ReadError(w) \/ SendLength(w) \/ UnlockResponse(w)
      PROVE  CopyInPlace'
  <2>1. /\ shm' = shm /\ wrote' = wrote /\ alive' = alive
        /\ \E l \in WorkerPC \ {"copy"} : wpc' = [wpc EXCEPT ![w] = l]
    BY <1>6 DEF LockCommand, ReceiveRequest, UnlockCommand, SendNotFound, LockResponse,
                ReadError, SendLength, UnlockResponse, Go, ToWait, WorkerPC
  <2>2. \E j \in Paths \cup {None} : job' = [job EXCEPT ![w] = j]
    <3>1. CASE ReceiveRequest(w)
      <4>1. Head(reqQ) \in Paths  BY <1>t, <3>1 DEF ReceiveRequest, TypeOK
      <4>. QED  BY <3>1, <4>1 DEF ReceiveRequest
    <3>2. CASE SendNotFound(w) \/ ReadError(w) \/ SendLength(w)
      BY <3>2 DEF SendNotFound, ReadError, SendLength
    <3>3. CASE job' = job
      BY <1>t, <3>3 DEF TypeOK
    <3>. QED
      BY <1>6, <3>1, <3>2, <3>3 DEF LockCommand, UnlockCommand, LockResponse, UnlockResponse
  <2>3. \A v \in Workers : wpc'[v] = "copy" => wpc[v] = "copy" /\ job'[v] = job[v]
    BY <1>t, <2>1, <2>2 DEF TypeOK
  <2>. QED  BY <1>4, <2>1, <2>3
<1>7. CASE UNCHANGED vars
  BY <1>4, <1>7 DEF vars, server
<1>. QED  BY <1>1, <1>2, <1>3, <1>5, <1>6, <1>7 DEF Next, WorkerStep

\* A file is whole in the segment when its length is sent, whatever the other
\* workers do meanwhile.
THEOREM CopyIsWhole == Spec => []WholeUntilAnswered
<1>1. Init => CopyInPlace  BY DEF Init, CopyInPlace
<1>2. IInv /\ CopyInPlace => WholeUntilAnswered
  BY DEF IInv, SegmentLock, WholeUntilAnswered
<1>. QED  BY <1>1, <1>2, CopyStep, Invariant, PTL DEF Spec

(***************************************************************************)
(* Counting: what one handler or one worker does changes one of the four   *)
(* terms of OneAnswerPerRequest by one and another by as much.             *)
(***************************************************************************)
LEMMA CountsFinite ==
    /\ IsFiniteSet(Waiting) /\ IsFiniteSet(Busy)
    /\ Cardinality(Waiting) \in Nat /\ Cardinality(Busy) \in Nat
<1>1. Waiting \in SUBSET Proxies /\ Busy \in SUBSET Workers  BY DEF Waiting, Busy
<1>2. IsFiniteSet(Waiting) /\ IsFiniteSet(Busy)
  BY <1>1, ConstantsAssumption, FS_Subset
<1>. QED  BY <1>2, FS_CardinalityType

\* A handler that starts to wait, one that stops, and one that does neither.
LEMMA WaitingStep ==
    ASSUME TypeOK, NEW p \in Proxies, NEW l, pc' = [pc EXCEPT ![p] = l]
    PROVE  /\ l = "recv" /\ ~(pc[p] = "recv") => Cardinality(Waiting') = Cardinality(Waiting) + 1
           /\ ~(l = "recv") /\ pc[p] = "recv" => Cardinality(Waiting') = Cardinality(Waiting) - 1
           /\ (l = "recv" <=> pc[p] = "recv") => Cardinality(Waiting') = Cardinality(Waiting)
<1>1. pc'[p] = l /\ \A q \in Proxies \ {p} : pc'[q] = pc[q]  BY DEF TypeOK
<1>2. CASE l = "recv" /\ ~(pc[p] = "recv")
  <2>1. Waiting' = Waiting \cup {p} /\ p \notin Waiting  BY <1>1, <1>2 DEF Waiting
  <2>2. Cardinality(Waiting') = Cardinality(Waiting) + 1
    BY <2>1, CountsFinite, FS_AddElement
  <2>. QED  BY <1>2, <2>2
<1>3. CASE ~(l = "recv") /\ pc[p] = "recv"
  <2>1. Waiting' = Waiting \ {p} /\ p \in Waiting  BY <1>1, <1>3 DEF Waiting
  <2>2. Cardinality(Waiting') = Cardinality(Waiting) - 1
    BY <2>1, CountsFinite, FS_RemoveElement
  <2>. QED  BY <1>3, <2>2
<1>4. CASE l = "recv" <=> pc[p] = "recv"
  <2>1. Waiting' = Waiting  BY <1>1, <1>4 DEF Waiting
  <2>. QED  BY <1>4, <2>1
<1>. QED  BY <1>2, <1>3, <1>4

\* A worker that takes a request, one that is done with it.
LEMMA BusyStep ==
    ASSUME TypeOK, NEW w \in Workers, NEW j, job' = [job EXCEPT ![w] = j]
    PROVE  /\ j # None /\ ~(job[w] # None) => Cardinality(Busy') = Cardinality(Busy) + 1
           /\ ~(j # None) /\ job[w] # None => Cardinality(Busy') = Cardinality(Busy) - 1
           /\ (j # None <=> job[w] # None) => Cardinality(Busy') = Cardinality(Busy)
<1>1. job'[w] = j /\ \A v \in Workers \ {w} : job'[v] = job[v]  BY DEF TypeOK
<1>2. CASE j # None /\ ~(job[w] # None)
  <2>1. Busy' = Busy \cup {w} /\ w \notin Busy  BY <1>1, <1>2 DEF Busy
  <2>2. Cardinality(Busy') = Cardinality(Busy) + 1
    BY <2>1, CountsFinite, FS_AddElement
  <2>. QED  BY <1>2, <2>2
<1>3. CASE ~(j # None) /\ job[w] # None
  <2>1. Busy' = Busy \ {w} /\ w \in Busy  BY <1>1, <1>3 DEF Busy
  <2>2. Cardinality(Busy') = Cardinality(Busy) - 1
    BY <2>1, CountsFinite, FS_RemoveElement
  <2>. QED  BY <1>3, <2>2
<1>4. CASE j # None <=> job[w] # None
  <2>1. Busy' = Busy  BY <1>1, <1>4 DEF Busy
  <2>. QED  BY <1>4, <2>1
<1>. QED  BY <1>2, <1>3, <1>4

LEMMA AnswerStep == IInv /\ OneAnswerPerRequest /\ [Next]_vars => OneAnswerPerRequest'
<1> SUFFICES ASSUME IInv, OneAnswerPerRequest, [Next]_vars PROVE OneAnswerPerRequest'
  OBVIOUS
<1>t. TypeOK /\ Assigned  BY DEF IInv
<1>q. reqQ \in Seq(Paths) /\ respQ \in Seq(Message)  BY <1>t DEF TypeOK
<1>n. /\ Cardinality(Waiting) \in Nat /\ Cardinality(Busy) \in Nat
      /\ Len(reqQ) \in Nat /\ Len(respQ) \in Nat /\ readErrors \in Nat
  BY <1>t, CountsFinite DEF TypeOK
<1>i. Cardinality(Waiting) = Len(reqQ) + Cardinality(Busy) + Len(respQ) + readErrors
  BY DEF OneAnswerPerRequest
<1>1. ASSUME NEW p \in Proxies, Accept(p) \/ HandlerStep(p) PROVE OneAnswerPerRequest'
  <2>1. Busy' = Busy /\ readErrors' = readErrors
    BY <1>1 DEF Accept, HandlerStep, SendRequest, ReceiveNotFound, ReceiveLength,
                StreamChunk, StreamFail, StreamDone, Return, server, Busy
  <2>2. CASE SendRequest(p)
    <3>1. want[p] \in Paths  BY <1>t, <2>2 DEF SendRequest, TypeOK, Assigned
    <3>2. Len(reqQ') = Len(reqQ) + 1 /\ respQ' = respQ
      BY <1>q, <2>2, <3>1 DEF SendRequest
    <3>3. pc[p] = "send" /\ pc' = [pc EXCEPT ![p] = "recv"]  BY <2>2 DEF SendRequest
    <3>4. Cardinality(Waiting') = Cardinality(Waiting) + 1
      BY <1>t, <3>3, WaitingStep
    <3>. QED  BY <1>n, <1>i, <2>1, <3>2, <3>4 DEF OneAnswerPerRequest
  <2>3. CASE ReceiveNotFound(p) \/ ReceiveLength(p)
    <3>1. Len(respQ') = Len(respQ) - 1 /\ reqQ' = reqQ
      BY <1>q, <2>3 DEF ReceiveNotFound, ReceiveLength, Received
    <3>2. pc[p] = "recv" /\ \E l \in {"done", "stream"} : pc' = [pc EXCEPT ![p] = l]
      BY <2>3 DEF ReceiveNotFound, ReceiveLength
    <3>3. Cardinality(Waiting') = Cardinality(Waiting) - 1
      BY <1>t, <3>2, WaitingStep
    <3>. QED  BY <1>n, <1>i, <2>1, <3>1, <3>3 DEF OneAnswerPerRequest
  <2>4. CASE Accept(p) \/ StreamChunk(p) \/ StreamFail(p) \/ StreamDone(p) \/ Return(p)
    <3>1. /\ reqQ' = reqQ /\ respQ' = respQ /\ pc[p] # "recv"
          /\ \/ pc' = pc
             \/ \E l \in {"send", "done", "idle"} : pc' = [pc EXCEPT ![p] = l]
      BY <2>4 DEF Accept, StreamChunk, StreamFail, StreamDone, Return
    <3>2. Cardinality(Waiting') = Cardinality(Waiting)
      <4>1. CASE pc' = pc  BY <4>1 DEF Waiting
      <4>2. CASE pc' # pc  BY <1>t, <3>1, <4>2, WaitingStep
      <4>. QED  BY <4>1, <4>2
    <3>. QED  BY <1>i, <2>1, <3>1, <3>2 DEF OneAnswerPerRequest
  <2>. QED  BY <1>1, <2>2, <2>3, <2>4 DEF HandlerStep
<1>2. ASSUME NEW w \in Workers, WorkerStep(w) \/ ReadError(w) PROVE OneAnswerPerRequest'
  <2>1. Waiting' = Waiting
    BY <1>2 DEF WorkerStep, LockCommand, ReceiveRequest, UnlockCommand, SendNotFound,
                LockResponse, MapSegment, MapFailed, CopyChunk, SendLength,
                UnlockResponse, ReadError, client, Waiting
  <2>j. HasJob(w) <=> job[w] # None  BY <1>t DEF Assigned
  <2>2. CASE ReceiveRequest(w)
    <3>1. Head(reqQ) # None /\ Len(reqQ') = Len(reqQ) - 1
      BY <1>q, <2>2, ConstantsAssumption DEF ReceiveRequest, Received
    <3>2. job[w] = None  BY <2>2, <2>j DEF ReceiveRequest, At, HasJob
    <3>3. /\ job' = [job EXCEPT ![w] = Head(reqQ)]
          /\ respQ' = respQ /\ readErrors' = readErrors
      BY <2>2 DEF ReceiveRequest
    <3>4. Cardinality(Busy') = Cardinality(Busy) + 1
      BY <1>t, <3>1, <3>2, <3>3, BusyStep
    <3>. QED  BY <1>n, <1>i, <2>1, <3>1, <3>3, <3>4 DEF OneAnswerPerRequest
  <2>3. CASE SendNotFound(w) \/ SendLength(w) \/ ReadError(w)
    <3>1. job[w] # None
      BY <2>3, <2>j DEF SendNotFound, SendLength, ReadError, At, HasJob
    <3>2. job' = [job EXCEPT ![w] = None] /\ reqQ' = reqQ
      BY <2>3 DEF SendNotFound, SendLength, ReadError
    <3>3. Cardinality(Busy') = Cardinality(Busy) - 1
      BY <1>t, <3>1, <3>2, BusyStep
    <3>4. CASE SendNotFound(w)
      <4>1. NotFound \in Message  BY ConstantsAssumption DEF NotFound, Message
      <4>2. Len(respQ') = Len(respQ) + 1 /\ readErrors' = readErrors
        BY <1>q, <3>4, <4>1 DEF SendNotFound
      <4>. QED  BY <1>n, <1>i, <2>1, <3>2, <3>3, <4>2 DEF OneAnswerPerRequest
    <3>5. CASE SendLength(w)
      <4>1. Found(AsInt(Size[job[w]])) \in Message
        BY <3>5, FileSize, CastType, ConstantsAssumption
           DEF SendLength, At, HasFile, Found, Message
      <4>2. Len(respQ') = Len(respQ) + 1 /\ readErrors' = readErrors
        BY <1>q, <3>5, <4>1 DEF SendLength
      <4>. QED  BY <1>n, <1>i, <2>1, <3>2, <3>3, <4>2 DEF OneAnswerPerRequest
    <3>6. CASE ReadError(w)
      <4>1. respQ' = respQ /\ readErrors' = readErrors + 1  BY <3>6 DEF ReadError
      <4>. QED  BY <1>n, <1>i, <2>1, <3>2, <3>3, <4>1 DEF OneAnswerPerRequest
    <3>. QED  BY <2>3, <3>4, <3>5, <3>6
  <2>4. CASE LockCommand(w) \/ UnlockCommand(w) \/ LockResponse(w) \/ MapSegment(w)
             \/ MapFailed(w) \/ CopyChunk(w) \/ UnlockResponse(w)
    <3>1. job' = job /\ reqQ' = reqQ /\ respQ' = respQ /\ readErrors' = readErrors
      BY <2>4 DEF LockCommand, UnlockCommand, LockResponse, MapSegment, MapFailed,
                  CopyChunk, UnlockResponse
    <3>. QED  BY <1>i, <2>1, <3>1 DEF OneAnswerPerRequest, Busy
  <2>. QED  BY <1>2, <2>2, <2>3, <2>4 DEF WorkerStep
<1>3. CASE UNCHANGED vars
  BY <1>i, <1>3 DEF vars, client, server, OneAnswerPerRequest, Waiting, Busy
<1>. QED  BY <1>1, <1>2, <1>3 DEF Next

\* No request is lost or answered twice on its way through the queues and the
\* workers, however many handlers and workers there are: as many answers are
\* to come as handlers wait, but for the reads that failed.
THEOREM AnswersAreCounted == Spec => []OneAnswerPerRequest
<1>1. Init => OneAnswerPerRequest
  <2> SUFFICES ASSUME Init PROVE OneAnswerPerRequest  OBVIOUS
  <2>1. Waiting = {} /\ Busy = {} /\ readErrors = 0 /\ reqQ = << >> /\ respQ = << >>
    BY DEF Init, Waiting, Busy
  <2>. QED  BY <2>1, FS_EmptySet DEF OneAnswerPerRequest
<1>. QED  BY <1>1, AnswerStep, Invariant, PTL DEF Spec
===============================================================================
