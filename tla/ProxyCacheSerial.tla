--------------------------- MODULE ProxyCacheSerial ---------------------------
(***************************************************************************)
(* A proxy with one handler thread, and files whose length an int can      *)
(* hold, is a FileService: the reply the handler takes is its own, and no  *)
(* worker touches the segment while it reads.  ProxyCacheCrossTalk.cfg     *)
(* shows that two handlers are too many; AsInt, that a longer file is.     *)
(***************************************************************************)
EXTENDS ProxyCacheProofs

Alone(p) == Proxies = {p} /\ \A f \in Cached : Size[f] <= IntMax

\* The segment holds f (an empty file leaves nothing to read).
Whole(f) ==
    Size[f] > 0 => Len(shm) = Size[f] /\ \A i \in 1..Len(shm) : shm[i] = f

\* m is the true answer to a request for f.
Answers(m, f) ==
    /\ f \in Cached => m.found /\ m.len = Size[f] /\ Whole(f)
    /\ f \notin Cached => ~m.found

NoJob == \A w \in Workers : job[w] = None

\* The request of p is in one place: on its way, with one worker, or answered.
InFlight(p) ==
    /\ pc[p] # "recv" => reqQ = << >> /\ respQ = << >> /\ NoJob
    /\ reqQ # << >> => Tail(reqQ) = << >> /\ Head(reqQ) = want[p] /\ respQ = << >> /\ NoJob
    /\ respQ # << >> => /\ Tail(respQ) = << >> /\ reqQ = << >> /\ NoJob
                        /\ Answers(Head(respQ), want[p])
    /\ \A w \in Workers : job[w] # None =>
          /\ job[w] = want[p] /\ reqQ = << >> /\ respQ = << >>
          /\ \A v \in Workers : job[v] # None => v = w

\* What p has sent so far is what its path calls for.
Progress(p) ==
    /\ pc[p] \in {"idle", "send", "recv"} =>
          status[p] = "none" /\ hlen[p] = 0 /\ body[p] = << >> /\ ret[p] = "none"
    /\ pc[p] = "stream" =>
          /\ want[p] \in Cached /\ status[p] = "OK" /\ ret[p] = "none"
          /\ hlen[p] = Size[want[p]] /\ Whole(want[p])
          /\ Len(body[p]) <= Size[want[p]]
          /\ \A i \in 1..Len(body[p]) : body[p][i] = want[p]
    /\ pc[p] = "done" => ret[p] # "none"

SInv(p) == InFlight(p) /\ Progress(p)

LEMMA InitSInv == \A p \in Proxies : Init => SInv(p)
  BY DEF Init, SInv, InFlight, Progress, NoJob

\* A worker with nothing in hand and nothing to receive can only move between
\* the semaphores.
LEMMA IdleWorker ==
    ASSUME IInv, NEW w \in Workers, WorkerStep(w) \/ ReadError(w),
           job[w] = None, reqQ = << >>
    PROVE  UNCHANGED <<client, job, wrote, alive, reqQ, respQ, shm>>
<1>1. ~HasJob(w)  BY DEF IInv, Assigned
<1>2. LockCommand(w) \/ UnlockResponse(w)
  BY <1>1 DEF WorkerStep, ReceiveRequest, UnlockCommand, SendNotFound, LockResponse,
              MapSegment, MapFailed, CopyChunk, ReadError, SendLength, At, HasJob
<1>. QED  BY <1>2 DEF LockCommand, UnlockResponse

LEMMA WorkerClient ==
    ASSUME NEW w \in Workers, WorkerStep(w) \/ ReadError(w)
    PROVE  UNCHANGED client
  BY DEF WorkerStep, LockCommand, ReceiveRequest, UnlockCommand, SendNotFound,
         LockResponse, MapSegment, MapFailed, CopyChunk, SendLength, UnlockResponse,
         ReadError

LEMMA WorkerSInv ==
    ASSUME NEW p \in Proxies, Alone(p), IInv, CopyInPlace, SInv(p),
           NEW w \in Workers, WorkerStep(w) \/ ReadError(w)
    PROVE  SInv(p)'
<1>t. TypeOK  BY DEF IInv
<1>u. UNCHANGED <<pc, want, status, hlen, body, ret>>
  BY WorkerClient DEF client, reply
<1>1. CASE job[w] = None /\ reqQ = << >>
  <2>1. UNCHANGED <<pc, want, status, hlen, body, ret, job, reqQ, respQ, shm>>
    BY <1>1, <1>u, IdleWorker
  <2>. QED
    BY <2>1 DEF SInv, InFlight, Progress, NoJob, Answers, Whole
\* Otherwise the request of p is with the cache, and p waits.
<1>2. CASE ~(job[w] = None /\ reqQ = << >>)
  <2>1. pc[p] = "recv"  BY <1>2 DEF SInv, InFlight, NoJob
  <2>2. Progress(p)'
    BY <1>u, <2>1 DEF SInv, Progress
  <2>3. CASE ReceiveRequest(w)
    <3>1. /\ reqQ # << >> /\ reqQ' = Tail(reqQ) /\ respQ' = respQ
          /\ job' = [job EXCEPT ![w] = Head(reqQ)]
      BY <2>3 DEF ReceiveRequest, Received
    <3>2. Tail(reqQ) = << >> /\ Head(reqQ) = want[p] /\ respQ = << >> /\ NoJob
      BY <3>1 DEF SInv, InFlight
    <3>3. InFlight(p)'
      BY <1>t, <1>u, <2>1, <3>1, <3>2 DEF InFlight, NoJob, TypeOK
    <3>. QED  BY <2>2, <3>3 DEF SInv
  <2>4. CASE LockCommand(w) \/ UnlockCommand(w) \/ LockResponse(w) \/ UnlockResponse(w)
    <3>1. UNCHANGED <<job, reqQ, respQ, shm>>
      BY <2>4 DEF LockCommand, UnlockCommand, LockResponse, UnlockResponse
    <3>. QED  BY <1>u, <2>2, <3>1 DEF SInv, InFlight, NoJob, Answers, Whole
  \* A worker with the request: nothing is queued, and no other has a request.
  <2>5. ASSUME HasJob(w)
        PROVE  /\ job[w] = want[p] /\ reqQ = << >> /\ respQ = << >>
               /\ \A v \in Workers : job[v] # None => v = w
    BY <2>5 DEF IInv, Assigned, SInv, InFlight
  <2>6. CASE SendNotFound(w)
    <3>1. wpc[w] = "sendNotFound" /\ HasJob(w)  BY <2>6 DEF SendNotFound, At, HasJob
    <3>2. /\ respQ' = Append(respQ, NotFound) /\ reqQ' = reqQ
          /\ job' = [job EXCEPT ![w] = None]
      BY <2>6 DEF SendNotFound
    <3>3. job[w] \notin Cached  BY <3>1 DEF IInv, Assigned
    <3>4. job[w] = want[p] /\ reqQ = << >> /\ respQ = << >> /\ NoJob'
      BY <1>t, <2>5, <3>1, <3>2 DEF NoJob, TypeOK
    <3>5. respQ' = <<NotFound>>  BY <3>2, <3>4
    <3>6. Tail(respQ') = << >> /\ Head(respQ') = NotFound /\ respQ' # << >>
      BY <3>5
    <3>7. Answers(NotFound, want[p])'
      BY <1>u, <3>3, <3>4 DEF Answers, NotFound
    <3>8. InFlight(p)'
      BY <1>u, <2>1, <3>2, <3>4, <3>6, <3>7 DEF InFlight, NoJob
    <3>. QED  BY <2>2, <3>8 DEF SInv
  <2>7. CASE SendLength(w)
    <3>1. wpc[w] = "copy" /\ alive /\ HasJob(w) /\ HasFile(w) /\ wrote[w] >= Size[job[w]]
      BY <2>7 DEF SendLength, At, HasJob, HasFile, CopyWhole
    <3>2. /\ respQ' = Append(respQ, Found(AsInt(Size[job[w]]))) /\ reqQ' = reqQ
          /\ job' = [job EXCEPT ![w] = None] /\ shm' = shm
      BY <2>7 DEF SendLength
    <3>3. job[w] = want[p] /\ reqQ = << >> /\ respQ = << >> /\ NoJob'
      BY <1>t, <2>5, <3>1, <3>2 DEF NoJob, TypeOK
    <3>4. want[p] \in Cached /\ Size[want[p]] \in Nat  BY <3>1, <3>3, FileSize
    <3>5. AsInt(Size[want[p]]) = Size[want[p]]
      BY <3>4, CastType, ConstantsAssumption DEF Alone
    <3>6. Whole(want[p])
      <4>1. SUFFICES ASSUME Size[want[p]] > 0
                     PROVE  Len(shm) = Size[want[p]] /\ \A i \in 1..Len(shm) : shm[i] = want[p]
        BY DEF Whole
      <4>2. /\ wrote[w] <= Size[want[p]] /\ Len(shm) = Size[want[p]]
            /\ \A i \in 1..wrote[w] : shm[i] = want[p]
        BY <3>1, <3>3, <4>1 DEF CopyInPlace
      <4>3. wrote[w] = Size[want[p]]
        BY <1>t, <3>1, <3>3, <3>4, <4>2 DEF TypeOK
      <4>. QED  BY <4>2, <4>3
    <3>7. respQ' = <<Found(Size[want[p]])>>  BY <3>2, <3>3, <3>5
    <3>8. Tail(respQ') = << >> /\ Head(respQ') = Found(Size[want[p]]) /\ respQ' # << >>
      BY <3>7
    <3>9. Answers(Found(Size[want[p]]), want[p])'
      BY <1>u, <3>2, <3>4, <3>6 DEF Answers, Found, Whole
    <3>10. InFlight(p)'
      BY <1>u, <2>1, <3>2, <3>3, <3>8, <3>9 DEF InFlight, NoJob
    <3>. QED  BY <2>2, <3>10 DEF SInv
  <2>8. CASE ReadError(w)
    <3>1. HasJob(w) /\ reqQ' = reqQ /\ respQ' = respQ /\ job' = [job EXCEPT ![w] = None]
      BY <2>8 DEF ReadError, At, HasJob
    <3>2. reqQ' = << >> /\ respQ' = << >> /\ NoJob'
      BY <1>t, <2>5, <3>1 DEF NoJob, TypeOK
    <3>3. InFlight(p)'  BY <3>2 DEF InFlight, NoJob
    <3>. QED  BY <2>2, <3>3 DEF SInv
  <2>9. CASE MapSegment(w) \/ MapFailed(w) \/ CopyChunk(w)
    <3>1. HasJob(w) /\ UNCHANGED <<reqQ, respQ, job>>
      BY <2>9 DEF MapSegment, MapFailed, CopyChunk, At, HasJob
    <3>2. reqQ = << >> /\ respQ = << >> /\ \A v \in Workers : job[v] # None => job[v] = want[p] /\ v = w
      BY <2>5, <3>1
    <3>3. InFlight(p)'  BY <1>u, <2>1, <3>1, <3>2 DEF InFlight, NoJob
    <3>. QED  BY <2>2, <3>3 DEF SInv
  <2>. QED  BY <2>3, <2>4, <2>6, <2>7, <2>8, <2>9 DEF WorkerStep
<1>. QED  BY <1>1, <1>2

(***************************************************************************)
(* The steps of the handler: each keeps the invariant and is a step of the *)
(* FileService or invisible there.                                         *)
(***************************************************************************)
FileStep == File!Next \/ UNCHANGED File!vars

LEMMA AcceptStep ==
    ASSUME NEW p \in Proxies, IInv, SInv(p), Accept(p)
    PROVE  SInv(p)' /\ FileStep
<1>t. TypeOK  BY DEF IInv
<1>1. pc[p] = "idle" /\ pc' = [pc EXCEPT ![p] = "send"]
  BY DEF Accept
<1>2. UNCHANGED <<status, hlen, body, ret, reqQ, respQ, job>>
  BY DEF Accept, reply, server
<1>3. want[p] = None  BY <1>1 DEF IInv, Assigned
<1>4. PICK f \in Paths : want' = [want EXCEPT ![p] = f]  BY DEF Accept
<1>5. File!Ask(p, f)  BY <1>2, <1>3, <1>4 DEF File!Ask
<1>6. reqQ = << >> /\ respQ = << >> /\ NoJob  BY <1>1 DEF SInv, InFlight
<1>7. pc'[p] = "send"  BY <1>t, <1>1 DEF TypeOK
<1>8. InFlight(p)'  BY <1>2, <1>6, <1>7 DEF InFlight, NoJob
<1>9. Progress(p)'  BY <1>1, <1>2, <1>7 DEF SInv, Progress
<1>. QED  BY <1>5, <1>8, <1>9 DEF SInv, FileStep, File!Next

LEMMA SendRequestStep ==
    ASSUME NEW p \in Proxies, IInv, SInv(p), SendRequest(p)
    PROVE  SInv(p)' /\ FileStep
<1>t. TypeOK  BY DEF IInv
<1>1. pc[p] = "send" /\ pc'[p] = "recv"
  BY <1>t DEF SendRequest, TypeOK
<1>2. UNCHANGED <<want, status, hlen, body, ret, respQ, job>>
  BY DEF SendRequest, reply, server
<1>3. reqQ = << >> /\ respQ = << >> /\ NoJob  BY <1>1 DEF SInv, InFlight
<1>4. reqQ' = <<want[p]>>  BY <1>3 DEF SendRequest
<1>5. Tail(reqQ') = << >> /\ Head(reqQ') = want[p]  BY <1>4
<1>6. InFlight(p)'  BY <1>1, <1>2, <1>3, <1>5 DEF InFlight, NoJob
<1>7. Progress(p)'  BY <1>1, <1>2 DEF SInv, Progress
<1>8. UNCHANGED File!vars  BY <1>2 DEF File!vars
<1>. QED  BY <1>6, <1>7, <1>8 DEF SInv, FileStep

\* The reply a waiting handler takes answers its own request.
LEMMA TakeReply ==
    ASSUME NEW p \in Proxies, IInv, SInv(p), pc[p] = "recv", respQ # << >>
    PROVE  /\ Tail(respQ) = << >> /\ reqQ = << >> /\ NoJob
           /\ Answers(Head(respQ), want[p])
           /\ want[p] # None /\ status[p] = "none" /\ hlen[p] = 0
           /\ body[p] = << >> /\ ret[p] = "none"
           /\ IsLength(Head(respQ)) <=> want[p] \in Cached
<1>1. /\ Tail(respQ) = << >> /\ reqQ = << >> /\ NoJob
      /\ Answers(Head(respQ), want[p])
  BY DEF SInv, InFlight
<1>2. want[p] # None  BY DEF IInv, Assigned
<1>3. status[p] = "none" /\ hlen[p] = 0 /\ body[p] = << >> /\ ret[p] = "none"
  BY DEF SInv, Progress
<1>4. IsLength(Head(respQ)) <=> want[p] \in Cached
  BY <1>1, ConstantsAssumption DEF Answers, IsLength
<1>. QED  BY <1>1, <1>2, <1>3, <1>4

LEMMA ReceiveNotFoundStep ==
    ASSUME NEW p \in Proxies, IInv, SInv(p), ReceiveNotFound(p)
    PROVE  SInv(p)' /\ FileStep
<1>t. TypeOK  BY DEF IInv
<1>1. pc[p] = "recv" /\ respQ # << >> /\ ~IsLength(Head(respQ))  BY DEF ReceiveNotFound
<1>2. /\ pc'[p] = "done" /\ ret'[p] = "ok" /\ respQ' = Tail(respQ)
      /\ UNCHANGED <<reqQ, job>>
  BY <1>t DEF ReceiveNotFound, TypeOK, Received, server
<1>3. InFlight(p)'  BY <1>1, <1>2, TakeReply DEF InFlight, NoJob
<1>4. Progress(p)'  BY <1>2 DEF Progress
<1>5. File!Refuse(p)
  <2>1. File!Serving(p, "none") /\ want[p] \notin Cached
    BY <1>1, TakeReply DEF File!Serving
  <2>. QED  BY <2>1 DEF File!Refuse, ReceiveNotFound
<1>. QED  BY <1>3, <1>4, <1>5 DEF SInv, FileStep, File!Next

LEMMA ReceiveLengthStep ==
    ASSUME NEW p \in Proxies, Alone(p), IInv, SInv(p), ReceiveLength(p)
    PROVE  SInv(p)' /\ FileStep
<1>t. TypeOK  BY DEF IInv
<1>1. pc[p] = "recv" /\ respQ # << >> /\ IsLength(Head(respQ))  BY DEF ReceiveLength
<1>2. want[p] \in Cached /\ want[p] # None /\ Whole(want[p])
      /\ Head(respQ).len = Size[want[p]]
  BY <1>1, TakeReply DEF Answers
<1>3. Size[want[p]] \in Nat /\ Size[want[p]] <= IntMax
  BY <1>2, ConstantsAssumption DEF Alone
<1>4. AsSizeT(Size[want[p]]) = Size[want[p]]
  BY <1>3, SizeTType, ConstantsAssumption
<1>5. /\ hlen' = [hlen EXCEPT ![p] = Size[want[p]]]
      /\ status' = [status EXCEPT ![p] = "OK"]
      /\ respQ' = Tail(respQ)
      /\ UNCHANGED <<want, body, reqQ, job, shm>>
      /\ \/ pc' = [pc EXCEPT ![p] = "stream"] /\ ret' = ret
         \/ /\ pc' = [pc EXCEPT ![p] = "done"]
            /\ ret' = [ret EXCEPT ![p] = IF Size[want[p]] = 0 THEN "ok" ELSE "fail"]
  BY <1>2, <1>4 DEF ReceiveLength, Received, server
<1>6. /\ Tail(respQ) = << >> /\ reqQ = << >> /\ NoJob /\ ret[p] = "none"
      /\ status[p] = "none" /\ body[p] = << >>
  BY <1>1, TakeReply
<1>7. InFlight(p)'
  BY <1>5, <1>6 DEF InFlight, NoJob
<1>8. Progress(p)'
  <2>1. CASE pc' = [pc EXCEPT ![p] = "stream"] /\ ret' = ret
    <3>1. /\ pc'[p] = "stream" /\ want'[p] = want[p] /\ status'[p] = "OK"
          /\ ret'[p] = "none" /\ hlen'[p] = Size[want[p]] /\ body'[p] = << >>
      BY <1>t, <1>5, <1>6, <2>1 DEF TypeOK
    <3>2. Len(body'[p]) = 0  BY <3>1
    <3>. QED  BY <1>2, <1>3, <1>5, <3>1, <3>2 DEF Progress, Whole
  <2>2. CASE /\ pc' = [pc EXCEPT ![p] = "done"]
             /\ ret' = [ret EXCEPT ![p] = IF Size[want[p]] = 0 THEN "ok" ELSE "fail"]
    <3>1. pc'[p] = "done" /\ ret'[p] \in {"ok", "fail"}  BY <1>t, <2>2 DEF TypeOK
    <3>. QED  BY <3>1 DEF Progress
  <2>. QED  BY <1>5, <2>1, <2>2
<1>9. File!Announce(p)
  <2>1. File!Serving(p, "none")  BY <1>2, <1>6 DEF File!Serving
  <2>. QED  BY <1>2, <1>5, <2>1 DEF File!Announce
<1>. QED  BY <1>7, <1>8, <1>9 DEF SInv, FileStep, File!Next

\* A streaming handler is past its reply: the cache has nothing of it left.
LEMMA Streaming ==
    ASSUME NEW p \in Proxies, IInv, SInv(p), pc[p] = "stream"
    PROVE  /\ want[p] \in Cached /\ want[p] # None /\ Size[want[p]] \in Nat
           /\ status[p] = "OK" /\ ret[p] = "none"
           /\ hlen[p] = Size[want[p]] /\ Whole(want[p])
           /\ Len(body[p]) <= Size[want[p]]
           /\ \A i \in 1..Len(body[p]) : body[p][i] = want[p]
           /\ File!Serving(p, "OK")
<1>1. /\ want[p] \in Cached /\ status[p] = "OK" /\ ret[p] = "none"
      /\ hlen[p] = Size[want[p]] /\ Whole(want[p])
      /\ Len(body[p]) <= Size[want[p]]
      /\ \A i \in 1..Len(body[p]) : body[p][i] = want[p]
  BY DEF SInv, Progress
<1>2. want[p] # None  BY DEF IInv, Assigned
<1>3. Size[want[p]] \in Nat  BY <1>1, ConstantsAssumption
<1>. QED  BY <1>1, <1>2, <1>3 DEF File!Serving

LEMMA StreamChunkStep ==
    ASSUME NEW p \in Proxies, IInv, SInv(p), StreamChunk(p)
    PROVE  SInv(p)' /\ FileStep
<1>t. TypeOK  BY DEF IInv
<1>1. /\ pc[p] = "stream" /\ Len(body[p]) < hlen[p]
      /\ body' = [body EXCEPT ![p] = Extended(body[p], shm)]
      /\ UNCHANGED <<pc, want, status, hlen, ret, reqQ, respQ, job, shm>>
  BY DEF StreamChunk, server
<1> DEFINE f == want[p]
           new == Extended(body[p], shm)
<1>2. body[p] \in Seq(Cell) /\ shm \in Seq(Cell)  BY <1>t DEF TypeOK, Cell
<1>3. /\ f \in Cached /\ Size[f] \in Nat /\ hlen[p] = Size[f] /\ Whole(f)
      /\ \A i \in 1..Len(body[p]) : body[p][i] = f
  BY <1>1, Streaming
<1>4. Len(shm) = Size[f] /\ \A i \in 1..Len(shm) : shm[i] = f
  BY <1>1, <1>2, <1>3 DEF Whole
<1>5. /\ new \in Seq(Cell) /\ Len(new) = ChunkEnd(Len(body[p]), Len(shm))
      /\ \A i \in 1..Len(new) : new[i] = IF i <= Len(body[p]) THEN body[p][i] ELSE shm[i]
  BY <1>2, ExtendedType, ConstantsAssumption
<1>6. Len(body[p]) <= Len(new) /\ Len(new) <= Size[f]
  <2>1. Len(body[p]) \in Nat /\ Len(shm) \in Nat  BY <1>2
  <2>2. Len(body[p]) < Len(shm)  BY <1>1, <1>3, <1>4
  <2>3. /\ ChunkEnd(Len(body[p]), Len(shm)) \in Nat
        /\ ChunkEnd(Len(body[p]), Len(shm)) <= Len(shm)
        /\ Len(body[p]) < ChunkEnd(Len(body[p]), Len(shm))
    BY <2>1, <2>2, ChunkEndType, ConstantsAssumption
  <2>4. Len(new) = ChunkEnd(Len(body[p]), Len(shm))  BY <1>5
  <2> HIDE DEF new
  <2>. QED  BY <1>4, <2>1, <2>3, <2>4
<1> HIDE DEF new
<1>7. \A i \in 1..Len(new) : new[i] = f
  <2>1. Len(new) \in Nat /\ Len(body[p]) \in Nat /\ Len(shm) \in Nat  BY <1>2, <1>5
  <2>. QED  BY <1>3, <1>4, <1>5, <1>6, <2>1
<1>8. new = [i \in 1..Len(new) |-> f]
  BY <1>5, <1>7
<1>9. body'[p] = new  BY <1>t, <1>1 DEF new, TypeOK
<1>10. Progress(p)'
  BY <1>1, <1>3, <1>6, <1>7, <1>9, Streaming DEF Progress, Whole
<1>11. InFlight(p)'
  BY <1>1 DEF SInv, InFlight, NoJob, Answers, Whole
<1>12. File!Deliver(p)
  <2>1. Len(new) \in Len(body[p]) .. Size[f]
    BY <1>2, <1>3, <1>5, <1>6
  <2>2. body' = [body EXCEPT ![p] = [i \in 1..Len(new) |-> f]]
    BY <1>1, <1>8 DEF new
  <2>. QED  BY <1>1, <2>1, <2>2, Streaming DEF File!Deliver
<1>. QED  BY <1>10, <1>11, <1>12 DEF SInv, FileStep, File!Next

LEMMA StreamEndStep ==
    ASSUME NEW p \in Proxies, IInv, SInv(p), StreamFail(p) \/ StreamDone(p)
    PROVE  SInv(p)' /\ FileStep
<1>t. TypeOK  BY DEF IInv
<1>1. /\ pc[p] = "stream"
      /\ pc' = [pc EXCEPT ![p] = "done"]
      /\ UNCHANGED <<want, status, hlen, body, reqQ, respQ, job, shm>>
  BY DEF StreamFail, StreamDone, server
<1>2. PICK r \in {"ok", "fail"} :
         /\ ret' = [ret EXCEPT ![p] = r]
         /\ r = "ok" => Len(body[p]) >= hlen[p]
  BY DEF StreamFail, StreamDone
<1>3. pc'[p] = "done" /\ ret'[p] # "none"  BY <1>t, <1>1, <1>2 DEF TypeOK
<1>4. Progress(p)'  BY <1>3 DEF Progress
<1>5. InFlight(p)'  BY <1>1, <1>3 DEF SInv, InFlight, NoJob
<1>6. r = "ok" => Len(body[p]) = Size[want[p]]
  <2>1. Len(body[p]) \in Nat  BY <1>t DEF TypeOK
  <2>. QED  BY <1>1, <1>2, <2>1, Streaming
<1>7. File!Finish(p)
  BY <1>1, <1>2, <1>6, Streaming DEF File!Finish
<1>. QED  BY <1>4, <1>5, <1>7 DEF SInv, FileStep, File!Next

LEMMA ReturnStep ==
    ASSUME NEW p \in Proxies, IInv, SInv(p), Return(p)
    PROVE  SInv(p)' /\ FileStep
<1>t. TypeOK  BY DEF IInv
<1>1. pc[p] = "done" /\ ret[p] # "none"  BY DEF Return, SInv, Progress
<1>2. /\ pc'[p] = "idle" /\ status'[p] = "none" /\ hlen'[p] = 0
      /\ body'[p] = << >> /\ ret'[p] = "none"
      /\ UNCHANGED <<reqQ, respQ, job>>
  BY <1>t DEF Return, TypeOK, server
<1>3. Progress(p)'  BY <1>2 DEF Progress
<1>4. InFlight(p)'  BY <1>1, <1>2 DEF SInv, InFlight, NoJob
<1>5. File!Close(p)  BY <1>1 DEF Return, File!Close
<1>. QED  BY <1>3, <1>4, <1>5 DEF SInv, FileStep, File!Next

\* Every step of a lone handler or of a worker keeps the invariant and is a step
\* of the FileService, or leaves what the client sees as it was.
LEMMA SerialStep ==
    ASSUME NEW p \in Proxies, Alone(p), IInv, CopyInPlace, SInv(p), [Next]_vars
    PROVE  SInv(p)' /\ FileStep
<1>1. CASE Accept(p) \/ HandlerStep(p)
  BY <1>1, AcceptStep, SendRequestStep, ReceiveNotFoundStep, ReceiveLengthStep,
     StreamChunkStep, StreamEndStep, ReturnStep DEF HandlerStep
<1>2. ASSUME NEW w \in Workers, WorkerStep(w) \/ ReadError(w) PROVE SInv(p)' /\ FileStep
  <2>1. SInv(p)'  BY <1>2, WorkerSInv
  <2>2. UNCHANGED client  BY <1>2, WorkerClient
  <2>3. UNCHANGED File!vars  BY <2>2 DEF client, reply, File!vars
  <2>. QED  BY <2>1, <2>3 DEF FileStep
<1>3. CASE UNCHANGED vars
  <2>1. SInv(p)'
    BY <1>3 DEF vars, client, server, reply, SInv, InFlight, Progress, NoJob, Answers, Whole
  <2>2. UNCHANGED File!vars  BY <1>3 DEF vars, client, reply, File!vars
  <2>. QED  BY <2>1, <2>2 DEF FileStep
<1>. QED  BY <1>1, <1>2, <1>3 DEF Next, Alone

\* With one handler thread and no file beyond INT_MAX a client is sent the true
\* header and its own file, however many workers and whatever fails
\* (handle_with_cache.c:56-132, simplecached.c:99-213).
THEOREM SerialImplements ==
    ASSUME NEW p \in Proxies, Alone(p)
    PROVE  Spec => FileServiceSpec
<1>1. Init => SInv(p) /\ CopyInPlace /\ File!Init
  <2>1. Init => SInv(p)  BY InitSInv
  <2>2. Init => CopyInPlace  BY DEF Init, CopyInPlace
  <2>3. Init => File!Init  BY DEF Init, File!Init
  <2>. QED  BY <2>1, <2>2, <2>3
<1>2. IInv /\ CopyInPlace /\ SInv(p) /\ [Next]_vars
         => SInv(p)' /\ CopyInPlace' /\ [File!Next]_File!vars
  BY SerialStep, CopyStep DEF FileStep
<1>. QED  BY <1>1, <1>2, Invariant, PTL DEF Spec, FileServiceSpec, File!Spec
===============================================================================
