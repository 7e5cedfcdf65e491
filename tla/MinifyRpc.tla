----------------------------- MODULE MinifyRpc -----------------------------
(***************************************************************************)
(* The two sides of gios-spr-2018-pr4-master/rpc_mt and the calls between  *)
(* them: minifyjpeg_main with its worker threads, each on a connection of  *)
(* its own, the 5 s timeout of minify_via_rpc, and the server's transports,*)
(* which the boss reads and the workers answer on.  MinifyServer has the   *)
(* loads and stores of the server's queue; here an enqueue and a pop each  *)
(* begin and end, and once two of them have overlapped the queue may lose  *)
(* requests or end the server, as MinifyServer's may.                      *)
(***************************************************************************)
EXTENDS Integers, Sequences, FiniteSets, SequencesExt

CONSTANTS
    Threads,        \* -t of the client, in the order they are created: 1..n
    Workload,       \* the input files of the workload file, each once
    MayMiss,        \* those that may not be there
    MayRefuse,      \* those whose output file may not be writable
    Workers,        \* -t of the server
    None

Files == Range(Workload)
Thread == 1..Threads

\* RPC_SUCCESS, CANTRECV, TIMEDOUT, CANTDECODEARGS and SYSTEMERROR
Codes == {0, 4, 5, 11, 12}

CallMsg == [xid : Nat, file : Files]
\* RPC_SUCCESS, RPC_CANTDECODEARGS and RPC_SYSTEMERROR
ReplyMsg == [xid : Nat, stat : {0, 11, 12}, file : Files]
WorkItem == [transp : Thread, file : Files]

ASSUME RpcAssumption ==
    /\ Threads \in Nat \ {0} /\ IsFiniteSet(Workers)
    /\ Workload \in Seq(Files) /\ IsInjective(Workload)
    /\ MayMiss \cup MayRefuse \subseteq Files
    /\ None \notin Files /\ None \notin WorkItem /\ None \notin Workers

VARIABLES
    missing, refused, \* input files that are not there, output files not writable
    queue,            \* requests not yet taken
    created, joined,  \* threads main has created, and joined
    pc, req, code,    \* a thread: where it is, its last request, *code
    result, exit,     \* main's code; how the process ended
    output, owner,    \* the image in each output file; who took the request
    late,             \* history: threads one of whose calls timed out
    erred,            \* history: those that were answered with an error
    up, down, calls,  \* each connection: calls, replies, the last xid
    alive,            \* the server process
    xid,              \* the x_id in each transport: of the last call received
    freed,            \* transports the server has destroyed
    workqueue, job,   \* its queue, and what a worker has
    adding, popping,  \* the request the boss is enqueuing; the worker in pop
    damaged           \* history: a pop and an enqueue have overlapped

main == <<created, joined, result>>
client == <<queue, main, pc, req, code, exit, output, owner, late, erred>>
wire == <<up, down, calls>>
steque == <<workqueue, job, adding, popping, damaged>>
server == <<alive, xid, freed, steque>>
disk == <<missing, refused>>
vars == <<disk, client, wire, server>>

Init ==
    /\ missing \in SUBSET MayMiss /\ refused \in SUBSET MayRefuse
    /\ queue = Workload /\ created = 0 /\ joined = 0
    /\ pc = [t \in Thread |-> "new"] /\ req = [t \in Thread |-> None]
    /\ code = [t \in Thread |-> 0] /\ result = 0 /\ exit = "running"
    /\ output = [f \in Files |-> None] /\ owner = [f \in Files |-> 0]
    /\ late = {} /\ erred = {}
    /\ up = [t \in Thread |-> << >>] /\ down = [t \in Thread |-> << >>]
    /\ calls = [t \in Thread |-> 0]
    /\ alive = TRUE /\ xid = [t \in Thread |-> 0] /\ freed = {}
    /\ workqueue = << >> /\ job = [w \in Workers |-> None]
    /\ adding = None /\ popping = None /\ damaged = FALSE

-----------------------------------------------------------------------------
(* minifyjpeg_main                                                         *)

At(t, l) == exit = "running" /\ pc[t] = l
Go(t, l) == pc' = [pc EXCEPT ![t] = l]

\* The process ends from whatever thread, and every connection with it.
Exits(how) ==
    /\ exit' = how
    /\ UNCHANGED <<queue, created, joined, result, pc, req, code, output, owner, late, erred, wire, server>>

\* get_minify_client and pthread_create; without a server, exit(1).
Create ==
    /\ exit = "running" /\ created < Threads /\ alive
    /\ created' = created + 1 /\ Go(created + 1, "top")
    /\ UNCHANGED <<queue, joined, result, req, code, exit, output, owner, late, erred, wire, server>>

CreateFails == exit = "running" /\ created < Threads /\ ~alive /\ Exits("failure")

\* The queue is looked at and popped under the mutex.
Take(t) ==
    /\ At(t, "top") /\ queue # << >>
    /\ queue' = Tail(queue) /\ req' = [req EXCEPT ![t] = Head(queue)]
    /\ owner' = [owner EXCEPT ![Head(queue)] = t]
    /\ Go(t, "read")
    /\ UNCHANGED <<main, code, exit, output, late, erred, wire, server>>

Leave(t) ==
    /\ At(t, "top") /\ queue = << >> /\ Go(t, "ended")
    /\ UNCHANGED <<queue, main, req, code, exit, output, owner, late, erred, wire, server>>

\* read_from_file exits for all threads when one file is missing.
ReadFails(t) == At(t, "read") /\ req[t] \in missing /\ Exits("failure")

\* clnt_call: the call goes out with a new xid.
Call(t) ==
    /\ At(t, "read") /\ req[t] \notin missing
    /\ calls' = [calls EXCEPT ![t] = @ + 1]
    /\ up' = [up EXCEPT ![t] = Append(@, [xid |-> calls[t] + 1, file |-> req[t]])]
    /\ Go(t, "wait")
    /\ UNCHANGED <<queue, main, req, code, exit, output, owner, late, erred, down, server>>

\* What minify_via_rpc returns is this thread's *code from now on.
Returns(t, c) ==
    /\ code' = [code EXCEPT ![t] = c] /\ Go(t, "top")
    /\ UNCHANGED <<queue, main, req, exit, owner, calls, server>>

ReplyTo(t) == Head(down[t]).xid = calls[t]
Receive(t) == down' = [down EXCEPT ![t] = Tail(@)] /\ UNCHANGED up

\* write_to_file, whose result nobody looks at.
WriteToFile(f, image) ==
    IF f \in refused THEN output ELSE [output EXCEPT ![f] = image]

\* The reply with the xid of the call: its image is written, or not.
Reply(t) ==
    /\ At(t, "wait") /\ down[t] # << >> /\ ReplyTo(t) /\ Head(down[t]).stat = 0
    /\ Receive(t)
    /\ output' = WriteToFile(req[t], Head(down[t]).file)
    /\ Returns(t, 0) /\ UNCHANGED <<late, erred>>

\* Or it is an error, which minify_via_rpc returns and nothing is written.
ErrorReply(t) ==
    /\ At(t, "wait") /\ down[t] # << >> /\ ReplyTo(t) /\ Head(down[t]).stat # 0
    /\ Receive(t)
    /\ Returns(t, Head(down[t]).stat)
    /\ erred' = erred \cup {t} /\ UNCHANGED <<output, late>>

\* Any other reply is read over.
SkipReply(t) ==
    /\ At(t, "wait") /\ down[t] # << >> /\ ~ReplyTo(t)
    /\ Receive(t)
    /\ UNCHANGED <<client, calls, server>>

\* Mutant: the call waits for ever.
WaitForEver(t) == At(t, "wait") /\ FALSE

\* RPC_TIMEDOUT, and nothing is written.
Timeout(t) ==
    /\ At(t, "wait")
    /\ Returns(t, 5) /\ late' = late \cup {t}
    /\ UNCHANGED <<output, erred, up, down>>

\* RPC_CANTRECV from a server that has died; the next call to it is a SIGPIPE.
Disconnected(t) ==
    /\ At(t, "wait") /\ ~alive /\ down[t] = << >>
    /\ \/ Returns(t, 4) /\ UNCHANGED <<output, late, erred, up, down>>
       \/ Exits("killed")

\* Mutants: the threads are not waited for; the last return value counts.
JoinAtOnce ==
    /\ exit = "running" /\ created = Threads /\ joined < Threads
    /\ joined' = joined + 1
    /\ result' = IF result = 0 THEN code[joined + 1] ELSE result
    /\ UNCHANGED <<queue, created, pc, req, code, exit, output, owner, late, erred, wire, server>>
JoinLast ==
    /\ exit = "running" /\ created = Threads /\ joined < Threads
    /\ pc[joined + 1] = "ended"
    /\ joined' = joined + 1 /\ result' = code[joined + 1]
    /\ UNCHANGED <<queue, created, pc, req, code, exit, output, owner, late, erred, wire, server>>
JoinEarly ==
    /\ exit = "running" /\ joined < Threads
    /\ joined' = joined + 1
    /\ result' = IF result = 0 THEN code[joined + 1] ELSE result
    /\ UNCHANGED <<queue, created, pc, req, code, exit, output, owner, late, erred, wire, server>>

\* main joins the threads in order; after the first that failed it only waits.
Join ==
    /\ exit = "running" /\ created = Threads /\ joined < Threads
    /\ pc[joined + 1] = "ended"
    /\ joined' = joined + 1
    /\ result' = IF result = 0 THEN code[joined + 1] ELSE result
    /\ UNCHANGED <<queue, created, pc, req, code, exit, output, owner, late, erred, wire, server>>

Finish ==
    /\ exit = "running" /\ joined = Threads
    /\ Exits(IF result = 0 THEN "success" ELSE "failure")

ThreadStep(t) ==
    \/ Take(t) \/ Leave(t) \/ ReadFails(t) \/ Call(t)
    \/ Reply(t) \/ ErrorReply(t) \/ SkipReply(t) \/ Timeout(t) \/ Disconnected(t)

MainStep == Create \/ CreateFails \/ Join \/ Finish

-----------------------------------------------------------------------------
(* minifyjpeg_svc                                                          *)

\* clnt_destroy of a joined thread's connection, or the end of the process.
Closed(t) == exit # "running" \/ t <= joined

\* A reply goes out unless the client has closed.
SendReply(t, x, stat, f) ==
    down' = IF Closed(t) THEN down
            ELSE [down EXCEPT ![t] = Append(@, [xid |-> x, stat |-> stat, file |-> f])]

\* svc_run receives a call and the transport keeps its xid.  The boss begins to
\* enqueue it, without the mutex; or svc_getargs fails and it answers an error.
BossReceives(t) ==
    /\ alive /\ adding = None /\ up[t] # << >>
    /\ up' = [up EXCEPT ![t] = Tail(@)]
    /\ xid' = [xid EXCEPT ![t] = Head(up[t]).xid]
    /\ \/ /\ adding' = [transp |-> t, file |-> Head(up[t]).file]
          /\ damaged' = (damaged \/ popping # None)
          /\ UNCHANGED down
       \/ /\ SendReply(t, Head(up[t]).xid, 11, Head(up[t]).file)
          /\ UNCHANGED <<adding, damaged>>
    /\ UNCHANGED <<client, calls, alive, freed, workqueue, job, popping>>

\* The last store of steque_enqueue, N++: workers see the request.
BossAdds ==
    /\ alive /\ adding # None
    /\ workqueue' = Append(workqueue, adding) /\ adding' = None
    /\ UNCHANGED <<client, wire, alive, xid, freed, job, popping, damaged>>

\* svc_run destroys the transport of a client that has closed, whatever the
\* workers still have to answer on it.
BossFrees(t) ==
    /\ alive /\ adding = None
    /\ Closed(t) /\ t <= created /\ up[t] = << >> /\ t \notin freed
    /\ freed' = freed \cup {t}
    /\ UNCHANGED <<client, wire, alive, xid, steque>>

\* Mutant: the request is read and not taken off the queue.
WorkerLooks(w) ==
    /\ alive /\ popping = None /\ job[w] = None /\ workqueue # << >>
    /\ job' = [job EXCEPT ![w] = Head(workqueue)]
    /\ popping' = w /\ damaged' = (damaged \/ adding # None)
    /\ UNCHANGED <<client, wire, alive, xid, freed, workqueue, adding>>

\* A worker that has the mutex and sees the queue not empty pops it.
WorkerTakes(w) ==
    /\ alive /\ popping = None /\ job[w] = None /\ workqueue # << >>
    /\ job' = [job EXCEPT ![w] = Head(workqueue)] /\ workqueue' = Tail(workqueue)
    /\ popping' = w /\ damaged' = (damaged \/ adding # None)
    /\ UNCHANGED <<client, wire, alive, xid, freed, adding>>

WorkerUnlocks(w) ==
    /\ alive /\ popping = w /\ popping' = None
    /\ UNCHANGED <<client, wire, alive, xid, freed, workqueue, job, adding, damaged>>

\* What pop and enqueue left behind: a request without a node that leads to
\* it, or a count that leads pop to no node.
RequestLost ==
    /\ alive /\ damaged
    /\ \E i \in DOMAIN workqueue : workqueue' = RemoveAt(workqueue, i)
    /\ UNCHANGED <<client, wire, alive, xid, freed, job, adding, popping, damaged>>

StequeEnds ==
    /\ alive /\ damaged /\ alive' = FALSE
    /\ UNCHANGED <<client, wire, xid, freed, steque>>

Works(w) == alive /\ job[w] # None /\ popping # w

\* Mutant: any transport that is open will do.
AnswersAnywhere(w) ==
    /\ Works(w) /\ job[w].transp \notin freed
    /\ \E s \in Thread : SendReply(s, xid[s], 0, job[w].file)
    /\ job' = [job EXCEPT ![w] = None]
    /\ UNCHANGED <<client, up, calls, alive, xid, freed, workqueue, adding, popping, damaged>>

\* svc_sendreply, or svcerr_systemerr after it failed: on a transport, with
\* the xid that is in it now.
WorkerAnswers(w) ==
    /\ Works(w) /\ job[w].transp \notin freed
    /\ LET t == job[w].transp IN \E stat \in {0, 12} : SendReply(t, xid[t], stat, job[w].file)
    /\ job' = [job EXCEPT ![w] = None]
    /\ UNCHANGED <<client, up, calls, alive, xid, freed, workqueue, adding, popping, damaged>>

\* On one that has been freed the reply is lost, or the access ends the server.
AnswersFreed(w) ==
    /\ Works(w) /\ job[w].transp \in freed
    /\ alive' \in BOOLEAN
    /\ job' = [job EXCEPT ![w] = None]
    /\ UNCHANGED <<client, wire, xid, freed, workqueue, adding, popping, damaged>>

\* magickminify ends the server on an image it cannot read.
BadImage(w) ==
    /\ Works(w) /\ alive' = FALSE
    /\ UNCHANGED <<client, wire, xid, freed, steque>>

ServerStep ==
    \/ \E t \in Thread : BossReceives(t) \/ BossFrees(t)
    \/ \E w \in Workers : WorkerTakes(w) \/ WorkerUnlocks(w) \/ WorkerAnswers(w) \/ AnswersFreed(w)
    \/ BossAdds \/ RequestLost \/ StequeEnds

-----------------------------------------------------------------------------
Next ==
    /\ \/ MainStep \/ \E t \in Thread : ThreadStep(t)
       \/ ServerStep \/ \E w \in Workers : BadImage(w)
    /\ UNCHANGED disk

Spec == Init /\ [][Next]_vars

\* Client threads run and 5 s pass; nothing is asked of the server.
FairSpec ==
    /\ Spec
    /\ WF_vars(MainStep /\ UNCHANGED disk)
    /\ \A t \in Thread : WF_vars(ThreadStep(t) /\ UNCHANGED disk)

-----------------------------------------------------------------------------
\* Every variable has its type, and main joins only what it created.
TypeOK ==
    /\ queue \in Seq(Files) /\ joined <= created /\ created <= Threads
    /\ pc \in [Thread -> {"new", "top", "read", "wait", "ended"}]
    /\ req \in [Thread -> Files \cup {None}] /\ code \in [Thread -> Codes]
    /\ exit \in {"running", "success", "failure", "killed"}
    /\ output \in [Files -> Files \cup {None}] /\ owner \in [Files -> 0..Threads]
    /\ up \in [Thread -> Seq(CallMsg)] /\ down \in [Thread -> Seq(ReplyMsg)]
    /\ \A t \in Thread : xid[t] <= calls[t]
    /\ freed \subseteq Thread /\ workqueue \in Seq(WorkItem)
    /\ job \in [Workers -> WorkItem \cup {None}]
    /\ adding \in WorkItem \cup {None} /\ popping \in Workers \cup {None}
    /\ (adding # None /\ popping # None => damaged)

\* An output file is the reduction of its own input, unless an earlier call on
\* that connection timed out: the late answer to it then goes out with the xid
\* of the later call, which takes it for its own.
OutputIsOwn ==
    \A f \in Files : output[f] \in {None, f} \/ owner[f] \in late

\* The server answers on a transport it has freed only for a client that gave
\* up a call or did not end in order.
TransportOutlivesCall ==
    \A w \in Workers : job[w] # None /\ job[w].transp \in freed =>
        job[w].transp \in late \/ (exit # "running" /\ joined < Threads)

\* Where a call of thread t is in the server's queue, who works on one, and
\* whether the boss is adding one.
Queued(t) == {i \in DOMAIN workqueue : workqueue[i].transp = t}
Working(t) == {w \in Workers : job[w] # None /\ job[w].transp = t}
Adding(t) == IF adding # None /\ adding.transp = t THEN 1 ELSE 0

\* The calls of thread t that are on their way, there or back.
UnderWay(t) ==
    Len(up[t]) + Adding(t) + Cardinality(Queued(t)) + Cardinality(Working(t)) + Len(down[t])

\* As long as none of its calls timed out, what a thread waits for is on its
\* way at most once, whatever pop and enqueue did to the queue, and otherwise
\* nothing is.  It is on its way unless they once overlapped: then the queue
\* may have lost it.
OneAnswerPerCall ==
    \A t \in Thread : alive /\ exit = "running" /\ t \notin late =>
        /\ UnderWay(t) <= (IF pc[t] = "wait" THEN 1 ELSE 0)
        /\ pc[t] = "wait" /\ ~damaged => UnderWay(t) = 1

\* "If any of the threads returns a value greater than 0" (minifyjpeg_main.c:196)
\* main returns it: success means that no thread's last image is missing
\* that could be written.  A failure has a cause: a file that is missing, a
\* server that ended, a call that timed out or was answered with an error.
SuccessIsOfAll ==
    /\ exit = "success" =>
          queue = << >> /\ \A t \in Thread : req[t] \in Files \ refused => output[req[t]] # None
    /\ exit = "failure" => missing # {} \/ ~alive \/ late # {} \/ erred # {}

\* Whatever the server does, the client ends.
EveryRunEnds == <>(exit # "running")
=============================================================================
