--------------------------- MODULE ProxyHandlers ---------------------------
(***************************************************************************)
(* The handlers of gios-spr-2018-pr3-master/server: handle_with_curl, which*)
(* webproxy registers, and the handle_with_file it replaced.  Threads of   *)
(* the library call either; they share libcurl's global state and the      *)
(* descriptors of the process.  A body is a sequence of cells, each named  *)
(* for the path it belongs to.                                             *)
(***************************************************************************)
EXTENDS Integers, Sequences, FiniteSets, SequencesExt

CONSTANTS
    CurlThreads, FileThreads,  \* threads of the library, by their handler
    Paths,
    Exists,                    \* those the web server, and the directory, has
    Known,                     \* those it answers with a Content-Length, with
                               \* the file or with an error page
    Size,                      \* cells of what it answers, and of the file
    Chunk,                     \* BUFSIZE, and what libcurl passes to the callback
    FdLimit,                   \* descriptors the process may have
    MaxRequests, MaxFaults,    \* bounds on what happens
    None

Threads == CurlThreads \cup FileThreads

ASSUME HandlersAssumption ==
    /\ IsFiniteSet(CurlThreads) /\ CurlThreads \cap FileThreads = {}
    /\ Known \subseteq Paths /\ Exists \subseteq Paths
    /\ None \notin Paths /\ None \notin Seq(Paths \cup {None})
    /\ Size \in [Paths -> Nat]
    /\ Chunk \in Nat \ {0} /\ {FdLimit, MaxRequests, MaxFaults} \subseteq Nat

VARIABLES
    pc, want,            \* a thread: where it is, the path it serves
    status, hlen, body,  \* what its client got: header, length, cells
    ret,                 \* what its handler returned, "unset" while it runs
    buffer, size,        \* curl: output.buffer (None is NULL) and output.size
    cl, moved,           \* curl: cl; bytes_transferred of both
    failed, starved,     \* history: a transfer, a realloc of this request failed
    inits, ready,        \* libcurl: its count of initialisations, whether the
                         \* global state is set up
    loaded,              \* a thread: the count it has loaded
    met,                 \* history: two threads in libcurl's global calls at once
    fds,                 \* descriptors open for files
    accepted, faults

request == <<want, status, hlen, body, ret>>
global == <<inits, ready, loaded, met>>
curl == <<buffer, size, cl, failed, starved>>
world == <<accepted, faults>>
vars == <<pc, request, curl, global, moved, fds, world>>

Init ==
    /\ pc = [t \in Threads |-> "idle"] /\ want = [t \in Threads |-> None]
    /\ status = [t \in Threads |-> "none"] /\ hlen = [t \in Threads |-> 0]
    /\ body = [t \in Threads |-> << >>] /\ ret = [t \in Threads |-> "unset"]
    /\ buffer = [t \in Threads |-> << >>] /\ size = [t \in Threads |-> 0]
    /\ cl = [t \in Threads |-> 0] /\ moved = [t \in Threads |-> 0]
    /\ failed = {} /\ starved = {}
    /\ inits = 0 /\ ready = FALSE /\ loaded = [t \in Threads |-> 0] /\ met = FALSE
    /\ fds = 0 /\ accepted = 0 /\ faults = 0

Go(t, l) == pc' = [pc EXCEPT ![t] = l]
Least(m, n) == IF m < n THEN m ELSE n
Fault == faults < MaxFaults /\ faults' = faults + 1
Cells(f, n) == [i \in 1..n |-> f]

\* gfs_sendheader
Header(t, s, n) ==
    /\ status' = [status EXCEPT ![t] = s] /\ hlen' = [hlen EXCEPT ![t] = n]
Silent(t) == UNCHANGED <<status, hlen>>

\* return of the handler
Return(t, r) == ret' = [ret EXCEPT ![t] = r] /\ Go(t, "returned")

\* The library accepts a request and calls the thread's handler.
Accept(t) ==
    /\ pc[t] = "idle" /\ accepted < MaxRequests /\ accepted' = accepted + 1
    /\ \E f \in Paths : want' = [want EXCEPT ![t] = f]
    /\ Go(t, IF t \in CurlThreads THEN "init" ELSE "open")
    /\ UNCHANGED <<status, hlen, body, ret, curl, global, moved, fds, faults>>

\* It closes the connection, after an error message if the handler failed; the
\* handler's variables are gone.
Close(t) ==
    /\ pc[t] = "returned" /\ Go(t, "idle")
    /\ want' = [want EXCEPT ![t] = None] /\ Header(t, "none", 0)
    /\ body' = [body EXCEPT ![t] = << >>] /\ ret' = [ret EXCEPT ![t] = "unset"]
    /\ buffer' = [buffer EXCEPT ![t] = << >>] /\ size' = [size EXCEPT ![t] = 0]
    /\ cl' = [cl EXCEPT ![t] = 0] /\ moved' = [moved EXCEPT ![t] = 0]
    /\ failed' = failed \ {t} /\ starved' = starved \ {t}
    /\ UNCHANGED <<global, fds, world>>

-----------------------------------------------------------------------------
(* handle_with_curl                                                        *)

\* Between the load of the count and the end of a global call.
InGlobal(t) == pc[t] \in {"count", "setup", "uncount", "teardown"}
LoadsCount(t) ==
    /\ loaded' = [loaded EXCEPT ![t] = inits]
    /\ met' = (met \/ \E u \in Threads : InGlobal(u))

\* Mutant: curl_global_init is called unless it has been.
InitOnce(t) ==
    /\ pc[t] = "init" /\ Go(t, IF inits > 0 THEN "easy" ELSE "count") /\ LoadsCount(t)
    /\ UNCHANGED <<request, curl, inits, ready, moved, fds, world>>

\* curl_global_init counts its calls and the first sets the global state up;
\* nothing keeps the loads and stores of two threads apart.
GlobalInit(t) ==
    /\ pc[t] = "init" /\ Go(t, "count") /\ LoadsCount(t)
    /\ UNCHANGED <<request, curl, inits, ready, moved, fds, world>>

GlobalCount(t) ==
    /\ pc[t] = "count" /\ Go(t, IF loaded[t] = 0 THEN "setup" ELSE "easy")
    /\ inits' = loaded[t] + 1 /\ loaded' = [loaded EXCEPT ![t] = 0]
    /\ UNCHANGED <<request, curl, ready, met, moved, fds, world>>

GlobalSetUp(t) ==
    /\ pc[t] = "setup" /\ ready' = TRUE /\ Go(t, "easy")
    /\ UNCHANGED <<request, curl, inits, loaded, met, moved, fds, world>>

\* curl_easy_init finds the count 0: it calls curl_global_init itself.
EasyInitsGlobal(t) ==
    /\ pc[t] = "easy" /\ inits = 0 /\ Go(t, "init")
    /\ UNCHANGED <<request, curl, global, moved, fds, world>>

EasyInit(t) ==
    /\ pc[t] = "easy" /\ inits > 0
    /\ buffer' = [buffer EXCEPT ![t] = None] /\ size' = [size EXCEPT ![t] = 0]
    /\ \E x \in {0, 1} : cl' = [cl EXCEPT ![t] = x]   \* not initialised: above 0 or not
    /\ Go(t, "perform")
    /\ UNCHANGED <<request, global, moved, failed, starved, fds, world>>

\* curl_easy_init fails: bytes_transferred is returned as it is found.
EasyInitFails(t) ==
    /\ pc[t] = "easy" /\ inits > 0 /\ Fault
    /\ buffer' = [buffer EXCEPT ![t] = None] /\ size' = [size EXCEPT ![t] = 0]
    /\ \E x \in {-1, 0} : moved' = [moved EXCEPT ![t] = x]
    /\ failed' = failed \cup {t} /\ Go(t, "cleanup")
    /\ UNCHANGED <<request, cl, global, starved, fds, accepted>>

\* What libcurl has still to pass to the callback.
Passed(t) == moved[t]
Coming(t) == Size[want[t]] - Passed(t)

\* Mutant: the buffer starts afresh, the size does not.
GrownAfresh(t) == IF buffer[t] = None THEN << >> ELSE buffer[t]

\* What realloc leaves of the buffer: it was NULL after a realloc that failed.
Grown(t) == IF buffer[t] = None THEN Cells(None, size[t]) ELSE buffer[t]

\* WriteMemoryCallback: the chunk is appended, or lost with all before it.
WriteMemory(t) ==
    /\ pc[t] = "perform" /\ Coming(t) > 0
    /\ LET n == Least(Chunk, Coming(t))
       IN /\ moved' = [moved EXCEPT ![t] = @ + n]
          /\ \/ /\ buffer' = [buffer EXCEPT ![t] = Grown(t) \o Cells(want[t], n)]
                /\ size' = [size EXCEPT ![t] = @ + n]
                /\ UNCHANGED <<starved, faults>>
             \/ /\ Fault /\ starved' = starved \cup {t}
                /\ buffer' = [buffer EXCEPT ![t] = None] /\ UNCHANGED size
    /\ UNCHANGED <<pc, request, cl, failed, global, fds, accepted>>

\* Mutant: a body without a Content-Length returns before any header.
PerformedSilently(t) ==
    /\ pc[t] = "perform" /\ Coming(t) = 0
    /\ IF want[t] \in Known
          THEN /\ cl' = [cl EXCEPT ![t] = Size[want[t]]]
               /\ Header(t, "OK", Size[want[t]])
               /\ Go(t, "send") /\ UNCHANGED ret
          ELSE /\ cl' = [cl EXCEPT ![t] = -1] /\ Silent(t) /\ Return(t, "ok")
    /\ moved' = [moved EXCEPT ![t] = 0]
    /\ UNCHANGED <<want, body, buffer, size, failed, starved, global, fds, world>>

\* curl_easy_perform has returned CURLE_OK, which an error page gives too.
\* Without a Content-Length cl is -1 and "not found" the answer; handle,
\* buffer and global state are left.
Performed(t) ==
    /\ pc[t] = "perform" /\ Coming(t) = 0
    /\ IF want[t] \in Known
          THEN /\ cl' = [cl EXCEPT ![t] = Size[want[t]]]
               /\ Header(t, "OK", Size[want[t]])
               /\ Go(t, "send") /\ UNCHANGED ret
          ELSE /\ cl' = [cl EXCEPT ![t] = -1]
               /\ Header(t, "FILE_NOT_FOUND", 0) /\ Return(t, "ok")
    /\ moved' = [moved EXCEPT ![t] = 0]
    /\ UNCHANGED <<want, body, buffer, size, failed, starved, global, fds, world>>

\* curl_easy_perform fails: no header, and cl decides whether the loop fails
\* or is skipped.
PerformFails(t) ==
    /\ pc[t] = "perform" /\ Fault
    /\ failed' = failed \cup {t} /\ moved' = [moved EXCEPT ![t] = 0]
    /\ IF cl[t] > 0 THEN Return(t, "fail") ELSE Go(t, "cleanup") /\ UNCHANGED ret
    /\ Silent(t)
    /\ UNCHANGED <<want, body, buffer, size, cl, starved, global, fds, accepted>>

\* One turn of the loop: the whole buffer, whatever went before.
SendBuffer(t) ==
    /\ pc[t] = "send" /\ 0 <= moved[t] /\ moved[t] < cl[t]
    /\ size[t] = 0 \/ buffer[t] # None
    /\ body' = [body EXCEPT ![t] = IF size[t] = 0 THEN @ ELSE @ \o buffer[t]]
    /\ moved' = [moved EXCEPT ![t] = @ + size[t]]
    /\ UNCHANGED <<pc, want, status, hlen, ret, curl, global, fds, world>>

\* gfs_send gives -1, to a client that is gone or of a buffer that is NULL,
\* which is added to bytes_transferred: below 0, as a size_t, it is past cl.
SendFails(t) ==
    /\ pc[t] = "send" /\ 0 <= moved[t] /\ moved[t] < cl[t]
    /\ IF size[t] > 0 /\ buffer[t] = None THEN UNCHANGED faults ELSE Fault
    /\ moved' = [moved EXCEPT ![t] = @ - 1]
    /\ UNCHANGED <<pc, request, curl, global, fds, accepted>>

\* Mutant: the loop goes on until there is more than the length.
LoopOverruns(t) ==
    /\ pc[t] = "send" /\ (moved[t] < 0 \/ moved[t] > cl[t])
    /\ Go(t, "cleanup")
    /\ UNCHANGED <<request, curl, global, moved, fds, world>>

LoopEnds(t) ==
    /\ pc[t] = "send" /\ (moved[t] < 0 \/ moved[t] >= cl[t])
    /\ Go(t, "cleanup")
    /\ UNCHANGED <<request, curl, global, moved, fds, world>>

\* curl_easy_cleanup, free, and curl_global_cleanup, which looks at the count,
\* stores it one lower and, if that is 0, tears the global state down.
CleanUp(t) ==
    /\ pc[t] = "cleanup" /\ inits > 0 /\ Go(t, "uncount") /\ LoadsCount(t)
    /\ UNCHANGED <<request, curl, inits, ready, moved, fds, world>>

GlobalUncount(t) ==
    /\ pc[t] = "uncount" /\ Go(t, IF loaded[t] = 1 THEN "teardown" ELSE "clean")
    /\ inits' = loaded[t] - 1 /\ loaded' = [loaded EXCEPT ![t] = 0]
    /\ UNCHANGED <<request, curl, ready, met, moved, fds, world>>

GlobalTearDown(t) ==
    /\ pc[t] = "teardown" /\ ready' = FALSE /\ Go(t, "clean")
    /\ UNCHANGED <<request, curl, inits, loaded, met, moved, fds, world>>

\* return bytes_transferred, also after a curl_global_cleanup that found 0
CurlReturn(t) ==
    /\ (pc[t] = "cleanup" => inits = 0) /\ pc[t] \in {"cleanup", "clean"}
    /\ Return(t, IF moved[t] < 0 THEN "fail" ELSE "ok")
    /\ UNCHANGED <<want, status, hlen, body, curl, global, moved, fds, world>>

CurlStep(t) ==
    \/ GlobalInit(t) \/ GlobalCount(t) \/ GlobalSetUp(t)
    \/ EasyInitsGlobal(t) \/ EasyInit(t) \/ EasyInitFails(t)
    \/ WriteMemory(t) \/ Performed(t) \/ PerformFails(t)
    \/ SendBuffer(t) \/ SendFails(t) \/ LoopEnds(t)
    \/ CleanUp(t) \/ GlobalUncount(t) \/ GlobalTearDown(t) \/ CurlReturn(t)

-----------------------------------------------------------------------------
(* handle_with_file                                                        *)

\* Mutant: every failure of open is taken for ENOENT.
OpenAnyError(t) ==
    /\ pc[t] = "open"
    /\ IF fds < FdLimit /\ want[t] \in Exists
          THEN /\ fds' = fds + 1
               /\ Header(t, "OK", Size[want[t]]) /\ Go(t, "read") /\ UNCHANGED ret
          ELSE Header(t, "FILE_NOT_FOUND", 0) /\ Return(t, "ok") /\ UNCHANGED fds
    /\ UNCHANGED <<want, body, curl, global, moved, world>>

\* open: ENOENT, another error, or a descriptor; then fstat and the header.
\* No path of the handler closes the descriptor.
OpenFile(t) ==
    /\ pc[t] = "open"
    /\ \/ /\ fds < FdLimit /\ want[t] \in Exists
          /\ fds' = fds + 1
          /\ Header(t, "OK", Size[want[t]]) /\ Go(t, "read") /\ UNCHANGED ret
       \/ /\ fds < FdLimit /\ want[t] \notin Exists
          /\ Header(t, "FILE_NOT_FOUND", 0) /\ Return(t, "ok") /\ UNCHANGED fds
       \/ /\ fds >= FdLimit
          /\ Silent(t) /\ Return(t, "fail") /\ UNCHANGED fds
    /\ UNCHANGED <<want, body, curl, global, moved, world>>

StatFails(t) ==
    /\ pc[t] = "open" /\ fds < FdLimit /\ want[t] \in Exists /\ Fault
    /\ fds' = fds + 1 /\ Return(t, "fail")
    /\ UNCHANGED <<want, status, hlen, body, curl, global, moved, accepted>>

\* Mutant: whole buffers are sent, whatever read returned.
ReadBlindly(t) ==
    /\ pc[t] = "read" /\ moved[t] < hlen[t]
    /\ body' = [body EXCEPT ![t] = @ \o Cells(want[t], Chunk)]
    /\ moved' = [moved EXCEPT ![t] = @ + Chunk]
    /\ UNCHANGED <<pc, want, status, hlen, ret, curl, global, fds, world>>

\* One turn of the loop: read and gfs_send, the client being there.
ReadChunk(t) ==
    /\ pc[t] = "read" /\ moved[t] < hlen[t]
    /\ LET n == Least(Chunk, Size[want[t]] - moved[t])
       IN /\ body' = [body EXCEPT ![t] = @ \o Cells(want[t], n)]
          /\ moved' = [moved EXCEPT ![t] = @ + n]
    /\ UNCHANGED <<pc, want, status, hlen, ret, curl, global, fds, world>>

\* read fails, or gfs_send comes up short.
ReadFails(t) ==
    /\ pc[t] = "read" /\ moved[t] < hlen[t] /\ Fault
    /\ Return(t, "fail")
    /\ UNCHANGED <<want, status, hlen, body, curl, global, moved, fds, accepted>>

ReadDone(t) ==
    /\ pc[t] = "read" /\ moved[t] >= hlen[t] /\ Return(t, "ok")
    /\ UNCHANGED <<want, status, hlen, body, curl, global, moved, fds, world>>

FileStep(t) == OpenFile(t) \/ StatFails(t) \/ ReadChunk(t) \/ ReadFails(t) \/ ReadDone(t)

-----------------------------------------------------------------------------
HandlerStep(t) == Close(t) \/ CurlStep(t) \/ FileStep(t)

Next == \E t \in Threads : Accept(t) \/ HandlerStep(t)

Spec == Init /\ [][Next]_vars

\* A thread of the library that can run does.
FairSpec == Spec /\ \A t \in Threads : WF_vars(HandlerStep(t))

-----------------------------------------------------------------------------
\* Types, and a buffer as long as output.size says.
TypeOK ==
    /\ want \in [Threads -> Paths \cup {None}]
    /\ pc \in [Threads -> {"idle", "init", "count", "setup", "easy", "perform", "send", "cleanup",
                          "uncount", "teardown", "clean", "open", "read", "returned"}]
    /\ status \in [Threads -> {"none", "OK", "FILE_NOT_FOUND"}]
    /\ ret \in [Threads -> {"unset", "ok", "fail"}]
    /\ body \in [Threads -> Seq(Paths \cup {None})]
    /\ \A t \in Threads : buffer[t] # None => Len(buffer[t]) = size[t]
    /\ inits \in Nat /\ fds \in 0..FdLimit

\* What is answered OK: a file that is there, or with curl whatever the web
\* server announces a length for, its error page for a missing file included.
Servable(t) == IF t \in CurlThreads THEN want[t] \in Known ELSE want[t] \in Exists

\* The header tells the client exactly whether the path is servable in this
\* sense, and its length, whatever ran out or failed on the way.  With curl
\* that is not whether the file exists: the error page of a missing one is
\* told OK, where pr1/Readme.md:214-217 asks for FILE_NOT_FOUND.
HeaderIsTrue ==
    \A t \in Threads :
        /\ status[t] = "OK" => Servable(t) /\ hlen[t] = Size[want[t]]
        /\ status[t] = "FILE_NOT_FOUND" => ~Servable(t)

\* A client gets its own file from the start and never more of it, and all of
\* it when the handler reports success; with curl, only if no realloc failed.
BodyIsOwn ==
    \A t \in Threads : pc[t] # "idle" /\ t \notin starved =>
        /\ body[t] = Cells(want[t], Len(body[t])) /\ Len(body[t]) <= hlen[t]
        /\ ret[t] = "ok" /\ status[t] = "OK" => Len(body[t]) = hlen[t]

\* gfserver.h:88-92: a handler that does not return a negative number has
\* answered; but for a transfer that failed with cl not above 0.
SuccessIsAnswered ==
    \A t \in Threads : pc[t] = "returned" /\ ret[t] = "ok" => status[t] # "none" \/ t \in failed

\* A thread is in a call of libcurl other than the global ones.
UsesLibcurl(t) == pc[t] \in {"easy", "perform", "cleanup"}

\* No thread uses libcurl before its global state is set up or after another
\* thread has torn it down, whichever call failed, until two threads have been
\* in curl_global_init or curl_global_cleanup at once.  That the code does not
\* prevent, although handle_with_curl.c:51-52 would have the former "called
\* once globally".
GlobalStateHeld == ~met => \A t \in CurlThreads : UsesLibcurl(t) => ready

\* gfs_send of 0 bytes, for ever: the only realloc failed and cl is above 0.
Spins(t) == pc[t] = "send" /\ size[t] = 0 /\ t \in starved

\* Otherwise every request ends.
EveryRequestReturns == \A t \in Threads : []<>(pc[t] = "idle") \/ <>[]Spins(t)
=============================================================================
