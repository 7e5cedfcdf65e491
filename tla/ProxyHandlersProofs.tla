------------------------- MODULE ProxyHandlersProofs -------------------------
(***************************************************************************)
(* What ProxyHandlers promises, for any number of threads, any files and   *)
(* any number of requests and faults.                                      *)
(***************************************************************************)
EXTENDS ProxyHandlers, FiniteSetTheorems, SequenceTheorems, TLAPS

(***************************************************************************)
(* Bodies.                                                                 *)
(***************************************************************************)
Cell == Paths \cup {None}

LEMMA CellsType ==
    ASSUME NEW f \in Cell, NEW n \in Nat
    PROVE  /\ Cells(f, n) \in Seq(Cell) /\ Len(Cells(f, n)) = n
           /\ Cells(f, 0) = << >>
           /\ Cells(f, n) # None
<1>1. Cells(f, n) \in Seq(Cell) /\ Len(Cells(f, n)) = n /\ Cells(f, 0) = << >>
  BY DEF Cells
<1>. QED  BY <1>1, HandlersAssumption DEF Cell

\* Appending cells of a file to cells of it gives cells of it.
LEMMA CellsJoin ==
    ASSUME NEW f \in Cell, NEW m \in Nat, NEW n \in Nat
    PROVE  Cells(f, m) \o Cells(f, n) = Cells(f, m + n)
<1>1. /\ Cells(f, m) \in Seq(Cell) /\ Len(Cells(f, m)) = m
      /\ Cells(f, n) \in Seq(Cell) /\ Len(Cells(f, n)) = n
      /\ Cells(f, m + n) \in Seq(Cell) /\ Len(Cells(f, m + n)) = m + n
  BY CellsType
<1>2. \A i \in 1..(m + n) : (Cells(f, m) \o Cells(f, n))[i] = f
  BY <1>1 DEF Cells
<1>3. \A i \in 1..(m + n) : Cells(f, m + n)[i] = f
  BY DEF Cells
<1>4. Cells(f, m) \o Cells(f, n) \in Seq(Cell) /\ Len(Cells(f, m) \o Cells(f, n)) = m + n
  BY <1>1
<1>. QED  BY <1>1, <1>2, <1>3, <1>4, SeqEqual

LEMMA LeastBound ==
    ASSUME NEW m \in Nat, NEW n \in Nat
    PROVE  Least(m, n) \in Nat /\ Least(m, n) <= m /\ Least(m, n) <= n
  BY DEF Least

(***************************************************************************)
(* The inductive invariant.  The types, with those TypeOK leaves out.      *)
(***************************************************************************)
Types ==
    /\ pc \in [Threads -> {"idle", "init", "count", "setup", "easy", "perform", "send", "cleanup",
                          "uncount", "teardown", "clean", "open", "read", "returned"}]
    /\ want \in [Threads -> Paths \cup {None}]
    /\ status \in [Threads -> {"none", "OK", "FILE_NOT_FOUND"}]
    /\ ret \in [Threads -> {"unset", "ok", "fail"}]
    /\ hlen \in [Threads -> Nat] /\ body \in [Threads -> Seq(Cell)]
    /\ buffer \in [Threads -> Seq(Cell) \cup {None}] /\ size \in [Threads -> Nat]
    /\ cl \in [Threads -> Int] /\ moved \in [Threads -> Int]
    /\ inits \in Nat /\ loaded \in [Threads -> Nat] /\ fds \in 0..FdLimit

\* Before anything is asked for or opened, and after the loop of the curl handler.
Starting == {"idle", "init", "count", "setup", "easy", "open"}
Ending == {"cleanup", "uncount", "teardown", "clean"}

\* A handler is where its code can be, with a path and no result yet.
Placed(t) ==
    /\ pc[t] \in {"open", "read"} => t \notin CurlThreads
    /\ pc[t] \notin {"idle", "open", "read", "returned"} => t \in CurlThreads
    /\ pc[t] # "idle" => want[t] \in Paths
    /\ pc[t] = "uncount" => loaded[t] # 0
    /\ pc[t] # "returned" => ret[t] = "unset"

\* What its client has been told by then.
Told(t) ==
    /\ status[t] = "OK" => Servable(t) /\ hlen[t] = Size[want[t]]
    /\ status[t] = "FILE_NOT_FOUND" => ~Servable(t)
    /\ pc[t] \in Starting \cup {"perform"} => status[t] = "none" /\ body[t] = << >>
    /\ pc[t] \in Starting => moved[t] = 0
    /\ pc[t] \in {"send", "read"} => status[t] = "OK"
    /\ pc[t] \in Ending => status[t] = "OK" \/ t \in failed
    /\ pc[t] = "returned" /\ ret[t] = "ok" => status[t] # "none" \/ t \in failed

BufferFits(t) == buffer[t] # None => Len(buffer[t]) = size[t]

\* What it has been sent, and what is still in the buffer, at each place.
Performing(t) ==
    /\ moved[t] = size[t] /\ size[t] <= Size[want[t]]
    /\ IF buffer[t] = None THEN size[t] = 0 ELSE buffer[t] = Cells(want[t], size[t])

Sending(t) ==
    /\ cl[t] = hlen[t] /\ size[t] = hlen[t]
    /\ size[t] > 0 => buffer[t] = Cells(want[t], size[t])
    /\ \/ moved[t] <= 0 /\ body[t] = << >>
       \/ moved[t] = hlen[t] /\ body[t] = Cells(want[t], hlen[t])

CleaningUp(t) ==
    \/ body[t] = << >> /\ (moved[t] < 0 \/ status[t] = "none")
    \/ body[t] = Cells(want[t], hlen[t])

Reading(t) == moved[t] \in 0..hlen[t] /\ body[t] = Cells(want[t], moved[t])

Returned(t) ==
    \E n \in 0..hlen[t] :
        /\ body[t] = Cells(want[t], n)
        /\ ret[t] = "ok" /\ status[t] = "OK" => n = hlen[t]

Sent(t) ==
    /\ pc[t] = "perform" => Performing(t)
    /\ pc[t] = "send" => Sending(t)
    /\ pc[t] \in Ending => CleaningUp(t)
    /\ pc[t] = "read" => Reading(t)
    /\ pc[t] = "returned" => Returned(t)

Kept(t) == Placed(t) /\ Told(t) /\ BufferFits(t) /\ (t \notin starved => Sent(t))

IInv == Types /\ \A t \in Threads : Kept(t)

(***************************************************************************)
(* A step of a thread leaves the other threads as they are.                *)
(***************************************************************************)
LEMMA OthersUntouched ==
    ASSUME Types, NEW t \in Threads, NEW u \in Threads, u # t, Accept(t) \/ HandlerStep(t)
    PROVE  /\ pc'[u] = pc[u] /\ want'[u] = want[u] /\ status'[u] = status[u]
           /\ hlen'[u] = hlen[u] /\ body'[u] = body[u] /\ ret'[u] = ret[u]
           /\ buffer'[u] = buffer[u] /\ size'[u] = size[u]
           /\ cl'[u] = cl[u] /\ moved'[u] = moved[u] /\ loaded'[u] = loaded[u]
           /\ (u \in failed' <=> u \in failed) /\ (u \in starved' <=> u \in starved)
<1>1. CASE Accept(t)
  BY <1>1 DEF Types, Accept, request, curl, global, world, Go
<1>2. CASE Close(t)
  BY <1>2 DEF Types, Close, request, curl, global, world, Go, Header
<1>3. CASE GlobalInit(t)
  BY <1>3 DEF Types, GlobalInit, LoadsCount, request, curl, global, world, Go
<1>4. CASE GlobalCount(t)
  BY <1>4 DEF Types, GlobalCount, request, curl, global, world, Go
<1>5. CASE GlobalSetUp(t)
  BY <1>5 DEF Types, GlobalSetUp, request, curl, global, world, Go
<1>6. CASE EasyInitsGlobal(t)
  BY <1>6 DEF Types, EasyInitsGlobal, request, curl, global, world, Go
<1>7. CASE EasyInit(t)
  BY <1>7 DEF Types, EasyInit, request, curl, global, world, Go
<1>8. CASE EasyInitFails(t)
  BY <1>8 DEF Types, EasyInitFails, request, curl, global, world, Go
<1>9. CASE WriteMemory(t)
  BY <1>9 DEF Types, WriteMemory, request, curl, global, world, Grown, Coming, Passed, Fault
<1>10. CASE Performed(t)
  BY <1>10 DEF Types, Performed, request, curl, global, world, Go, Header, Return, Coming, Passed
<1>11. CASE PerformFails(t)
  BY <1>11 DEF Types, PerformFails, request, curl, global, world, Go, Silent, Return
<1>12. CASE SendBuffer(t)
  BY <1>12 DEF Types, SendBuffer, request, curl, global, world
<1>13. CASE SendFails(t)
  BY <1>13 DEF Types, SendFails, request, curl, global, world
<1>14. CASE LoopEnds(t)
  BY <1>14 DEF Types, LoopEnds, request, curl, global, world, Go
<1>15. CASE CleanUp(t)
  BY <1>15 DEF Types, CleanUp, LoadsCount, request, curl, global, world, Go
<1>16. CASE GlobalUncount(t)
  BY <1>16 DEF Types, GlobalUncount, request, curl, global, world, Go
<1>17. CASE GlobalTearDown(t)
  BY <1>17 DEF Types, GlobalTearDown, request, curl, global, world, Go
<1>18. CASE CurlReturn(t)
  BY <1>18 DEF Types, CurlReturn, request, curl, global, world, Go, Return
<1>19. CASE OpenFile(t)
  BY <1>19 DEF Types, OpenFile, request, curl, global, world, Go, Header, Silent, Return
<1>20. CASE StatFails(t)
  BY <1>20 DEF Types, StatFails, request, curl, global, world, Go, Return
<1>21. CASE ReadChunk(t)
  BY <1>21 DEF Types, ReadChunk, request, curl, global, world
<1>22. CASE ReadFails(t)
  BY <1>22 DEF Types, ReadFails, request, curl, global, world, Go, Return
<1>23. CASE ReadDone(t)
  BY <1>23 DEF Types, ReadDone, request, curl, global, world, Go, Return
<1>. QED
  BY <1>1, <1>2, <1>3, <1>4, <1>5, <1>6, <1>7, <1>8, <1>9, <1>10, <1>11, <1>12, <1>13, <1>14, <1>15, <1>16, <1>17, <1>18, <1>19, <1>20, <1>21, <1>22, <1>23
     DEF HandlerStep, CurlStep, FileStep

LEMMA OthersKept ==
    ASSUME Types, NEW t \in Threads, NEW u \in Threads, u # t, Accept(t) \/ HandlerStep(t), Kept(u)
    PROVE  Kept(u)'
<1>1. /\ pc'[u] = pc[u] /\ want'[u] = want[u] /\ status'[u] = status[u]
      /\ hlen'[u] = hlen[u] /\ body'[u] = body[u] /\ ret'[u] = ret[u]
      /\ buffer'[u] = buffer[u] /\ size'[u] = size[u]
      /\ cl'[u] = cl[u] /\ moved'[u] = moved[u] /\ loaded'[u] = loaded[u]
      /\ (u \in failed' <=> u \in failed) /\ (u \in starved' <=> u \in starved)
  BY OthersUntouched
<1>2. Placed(u)'
  BY <1>1 DEF Kept, Placed
<1>3. Told(u)'
  BY <1>1 DEF Kept, Told, Servable
<1>4. BufferFits(u)'
  BY <1>1 DEF Kept, BufferFits
<1>5. u \notin starved' => Sent(u)'
  <2>. SUFFICES ASSUME u \notin starved' PROVE Sent(u)'
    OBVIOUS
  <2>1. Sent(u)
    BY <1>1 DEF Kept
  <2>. QED  BY <1>1, <2>1 DEF Sent, Performing, Sending, CleaningUp, Reading, Returned, Cells
<1>. QED  BY <1>2, <1>3, <1>4, <1>5 DEF Kept

(***************************************************************************)
(* The thread that moves keeps the invariant: one lemma for each action.   *)
(***************************************************************************)
LEMMA InitState == Init => IInv
<1>. SUFFICES ASSUME Init PROVE IInv
  OBVIOUS
<1>1. Types
  BY HandlersAssumption DEF Init, Types, Cell
<1>2. ASSUME NEW t \in Threads PROVE Kept(t)
  <2>1. /\ pc[t] = "idle" /\ status[t] = "none" /\ buffer[t] = << >> /\ size[t] = 0
        /\ body[t] = << >> /\ moved[t] = 0 /\ ret[t] = "unset"
    BY DEF Init
  <2>2. BufferFits(t)
    BY <2>1 DEF BufferFits
  <2>. QED  BY <2>1, <2>2 DEF Kept, Placed, Told, Starting, Ending, Sent
<1>. QED  BY <1>1, <1>2 DEF IInv

LEMMA AcceptKeeps ==
    ASSUME Types, NEW t \in Threads, Kept(t), Accept(t)
    PROVE  Types' /\ Kept(t)'
<1>1. PICK f \in Paths : want' = [want EXCEPT ![t] = f]
  BY DEF Accept
<1>2. Types'
  BY <1>1 DEF Types, Accept, Go, curl, global
<1>3. /\ pc[t] = "idle" /\ pc'[t] = IF t \in CurlThreads THEN "init" ELSE "open"
      /\ want'[t] = f /\ UNCHANGED <<status, hlen, body, ret, curl, moved>>
  BY <1>1 DEF Types, Accept, Go
<1>4. status[t] = "none" /\ body[t] = << >> /\ moved[t] = 0 /\ ret[t] = "unset"
  BY <1>3 DEF Kept, Placed, Told, Starting
<1>. QED  BY <1>2, <1>3, <1>4 DEF Kept, Placed, Told, Starting, Ending, BufferFits, Sent, curl

LEMMA CloseKeeps ==
    ASSUME Types, NEW t \in Threads, Kept(t), Close(t)
    PROVE  Types' /\ Kept(t)'
<1>1. Types'
  BY DEF Types, Close, Go, Header, global, world
<1>2. /\ pc'[t] = "idle" /\ status'[t] = "none" /\ body'[t] = << >> /\ ret'[t] = "unset"
      /\ buffer'[t] = << >> /\ size'[t] = 0 /\ moved'[t] = 0
  BY DEF Types, Close, Go, Header
<1>. QED  BY <1>1, <1>2 DEF Kept, Placed, Told, Starting, Ending, BufferFits, Sent

\* The steps of libcurl's global functions touch nothing of the request.
LEMMA GlobalKeeps ==
    ASSUME Types, NEW t \in Threads, Kept(t),
           GlobalInit(t) \/ GlobalCount(t) \/ GlobalSetUp(t) \/ EasyInitsGlobal(t)
           \/ CleanUp(t) \/ GlobalUncount(t) \/ GlobalTearDown(t)
    PROVE  Types' /\ Kept(t)'
<1>1. UNCHANGED <<request, curl, moved, fds>>
  BY DEF GlobalInit, GlobalCount, GlobalSetUp, EasyInitsGlobal, CleanUp, GlobalUncount, GlobalTearDown
<1>2. /\ inits' \in Nat /\ loaded' \in [Threads -> Nat]
      /\ pc[t] = "cleanup" => loaded'[t] # 0
  <2>1. loaded \in [Threads -> Nat] /\ inits \in Nat /\ loaded[t] \in Nat
    BY DEF Types
  <2>2. CASE GlobalInit(t)
    BY <2>1, <2>2 DEF GlobalInit, LoadsCount
  <2>3. CASE GlobalCount(t)
    BY <2>1, <2>3 DEF GlobalCount
  <2>4. CASE GlobalSetUp(t) \/ EasyInitsGlobal(t) \/ GlobalTearDown(t)
    BY <2>1, <2>4 DEF GlobalSetUp, EasyInitsGlobal, GlobalTearDown, global
  <2>5. CASE CleanUp(t)
    BY <2>1, <2>5 DEF CleanUp, LoadsCount
  <2>6. CASE GlobalUncount(t)
    <3>1. loaded[t] # 0
      BY <2>6 DEF Kept, Placed, GlobalUncount
    <3>. QED  BY <2>1, <2>6, <3>1 DEF GlobalUncount
  <2>. QED  BY <2>2, <2>3, <2>4, <2>5, <2>6
<1>3. \/ /\ pc[t] \in Starting \ {"idle", "open"}
         /\ \E l \in Starting \ {"idle", "open"} : pc' = [pc EXCEPT ![t] = l]
      \/ /\ pc[t] = "cleanup" /\ pc' = [pc EXCEPT ![t] = "uncount"]
      \/ /\ pc[t] \in Ending
         /\ \E l \in {"teardown", "clean"} : pc' = [pc EXCEPT ![t] = l]
  BY DEF GlobalInit, GlobalCount, GlobalSetUp, EasyInitsGlobal, CleanUp, GlobalUncount,
         GlobalTearDown, Go, Starting, Ending
<1>4. Types'
  <2>1. \E l \in {"init", "count", "setup", "easy", "uncount", "teardown", "clean"} :
            pc' = [pc EXCEPT ![t] = l]
    BY <1>3 DEF Starting
  <2>. QED  BY <1>1, <1>2, <2>1 DEF Types, request, curl
<1>5. \/ /\ pc[t] \in Starting \ {"idle", "open"} /\ pc'[t] \in Starting \ {"idle", "open"}
      \/ /\ pc[t] = "cleanup" /\ pc'[t] = "uncount"
      \/ /\ pc[t] \in Ending /\ pc'[t] \in {"teardown", "clean"}
  BY <1>3 DEF Types
<1>6. Placed(t)' /\ Told(t)' /\ BufferFits(t)'
  BY <1>1, <1>2, <1>5
     DEF Kept, Placed, Told, Starting, Ending, Servable, BufferFits, request, curl
<1>7. (t \notin starved => Sent(t)) => (t \notin starved' => Sent(t)')
  <2>. SUFFICES ASSUME Sent(t) PROVE Sent(t)'
    BY <1>1 DEF curl
  <2>1. pc'[t] \in Ending => CleaningUp(t)
    BY <1>5 DEF Sent, Starting, Ending
  <2>2. CleaningUp(t) => CleaningUp(t)'
    BY <1>1 DEF CleaningUp, Cells, request
  <2>. QED  BY <1>5, <2>1, <2>2 DEF Sent, Starting, Ending
<1>. QED  BY <1>4, <1>6, <1>7 DEF Kept

LEMMA EasyInitKeeps ==
    ASSUME Types, NEW t \in Threads, Kept(t), EasyInit(t)
    PROVE  Types' /\ Kept(t)'
<1>1. PICK x \in {0, 1} : cl' = [cl EXCEPT ![t] = x]
  BY DEF EasyInit
<1>2. Types'
  BY <1>1 DEF Types, EasyInit, Go, request, global
<1>3. /\ pc[t] = "easy" /\ pc'[t] = "perform" /\ buffer'[t] = None /\ size'[t] = 0
      /\ UNCHANGED <<request, moved, failed, starved>>
  BY DEF Types, EasyInit, Go
<1>4. moved[t] = 0 /\ want[t] \in Paths /\ Size[want[t]] \in Nat
  BY <1>3, HandlersAssumption DEF Kept, Told, Placed, Starting
<1>5. Placed(t)' /\ Told(t)' /\ BufferFits(t)'
  BY <1>3 DEF Kept, Placed, Told, Starting, Ending, Servable, BufferFits, request
<1>6. Performing(t)'
  BY <1>3, <1>4 DEF Performing, request
<1>. QED  BY <1>2, <1>3, <1>5, <1>6 DEF Kept, Sent, Ending

LEMMA EasyInitFailsKeeps ==
    ASSUME Types, NEW t \in Threads, Kept(t), EasyInitFails(t)
    PROVE  Types' /\ Kept(t)'
<1>1. PICK x \in {-1, 0} : moved' = [moved EXCEPT ![t] = x]
  BY DEF EasyInitFails
<1>2. Types'
  BY <1>1 DEF Types, EasyInitFails, Go, request, global
<1>3. /\ pc[t] = "easy" /\ pc'[t] = "cleanup" /\ buffer'[t] = None /\ size'[t] = 0
      /\ t \in failed' /\ UNCHANGED <<request, starved>>
  BY DEF Types, EasyInitFails, Go
<1>4. status[t] = "none" /\ body[t] = << >>
  BY <1>3 DEF Kept, Told, Starting
<1>5. Placed(t)' /\ Told(t)' /\ BufferFits(t)'
  BY <1>3 DEF Kept, Placed, Told, Starting, Ending, Servable, BufferFits, request
<1>6. CleaningUp(t)'
  BY <1>3, <1>4 DEF CleaningUp, request
<1>. QED  BY <1>2, <1>3, <1>5, <1>6 DEF Kept, Sent, Ending

\* What the buffer is before a chunk is appended, if no realloc has failed.
LEMMA GrownIsOwn ==
    ASSUME Types, NEW t \in Threads, want[t] \in Paths, Performing(t)
    PROVE  Grown(t) = Cells(want[t], size[t])
<1>1. size[t] \in Nat
  BY DEF Types
<1>2. CASE buffer[t] = None
  <2>1. size[t] = 0 /\ Grown(t) = Cells(None, size[t])
    BY <1>2 DEF Performing, Grown
  <2>2. Cells(None, 0) = << >> /\ Cells(want[t], 0) = << >>
    BY CellsType DEF Cell
  <2>. QED  BY <2>1, <2>2
<1>3. CASE buffer[t] # None
  BY <1>3 DEF Performing, Grown
<1>. QED  BY <1>2, <1>3

LEMMA GrownFits ==
    ASSUME Types, NEW t \in Threads, BufferFits(t)
    PROVE  Grown(t) \in Seq(Cell) /\ Len(Grown(t)) = size[t]
<1>1. size[t] \in Nat /\ buffer[t] \in Seq(Cell) \cup {None}
  BY DEF Types
<1>2. CASE buffer[t] = None
  BY <1>1, <1>2, CellsType DEF Grown, Cell
<1>3. CASE buffer[t] # None
  BY <1>1, <1>3 DEF Grown, BufferFits
<1>. QED  BY <1>2, <1>3

LEMMA WriteMemoryKeeps ==
    ASSUME Types, NEW t \in Threads, Kept(t), WriteMemory(t)
    PROVE  Types' /\ Kept(t)'
<1>. DEFINE n == Least(Chunk, Coming(t))
<1>1. /\ pc[t] = "perform" /\ t \in CurlThreads /\ want[t] \in Paths
      /\ Size[want[t]] \in Nat /\ moved[t] \in Int /\ size[t] \in Nat
      /\ Coming(t) = Size[want[t]] - moved[t] /\ Coming(t) \in Nat
  BY HandlersAssumption DEF Types, Kept, Placed, WriteMemory, Coming, Passed
<1>2. n \in Nat /\ n <= Coming(t)
  BY <1>1, LeastBound, HandlersAssumption
<1>3. /\ moved' = [moved EXCEPT ![t] = @ + n] /\ moved'[t] = moved[t] + n
      /\ UNCHANGED <<pc, request, cl, failed, global, fds>>
  BY <1>1 DEF Types, WriteMemory
<1>4. /\ Cells(want[t], n) \in Seq(Cell) /\ Len(Cells(want[t], n)) = n
      /\ Grown(t) \in Seq(Cell) /\ Len(Grown(t)) = size[t]
  BY <1>1, <1>2, CellsType, GrownFits DEF Cell, Kept
<1>5. CASE /\ buffer' = [buffer EXCEPT ![t] = Grown(t) \o Cells(want[t], n)]
           /\ size' = [size EXCEPT ![t] = @ + n] /\ UNCHANGED starved
  <2>1. /\ buffer'[t] = Grown(t) \o Cells(want[t], n) /\ size'[t] = size[t] + n
    BY <1>5 DEF Types
  <2>2. buffer'[t] \in Seq(Cell) /\ Len(buffer'[t]) = size'[t] /\ size'[t] \in Nat
    <3>. DEFINE g == Grown(t)  c == Cells(want[t], n)
    <3>1. g \o c \in Seq(Cell) /\ Len(g \o c) = Len(g) + Len(c)
      <4>. HIDE DEF g, c
      <4>1. g \in Seq(Cell) /\ c \in Seq(Cell)
        BY <1>4 DEF g, c
      <4>. QED  BY <4>1
    <3>. QED  BY <1>1, <1>2, <1>4, <2>1, <3>1
  <2>3. Types'
    <3>1. /\ Grown(t) \o Cells(want[t], n) \in Seq(Cell) /\ size[t] + n \in Nat
          /\ moved[t] + n \in Int
      BY <1>1, <1>2, <2>1, <2>2
    <3>2. buffer' \in [Threads -> Seq(Cell) \cup {None}]
      <4>. HIDE DEF n
      <4>. QED  BY <1>5, <3>1 DEF Types
    <3>3. size' \in [Threads -> Nat] /\ moved' \in [Threads -> Int]
      <4>. HIDE DEF n
      <4>. QED  BY <1>3, <1>5, <3>1 DEF Types
    <3>. QED  BY <1>3, <3>2, <3>3 DEF Types, request, global
  <2>4. Placed(t)' /\ Told(t)' /\ BufferFits(t)'
    BY <1>1, <1>3, <2>2 DEF Kept, Placed, Told, Starting, Ending, Servable, BufferFits, request
  <2>5. ASSUME t \notin starved PROVE Performing(t)'
    <3>1. Performing(t)
      BY <1>1, <2>5 DEF Kept, Sent, Ending
    <3>2. Grown(t) = Cells(want[t], size[t])
      BY <1>1, <3>1, GrownIsOwn
    <3>3. buffer'[t] = Cells(want[t], size'[t])
      <4>. HIDE DEF n
      <4>1. want[t] \in Cell /\ size[t] \in Nat /\ n \in Nat
        BY <1>1, <1>2 DEF Cell
      <4>2. Cells(want[t], size[t]) \o Cells(want[t], n) = Cells(want[t], size[t] + n)
        BY <4>1, CellsJoin
      <4>. QED  BY <2>1, <3>2, <4>2
    <3>4. buffer'[t] # None
      BY <1>1, <2>2, <3>3, CellsType DEF Cell
    <3>5. moved'[t] = size'[t] /\ size'[t] <= Size[want[t]]
      BY <1>1, <1>2, <1>3, <2>1, <3>1 DEF Performing
    <3>. QED  BY <1>3, <3>3, <3>4, <3>5 DEF Performing, request, Cells
  <2>. QED  BY <1>1, <1>3, <1>5, <2>3, <2>4, <2>5 DEF Kept, Sent, Ending
<1>6. CASE /\ starved' = starved \cup {t}
           /\ buffer' = [buffer EXCEPT ![t] = None] /\ UNCHANGED size
  <2>1. buffer'[t] = None
    BY <1>6 DEF Types
  <2>2. Types'
    BY SMTT(30), <1>1, <1>2, <1>3, <1>6 DEF Types, request, global
  <2>3. Placed(t)' /\ Told(t)' /\ BufferFits(t)'
    BY <1>1, <1>3, <2>1 DEF Kept, Placed, Told, Starting, Ending, Servable, BufferFits, request
  <2>. QED  BY <1>6, <2>2, <2>3 DEF Kept
<1>. QED  BY <1>5, <1>6 DEF WriteMemory

LEMMA PerformedKeeps ==
    ASSUME Types, NEW t \in Threads, Kept(t), Performed(t)
    PROVE  Types' /\ Kept(t)'
<1>1. /\ pc[t] = "perform" /\ t \in CurlThreads /\ want[t] \in Paths
      /\ Size[want[t]] \in Nat /\ status[t] = "none" /\ body[t] = << >>
      /\ moved[t] \in Int /\ size[t] \in Nat
  BY HandlersAssumption DEF Types, Kept, Placed, Told, Starting, Ending, Performed
<1>2. /\ moved' = [moved EXCEPT ![t] = 0] /\ moved'[t] = 0
      /\ UNCHANGED <<want, body, buffer, size, failed, starved, global, fds>>
  BY DEF Types, Performed
<1>3. CASE want[t] \in Known
  <2>1. /\ cl' = [cl EXCEPT ![t] = Size[want[t]]] /\ status' = [status EXCEPT ![t] = "OK"]
        /\ hlen' = [hlen EXCEPT ![t] = Size[want[t]]] /\ pc' = [pc EXCEPT ![t] = "send"]
        /\ UNCHANGED ret
    BY <1>3 DEF Performed, Header, Go
  <2>2. /\ cl'[t] = Size[want[t]] /\ hlen'[t] = Size[want[t]] /\ status'[t] = "OK"
        /\ pc'[t] = "send"
    BY <2>1 DEF Types
  <2>3. Types'
    BY <1>1, <1>2, <2>1 DEF Types, global
  <2>4. Placed(t)' /\ Told(t)' /\ BufferFits(t)'
    BY <1>1, <1>2, <1>3, <2>1, <2>2 DEF Kept, Placed, Told, Starting, Ending, Servable, BufferFits
  <2>5. ASSUME t \notin starved PROVE Sending(t)'
    <3>1. Performing(t) /\ Coming(t) = 0
      BY <1>1, <1>3, <2>5, HandlersAssumption DEF Kept, Sent, Ending, Performed
    <3>2. size[t] = Size[want[t]]
      BY <1>1, <3>1 DEF Performing, Coming, Passed
    <3>3. size[t] > 0 => buffer[t] = Cells(want[t], size[t])
      BY <1>1, <3>1 DEF Performing
    <3>. QED  BY <1>1, <1>2, <2>2, <3>2, <3>3 DEF Sending, Cells
  <2>. QED  BY <1>2, <2>2, <2>3, <2>4, <2>5 DEF Kept, Sent, Ending
<1>4. CASE want[t] \notin Known
  <2>1. /\ cl' = [cl EXCEPT ![t] = -1] /\ status' = [status EXCEPT ![t] = "FILE_NOT_FOUND"]
        /\ hlen' = [hlen EXCEPT ![t] = 0] /\ pc' = [pc EXCEPT ![t] = "returned"]
        /\ ret' = [ret EXCEPT ![t] = "ok"]
    BY <1>4 DEF Performed, Header, Return, Go
  <2>2. /\ hlen'[t] = 0 /\ status'[t] = "FILE_NOT_FOUND" /\ pc'[t] = "returned" /\ ret'[t] = "ok"
    BY <2>1 DEF Types
  <2>3. Types'
    BY <1>1, <1>2, <2>1 DEF Types, global
  <2>4. Placed(t)' /\ Told(t)' /\ BufferFits(t)'
    BY <1>1, <1>2, <1>4, <2>1, <2>2 DEF Kept, Placed, Told, Starting, Ending, Servable, BufferFits
  <2>5. Returned(t)'
    BY <1>1, <1>2, <2>2, CellsType DEF Returned, Cell, Cells
  <2>. QED  BY <1>2, <2>2, <2>3, <2>4, <2>5 DEF Kept, Sent, Ending
<1>. QED  BY <1>3, <1>4

LEMMA PerformFailsKeeps ==
    ASSUME Types, NEW t \in Threads, Kept(t), PerformFails(t)
    PROVE  Types' /\ Kept(t)'
<1>1. /\ pc[t] = "perform" /\ t \in CurlThreads /\ want[t] \in Paths
      /\ status[t] = "none" /\ body[t] = << >> /\ hlen[t] \in Nat
  BY HandlersAssumption DEF Types, Kept, Placed, Told, Starting, Ending, PerformFails
<1>2. /\ moved' = [moved EXCEPT ![t] = 0] /\ t \in failed'
      /\ UNCHANGED <<want, status, hlen, body, buffer, size, cl, starved, global, fds>>
  BY DEF PerformFails, Silent
<1>3. \/ /\ ret' = [ret EXCEPT ![t] = "fail"] /\ pc' = [pc EXCEPT ![t] = "returned"]
      \/ UNCHANGED ret /\ pc' = [pc EXCEPT ![t] = "cleanup"]
  BY DEF PerformFails, Return, Go
<1>4. Types'
  <2>1. /\ pc' \in [Threads -> {"idle", "init", "count", "setup", "easy", "perform", "send", "cleanup",
                          "uncount", "teardown", "clean", "open", "read", "returned"}]
        /\ ret' \in [Threads -> {"unset", "ok", "fail"}]
    <3>1. ASSUME ret' = [ret EXCEPT ![t] = "fail"]
          PROVE  ret' \in [Threads -> {"unset", "ok", "fail"}]
      BY <3>1 DEF Types
    <3>2. ASSUME NEW l \in {"returned", "cleanup"}, pc' = [pc EXCEPT ![t] = l]
          PROVE  pc' \in [Threads -> {"idle", "init", "count", "setup", "easy", "perform", "send", "cleanup",
                          "uncount", "teardown", "clean", "open", "read", "returned"}]
      BY <3>2 DEF Types
    <3>. QED  BY <1>3, <3>1, <3>2 DEF Types
  <2>2. moved' \in [Threads -> Int]
    BY <1>2 DEF Types
  <2>3. /\ want' = want /\ status' = status /\ hlen' = hlen /\ body' = body
        /\ buffer' = buffer /\ size' = size /\ cl' = cl /\ inits' = inits /\ loaded' = loaded /\ fds' = fds
    BY <1>2 DEF global
  <2>. QED  BY <2>1, <2>2, <2>3 DEF Types
<1>5. \/ pc'[t] = "returned" /\ ret'[t] = "fail"
      \/ pc'[t] = "cleanup" /\ ret'[t] = ret[t]
  BY <1>3 DEF Types
<1>6. Placed(t)' /\ Told(t)' /\ BufferFits(t)'
  BY <1>1, <1>2, <1>5 DEF Kept, Placed, Told, Starting, Ending, Servable, BufferFits
<1>7. CleaningUp(t)'
  BY <1>1, <1>2 DEF CleaningUp
<1>8. Returned(t)' \/ ret'[t] # "fail"
  <2>1. Cells(want[t], 0) = << >>
    BY <1>1, CellsType DEF Cell
  <2>. QED  BY <1>1, <1>2, <2>1 DEF Returned, Cells
<1>9. Sent(t)'
  BY <1>5, <1>7, <1>8 DEF Sent
<1>. QED  BY <1>4, <1>6, <1>9 DEF Kept

LEMMA SendBufferKeeps ==
    ASSUME Types, NEW t \in Threads, Kept(t), SendBuffer(t)
    PROVE  Types' /\ Kept(t)'
<1>1. /\ pc[t] = "send" /\ t \in CurlThreads /\ want[t] \in Paths /\ hlen[t] \in Nat
      /\ moved[t] \in Int /\ cl[t] \in Int /\ size[t] \in Nat /\ body[t] \in Seq(Cell)
      /\ buffer[t] \in Seq(Cell) \cup {None}
      /\ 0 <= moved[t] /\ moved[t] < cl[t] /\ (size[t] = 0 \/ buffer[t] # None)
  BY DEF Types, Kept, Placed, SendBuffer
<1>. DEFINE b == IF size[t] = 0 THEN body[t] ELSE body[t] \o buffer[t]
<1>2. /\ body' = [body EXCEPT ![t] = b] /\ body'[t] = b
      /\ moved' = [moved EXCEPT ![t] = moved[t] + size[t]] /\ moved'[t] = moved[t] + size[t]
      /\ UNCHANGED <<pc, want, status, hlen, ret, curl, global, fds>>
  BY DEF Types, SendBuffer
<1>3. b \in Seq(Cell) /\ moved[t] + size[t] \in Int
  BY <1>1
<1>4. Types'
  <2>. HIDE DEF b
  <2>. QED  BY <1>2, <1>3 DEF Types, curl, global
<1>5. Placed(t)' /\ Told(t)' /\ BufferFits(t)'
  BY <1>1, <1>2 DEF Kept, Placed, Told, Starting, Ending, Servable, BufferFits, curl
<1>6. ASSUME t \notin starved PROVE Sending(t)'
  <2>1. Sending(t)
    BY <1>1, <1>6 DEF Kept, Sent, Ending
  <2>2. cl[t] = hlen[t] /\ size[t] = hlen[t] /\ hlen[t] > 0 /\ moved[t] = 0 /\ body[t] = << >>
    BY <1>1, <2>1 DEF Sending
  <2>3. buffer[t] = Cells(want[t], hlen[t]) /\ buffer[t] \in Seq(Cell)
    BY <1>1, <2>1, <2>2 DEF Sending
  <2>4. b = Cells(want[t], hlen[t])
    BY <1>1, <2>2, <2>3
  <2>5. moved'[t] = hlen[t] /\ body'[t] = Cells(want[t], hlen[t])
    BY <1>1, <1>2, <2>2, <2>4
  <2>. QED  BY <1>2, <2>1, <2>5 DEF Sending, curl, Cells
<1>. QED  BY <1>1, <1>2, <1>4, <1>5, <1>6 DEF Kept, Sent, Ending, curl

LEMMA SendFailsKeeps ==
    ASSUME Types, NEW t \in Threads, Kept(t), SendFails(t)
    PROVE  Types' /\ Kept(t)'
<1>1. /\ pc[t] = "send" /\ hlen[t] \in Nat
      /\ moved[t] \in Int /\ cl[t] \in Int /\ 0 <= moved[t] /\ moved[t] < cl[t]
  BY DEF Types, SendFails
<1>2. /\ moved' = [moved EXCEPT ![t] = moved[t] - 1] /\ moved'[t] = moved[t] - 1
      /\ UNCHANGED <<pc, request, curl, global, fds>>
  BY DEF Types, SendFails
<1>3. Types'
  BY <1>1, <1>2 DEF Types, request, curl, global
<1>4. Placed(t)' /\ Told(t)' /\ BufferFits(t)'
  BY <1>1, <1>2 DEF Kept, Placed, Told, Starting, Ending, Servable, BufferFits, request, curl
<1>5. ASSUME t \notin starved PROVE Sending(t)'
  <2>1. Sending(t)
    BY <1>1, <1>5 DEF Kept, Sent, Ending
  <2>2. moved[t] <= 0 /\ body[t] = << >>
    BY <1>1, <2>1 DEF Sending
  <2>3. moved'[t] <= 0
    BY <1>1, <1>2, <2>2
  <2>. QED  BY <1>2, <2>1, <2>2, <2>3 DEF Sending, request, curl, Cells
<1>. QED  BY <1>1, <1>2, <1>3, <1>4, <1>5 DEF Kept, Sent, Ending, curl

LEMMA LoopEndsKeeps ==
    ASSUME Types, NEW t \in Threads, Kept(t), LoopEnds(t)
    PROVE  Types' /\ Kept(t)'
<1>1. /\ pc[t] = "send" /\ hlen[t] \in Nat /\ t \in CurlThreads /\ want[t] \in Paths
      /\ status[t] = "OK" /\ moved[t] \in Int /\ cl[t] \in Int
      /\ (moved[t] < 0 \/ moved[t] >= cl[t])
  BY DEF Types, LoopEnds, Kept, Placed, Told, Starting, Ending
<1>2. /\ pc' = [pc EXCEPT ![t] = "cleanup"] /\ pc'[t] = "cleanup"
      /\ UNCHANGED <<request, curl, global, moved, fds>>
  BY DEF Types, LoopEnds, Go
<1>3. Types'
  BY <1>1, <1>2 DEF Types, request, curl, global
<1>4. Placed(t)' /\ Told(t)' /\ BufferFits(t)'
  BY <1>1, <1>2 DEF Kept, Placed, Told, Starting, Ending, Servable, BufferFits, request, curl
<1>5. ASSUME t \notin starved PROVE CleaningUp(t)
  <2>1. Sending(t)
    BY <1>1, <1>5 DEF Kept, Sent, Ending
  <2>2. CASE moved[t] < 0
    BY <1>1, <2>1, <2>2 DEF Sending, CleaningUp
  <2>3. CASE moved[t] >= 0
    <3>1. moved[t] >= hlen[t]
      BY <1>1, <2>1, <2>3 DEF Sending
    <3>2. Cells(want[t], 0) = << >>
      BY <1>1, CellsType DEF Cell
    <3>3. body[t] = Cells(want[t], hlen[t])
      BY <1>1, <2>1, <2>3, <3>1, <3>2 DEF Sending
    <3>. QED  BY <3>3 DEF CleaningUp
  <2>. QED  BY <1>1, <2>2, <2>3
<1>6. CleaningUp(t) => CleaningUp(t)'
  BY <1>2 DEF CleaningUp, request, Cells
<1>. QED  BY <1>1, <1>2, <1>3, <1>4, <1>5, <1>6 DEF Kept, Sent, Ending, curl

LEMMA CurlReturnKeeps ==
    ASSUME Types, NEW t \in Threads, Kept(t), CurlReturn(t)
    PROVE  Types' /\ Kept(t)'
<1>1. /\ pc[t] \in Ending /\ hlen[t] \in Nat /\ want[t] \in Paths
      /\ (status[t] = "OK" \/ t \in failed) /\ moved[t] \in Int
  BY DEF Types, CurlReturn, Kept, Placed, Told, Starting, Ending, Ending
<1>2. /\ pc' = [pc EXCEPT ![t] = "returned"] /\ pc'[t] = "returned"
      /\ ret' = [ret EXCEPT ![t] = IF moved[t] < 0 THEN "fail" ELSE "ok"]
      /\ ret'[t] = IF moved[t] < 0 THEN "fail" ELSE "ok"
      /\ UNCHANGED <<want, status, hlen, body, curl, global, moved, fds>>
  BY DEF Types, CurlReturn, Return, Go
<1>3. Types'
  BY <1>1, <1>2 DEF Types, curl, global
<1>4. Placed(t)' /\ Told(t)' /\ BufferFits(t)'
  BY <1>1, <1>2 DEF Kept, Placed, Told, Starting, Ending, Servable, BufferFits, curl
<1>5. ASSUME t \notin starved PROVE Returned(t)'
  <2>1. CleaningUp(t)
    BY <1>1, <1>5 DEF Kept, Sent, Ending
  <2>2. CASE body[t] = Cells(want[t], hlen[t])
    <3>1. body'[t] = Cells(want'[t], hlen'[t]) /\ hlen'[t] \in Nat
      BY <1>1, <1>2, <2>2
    <3>. QED  BY <3>1 DEF Returned, Cells
  <2>3. CASE body[t] = << >> /\ (moved[t] < 0 \/ status[t] = "none")
    <3>1. Cells(want'[t], 0) = << >>
      BY <1>1, <1>2, CellsType DEF Cell
    <3>2. hlen'[t] \in Nat /\ body'[t] = << >> /\ ~(ret'[t] = "ok" /\ status'[t] = "OK")
      BY <1>1, <1>2, <2>3
    <3>. QED  BY <3>1, <3>2 DEF Returned, Cells
  <2>. QED  BY <2>1, <2>2, <2>3 DEF CleaningUp
<1>. QED  BY <1>1, <1>2, <1>3, <1>4, <1>5 DEF Kept, Sent, Ending, curl

LEMMA OpenFileKeeps ==
    ASSUME Types, NEW t \in Threads, Kept(t), OpenFile(t)
    PROVE  Types' /\ Kept(t)'
<1>1. /\ pc[t] = "open" /\ t \notin CurlThreads /\ want[t] \in Paths
      /\ Size[want[t]] \in Nat /\ status[t] = "none" /\ body[t] = << >>
      /\ moved[t] = 0 /\ hlen[t] \in Nat /\ fds \in 0..FdLimit /\ FdLimit \in Nat
  BY HandlersAssumption DEF Types, Kept, Placed, Told, Starting, Ending, OpenFile
<1>2. UNCHANGED <<want, body, curl, global, moved>>
  BY DEF OpenFile
<1>3. Cells(want[t], 0) = << >>
  BY <1>1, CellsType DEF Cell
<1>4. CASE /\ fds < FdLimit /\ want[t] \in Exists
           /\ fds' = fds + 1
           /\ Header(t, "OK", Size[want[t]]) /\ Go(t, "read") /\ UNCHANGED ret
  <2>1. pc'[t] = "read" /\ status'[t] = "OK" /\ hlen'[t] = Size[want[t]]
    BY <1>4 DEF Types, Header, Go
  <2>2. Types'
    BY <1>1, <1>2, <1>4 DEF Types, curl, global, Header, Go
  <2>3. Placed(t)' /\ Told(t)' /\ BufferFits(t)'
    BY <1>1, <1>2, <1>4, <2>1 DEF Kept, Placed, Told, Starting, Ending, Servable, BufferFits, curl
  <2>4. Reading(t)'
    BY <1>1, <1>2, <1>3, <2>1 DEF Reading, Cells
  <2>. QED  BY <2>1, <2>2, <2>3, <2>4 DEF Kept, Sent, Ending
<1>5. CASE /\ want[t] \notin Exists
           /\ Header(t, "FILE_NOT_FOUND", 0) /\ Return(t, "ok") /\ UNCHANGED fds
  <2>1. pc'[t] = "returned" /\ status'[t] = "FILE_NOT_FOUND" /\ hlen'[t] = 0 /\ ret'[t] = "ok"
    BY <1>5 DEF Types, Header, Return, Go
  <2>2. Types'
    BY <1>1, <1>2, <1>5 DEF Types, curl, global, Header, Return, Go
  <2>3. Placed(t)' /\ Told(t)' /\ BufferFits(t)'
    BY <1>1, <1>2, <1>5, <2>1 DEF Kept, Placed, Told, Starting, Ending, Servable, BufferFits, curl
  <2>4. Returned(t)'
    BY <1>1, <1>2, <1>3, <2>1 DEF Returned, Cells
  <2>. QED  BY <2>1, <2>2, <2>3, <2>4 DEF Kept, Sent, Ending
<1>6. CASE Silent(t) /\ Return(t, "fail") /\ UNCHANGED fds
  <2>1. /\ pc'[t] = "returned" /\ ret'[t] = "fail" /\ UNCHANGED <<status, hlen>>
    BY <1>6 DEF Types, Silent, Return, Go
  <2>2. Types'
    BY <1>2, <1>6 DEF Types, curl, global, Silent, Return, Go
  <2>3. Placed(t)' /\ Told(t)' /\ BufferFits(t)'
    BY <1>1, <1>2, <2>1 DEF Kept, Placed, Told, Starting, Ending, Servable, BufferFits, curl
  <2>4. Returned(t)'
    BY <1>1, <1>2, <1>3, <2>1 DEF Returned, Cells
  <2>. QED  BY <2>1, <2>2, <2>3, <2>4 DEF Kept, Sent, Ending
<1>. QED  BY <1>4, <1>5, <1>6 DEF OpenFile

LEMMA StatFailsKeeps ==
    ASSUME Types, NEW t \in Threads, Kept(t), StatFails(t)
    PROVE  Types' /\ Kept(t)'
<1>1. /\ pc[t] = "open" /\ want[t] \in Paths /\ body[t] = << >> /\ hlen[t] \in Nat
      /\ fds < FdLimit /\ fds \in 0..FdLimit /\ FdLimit \in Nat
  BY HandlersAssumption DEF Types, Kept, Placed, Told, Starting, Ending, StatFails
<1>2. /\ fds' = fds + 1 /\ pc' = [pc EXCEPT ![t] = "returned"] /\ pc'[t] = "returned"
      /\ ret' = [ret EXCEPT ![t] = "fail"] /\ ret'[t] = "fail"
      /\ UNCHANGED <<want, status, hlen, body, curl, global, moved>>
  BY DEF Types, StatFails, Return, Go
<1>3. Types'
  BY <1>1, <1>2 DEF Types, curl, global
<1>4. Placed(t)' /\ Told(t)' /\ BufferFits(t)'
  BY <1>1, <1>2 DEF Kept, Placed, Told, Starting, Ending, Servable, BufferFits, curl
<1>5. Returned(t)'
  <2>1. Cells(want[t], 0) = << >>
    BY <1>1, CellsType DEF Cell
  <2>. QED  BY <1>1, <1>2, <2>1 DEF Returned, Cells
<1>. QED  BY <1>2, <1>3, <1>4, <1>5 DEF Kept, Sent, Ending

LEMMA ReadChunkKeeps ==
    ASSUME Types, NEW t \in Threads, Kept(t), ReadChunk(t)
    PROVE  Types' /\ Kept(t)'
<1>. DEFINE n == Least(Chunk, Size[want[t]] - moved[t])
<1>1. /\ pc[t] = "read" /\ t \notin CurlThreads /\ want[t] \in Paths /\ hlen[t] \in Nat
      /\ moved[t] \in Int /\ moved[t] < hlen[t] /\ hlen[t] = Size[want[t]]
      /\ body[t] \in Seq(Cell)
  BY DEF Types, Kept, Placed, Told, Starting, Ending, ReadChunk
<1>2. n \in Int /\ (moved[t] >= 0 => n \in Nat /\ moved[t] + n <= hlen[t])
  BY <1>1, HandlersAssumption DEF Least
<1>3. /\ body' = [body EXCEPT ![t] = body[t] \o Cells(want[t], n)]
      /\ body'[t] = body[t] \o Cells(want[t], n)
      /\ moved' = [moved EXCEPT ![t] = moved[t] + n] /\ moved'[t] = moved[t] + n
      /\ UNCHANGED <<pc, want, status, hlen, ret, curl, global, fds>>
  BY DEF Types, ReadChunk
<1>4. Cells(want[t], n) \in Seq(Cell)
  BY <1>1, <1>2 DEF Cells, Cell
<1>5. Types'
  <2>1. body[t] \o Cells(want[t], n) \in Seq(Cell) /\ moved[t] + n \in Int
    <3>. HIDE DEF n
    <3>. QED  BY <1>1, <1>2, <1>4
  <2>2. body' \in [Threads -> Seq(Cell)] /\ moved' \in [Threads -> Int]
    <3>. HIDE DEF n
    <3>. QED  BY <1>3, <2>1 DEF Types
  <2>. QED  BY <1>3, <2>2 DEF Types, curl, global
<1>6. Placed(t)' /\ Told(t)' /\ BufferFits(t)'
  BY <1>1, <1>3 DEF Kept, Placed, Told, Starting, Ending, Servable, BufferFits, curl
<1>7. ASSUME t \notin starved PROVE Reading(t)'
  <2>1. moved[t] \in Nat /\ body[t] = Cells(want[t], moved[t])
    BY <1>1, <1>7 DEF Kept, Sent, Ending, Reading
  <2>2. Cells(want[t], moved[t]) \o Cells(want[t], n) = Cells(want[t], moved[t] + n)
    <3>. HIDE DEF n
    <3>1. want[t] \in Cell /\ moved[t] \in Nat /\ n \in Nat
      BY <1>1, <1>2, <2>1 DEF Cell
    <3>. QED  BY <3>1, CellsJoin
  <2>3. moved'[t] \in 0..hlen[t]
    BY <1>1, <1>2, <1>3, <2>1
  <2>. QED  BY <1>3, <2>1, <2>2, <2>3 DEF Reading, Cells
<1>. QED  BY <1>1, <1>3, <1>5, <1>6, <1>7 DEF Kept, Sent, Ending, curl

LEMMA ReadFailsKeeps ==
    ASSUME Types, NEW t \in Threads, Kept(t), ReadFails(t)
    PROVE  Types' /\ Kept(t)'
<1>1. /\ pc[t] = "read" /\ want[t] \in Paths /\ hlen[t] \in Nat
  BY DEF Types, Kept, Placed, ReadFails
<1>2. /\ pc' = [pc EXCEPT ![t] = "returned"] /\ pc'[t] = "returned"
      /\ ret' = [ret EXCEPT ![t] = "fail"] /\ ret'[t] = "fail"
      /\ UNCHANGED <<want, status, hlen, body, curl, global, moved, fds>>
  BY DEF Types, ReadFails, Return, Go
<1>3. Types'
  BY <1>2 DEF Types, curl, global
<1>4. Placed(t)' /\ Told(t)' /\ BufferFits(t)'
  BY <1>1, <1>2 DEF Kept, Placed, Told, Starting, Ending, Servable, BufferFits, curl
<1>5. ASSUME t \notin starved PROVE Returned(t)'
  <2>1. Reading(t)
    BY <1>1, <1>5 DEF Kept, Sent, Ending
  <2>2. /\ moved[t] \in 0..hlen'[t] /\ body'[t] = Cells(want'[t], moved[t])
        /\ ret'[t] # "ok"
    BY <1>2, <2>1 DEF Reading
  <2>. QED  BY <2>2 DEF Returned, Cells
<1>. QED  BY <1>2, <1>3, <1>4, <1>5 DEF Kept, Sent, Ending, curl

LEMMA ReadDoneKeeps ==
    ASSUME Types, NEW t \in Threads, Kept(t), ReadDone(t)
    PROVE  Types' /\ Kept(t)'
<1>1. /\ pc[t] = "read" /\ want[t] \in Paths /\ hlen[t] \in Nat
      /\ moved[t] >= hlen[t] /\ status[t] = "OK"
  BY DEF Types, Kept, Placed, Told, Starting, Ending, ReadDone
<1>2. /\ pc' = [pc EXCEPT ![t] = "returned"] /\ pc'[t] = "returned"
      /\ ret' = [ret EXCEPT ![t] = "ok"] /\ ret'[t] = "ok"
      /\ UNCHANGED <<want, status, hlen, body, curl, global, moved, fds>>
  BY DEF Types, ReadDone, Return, Go
<1>3. Types'
  BY <1>2 DEF Types, curl, global
<1>4. Placed(t)' /\ Told(t)' /\ BufferFits(t)'
  BY <1>1, <1>2 DEF Kept, Placed, Told, Starting, Ending, Servable, BufferFits, curl
<1>5. ASSUME t \notin starved PROVE Returned(t)'
  <2>1. Reading(t)
    BY <1>1, <1>5 DEF Kept, Sent, Ending
  <2>2. moved[t] = hlen[t]
    BY <1>1, <2>1 DEF Reading
  <2>. QED  BY <1>1, <1>2, <2>1, <2>2 DEF Reading, Returned, Cells
<1>. QED  BY <1>2, <1>3, <1>4, <1>5 DEF Kept, Sent, Ending, curl

LEMMA StepKeeps ==
    ASSUME Types, NEW t \in Threads, Kept(t), Accept(t) \/ HandlerStep(t)
    PROVE  Types' /\ Kept(t)'
  BY AcceptKeeps, CloseKeeps, GlobalKeeps, EasyInitKeeps, EasyInitFailsKeeps, WriteMemoryKeeps,
     PerformedKeeps, PerformFailsKeeps, SendBufferKeeps, SendFailsKeeps, LoopEndsKeeps,
     CurlReturnKeeps, OpenFileKeeps, StatFailsKeeps, ReadChunkKeeps, ReadFailsKeeps,
     ReadDoneKeeps
     DEF HandlerStep, CurlStep, FileStep

\* Every step keeps the invariant.
LEMMA NextKeeps == IInv /\ [Next]_vars => IInv'
<1>. SUFFICES ASSUME IInv, [Next]_vars PROVE IInv'
  OBVIOUS
<1>1. ASSUME NEW t \in Threads, Accept(t) \/ HandlerStep(t) PROVE IInv'
  <2>1. Types /\ \A u \in Threads : Kept(u)
    BY DEF IInv
  <2>2. Types' /\ Kept(t)'
    BY <1>1, <2>1, StepKeeps
  <2>3. \A u \in Threads : Kept(u)'
    BY <1>1, <2>1, <2>2, OthersKept
  <2>. QED  BY <2>2, <2>3 DEF IInv
<1>2. CASE UNCHANGED vars
  <2>1. Types'
    BY <1>2 DEF IInv, Types, vars, request, curl, global
  <2>2. ASSUME NEW u \in Threads PROVE Kept(u)'
    <3>1. Kept(u)
      BY DEF IInv
    <3>2. Placed(u)' /\ Told(u)' /\ BufferFits(u)'
      BY <1>2, <3>1
         DEF Kept, Placed, Told, Servable, BufferFits, vars, request, curl, global
    <3>3. (u \notin starved => Sent(u)) => (u \notin starved' => Sent(u)')
      BY <1>2
         DEF Sent, Performing, Sending, CleaningUp, Reading, Returned, Cells, vars, request, curl
    <3>. QED  BY <3>1, <3>2, <3>3 DEF Kept
  <2>. QED  BY <2>1, <2>2 DEF IInv
<1>. QED  BY <1>1, <1>2 DEF Next

LEMMA Invariance == Spec => []IInv
  BY InitState, NextKeeps, PTL DEF Spec

(***************************************************************************)
(* libcurl's global state.  A thread holds it from the store of its count  *)
(* to the store that takes it back; as long as no two threads have met in  *)
(* the global calls, the count is at least that of those who hold it.      *)
(***************************************************************************)
Holding == {"setup", "easy", "perform", "send", "cleanup", "uncount"}
Holders == {t \in CurlThreads : pc[t] \in Holding}

Alone == \A t, u \in Threads : InGlobal(t) /\ InGlobal(u) => t = u

InStep(t) ==
    /\ pc[t] \in {"count", "uncount"} => loaded[t] = inits
    /\ pc[t] = "setup" => inits = 1
    /\ pc[t] = "teardown" => inits = 0

SetUp == inits > 0 /\ (\A t \in Threads : pc[t] # "setup") => ready

Balanced ==
    /\ Alone /\ SetUp
    /\ \A t \in Threads : InStep(t)
    /\ Cardinality(Holders) <= inits

CountInv == ~met => Balanced

LEMMA HoldersFinite == IsFiniteSet(Holders) /\ Cardinality(Holders) \in Nat
  BY FS_Subset, FS_CardinalityType, HandlersAssumption DEF Holders

\* A step outside the global calls, or the first of one, leaves the count; it
\* adds no holder.
LEMMA CountLeft ==
    ASSUME Types, Balanced, NEW t \in Threads,
           \A u \in Threads \ {t} : pc'[u] = pc[u] /\ loaded'[u] = loaded[u],
           inits' = inits, ready' = ready, ~InGlobal(t),
           \/ ~InGlobal(t)' /\ pc'[t] # "setup"
           \/ /\ pc'[t] \in {"count", "uncount"} /\ loaded'[t] = inits
              /\ \A u \in Threads : ~InGlobal(u),
           pc'[t] \in Holding => pc[t] \in Holding
    PROVE  Balanced'
<1>1. Alone'
  BY DEF Balanced, Alone, InGlobal
<1>2. SetUp'
  BY DEF Balanced, SetUp, InGlobal
<1>3. \A u \in Threads : InStep(u)'
  BY DEF Balanced, InStep, InGlobal
<1>4. Holders' \subseteq Holders
  BY DEF Holders, Threads
<1>5. Cardinality(Holders') <= inits' /\ inits \in Nat
  <2>1. Cardinality(Holders') <= Cardinality(Holders) /\ Cardinality(Holders') \in Nat
    BY <1>4, HoldersFinite, FS_Subset, FS_CardinalityType
  <2>. QED  BY <2>1, HoldersFinite DEF Balanced, Types
<1>. QED  BY <1>1, <1>2, <1>3, <1>5 DEF Balanced

\* The store of the count, and what follows it, with no one else in between.
LEMMA CountStored ==
    ASSUME Types, Types', Balanced, NEW t \in Threads, Placed(t),
           \A u \in Threads \ {t} : pc'[u] = pc[u] /\ loaded'[u] = loaded[u],
           GlobalCount(t) \/ GlobalSetUp(t) \/ GlobalUncount(t) \/ GlobalTearDown(t)
    PROVE  Balanced'
<1>1. InGlobal(t) /\ inits \in Nat /\ loaded[t] \in Nat /\ t \in CurlThreads
  BY DEF GlobalCount, GlobalSetUp, GlobalUncount, GlobalTearDown, InGlobal, Types, Placed
<1>2. \A u \in Threads \ {t} : ~InGlobal(u) /\ ~InGlobal(u)'
  BY <1>1 DEF Balanced, Alone, InGlobal
<1>3. Alone'
  BY <1>2 DEF Alone
<1>4. InStep(t) /\ SetUp /\ Cardinality(Holders) <= inits
  BY DEF Balanced
<1>5. \A u \in Threads \ {t} : InStep(u)'
  BY <1>2 DEF InStep, InGlobal
<1>6. InStep(t)' /\ SetUp' /\ Cardinality(Holders') <= inits'
  <2>1. CASE GlobalCount(t)
    <3>1. /\ pc[t] = "count" /\ loaded[t] = inits /\ inits' = inits + 1 /\ ready' = ready
          /\ pc'[t] = IF inits = 0 THEN "setup" ELSE "easy"
      BY <1>4, <2>1 DEF GlobalCount, Go, InStep, Types
    <3>2. Holders' = Holders \cup {t} /\ t \notin Holders
      BY <1>1, <3>1 DEF Holders, Holding, Threads
    <3>3. Cardinality(Holders') <= inits'
      <4>1. Cardinality(Holders') = Cardinality(Holders) + 1
        BY <3>2, HoldersFinite, FS_AddElement
      <4>. QED  BY <1>1, <1>4, <3>1, <4>1, HoldersFinite
    <3>4. SetUp'
      BY <1>1, <1>2, <1>4, <3>1 DEF SetUp, InGlobal
    <3>. QED  BY <1>1, <3>1, <3>3, <3>4 DEF InStep
  <2>2. CASE GlobalSetUp(t)
    <3>1. /\ pc[t] = "setup" /\ pc'[t] = "easy" /\ inits' = inits /\ ready' = TRUE
      BY <2>2 DEF GlobalSetUp, Go, Types
    <3>2. Holders' = Holders
      BY <1>1, <3>1 DEF Holders, Holding, Threads
    <3>. QED  BY <1>4, <3>1, <3>2 DEF InStep, SetUp
  <2>3. CASE GlobalUncount(t)
    <3>1. /\ pc[t] = "uncount" /\ loaded[t] = inits /\ inits' = inits - 1 /\ ready' = ready
          /\ pc'[t] = IF inits = 1 THEN "teardown" ELSE "clean"
      BY <1>4, <2>3 DEF GlobalUncount, Go, InStep, Types
    <3>2. Holders' = Holders \ {t} /\ t \in Holders
      BY <1>1, <3>1 DEF Holders, Holding, Threads
    <3>3. Cardinality(Holders') <= inits'
      <4>1. Cardinality(Holders') = Cardinality(Holders) - 1
        BY <3>2, HoldersFinite, FS_RemoveElement
      <4>. QED  BY <1>1, <1>4, <3>1, <4>1, HoldersFinite
    <3>4. SetUp'
      BY <1>1, <1>2, <1>4, <3>1 DEF SetUp, InGlobal
    <3>. QED  BY <1>1, <3>1, <3>3, <3>4 DEF InStep
  <2>4. CASE GlobalTearDown(t)
    <3>1. /\ pc[t] = "teardown" /\ pc'[t] = "clean" /\ inits' = inits /\ inits = 0
      BY <1>4, <2>4 DEF GlobalTearDown, Go, Types, InStep
    <3>2. Holders' = Holders
      BY <1>1, <3>1 DEF Holders, Holding, Threads
    <3>. QED  BY <1>4, <3>1, <3>2 DEF InStep, SetUp
  <2>. QED  BY <2>1, <2>2, <2>3, <2>4
<1>. QED  BY <1>3, <1>5, <1>6 DEF Balanced

\* One that holds is counted, so neither curl_easy_init nor the cleanup finds 0.
LEMMA HolderCounted ==
    ASSUME Types, Balanced, NEW t \in CurlThreads, pc[t] \in Holding
    PROVE  inits > 0
<1>1. t \in Holders
  BY DEF Holders
<1>2. Cardinality(Holders) # 0
  BY <1>1, HoldersFinite, FS_EmptySet
<1>. QED  BY <1>2, HoldersFinite DEF Balanced, Types

LEMMA CountKept ==
    ASSUME IInv, IInv', Balanced, ~met', NEW t \in Threads, Accept(t) \/ HandlerStep(t)
    PROVE  Balanced'
<1>1. Types /\ Types' /\ Placed(t)
  BY DEF IInv, Kept
<1>2. \A u \in Threads \ {t} : pc'[u] = pc[u] /\ loaded'[u] = loaded[u]
  BY <1>1, OthersUntouched
<1>4. CASE GlobalCount(t) \/ GlobalSetUp(t) \/ GlobalUncount(t) \/ GlobalTearDown(t)
  BY <1>1, <1>2, <1>4, CountStored
<1>5. CASE GlobalInit(t) \/ CleanUp(t)
  <2>1. /\ ~InGlobal(t) /\ inits' = inits /\ ready' = ready
        /\ pc'[t] \in {"count", "uncount"} /\ loaded'[t] = inits
        /\ pc'[t] \in Holding => pc[t] \in Holding
    BY <1>1, <1>5 DEF GlobalInit, CleanUp, LoadsCount, Go, Types, InGlobal, Holding
  <2>2. \A u \in Threads : ~InGlobal(u)
    BY <1>5 DEF GlobalInit, CleanUp, LoadsCount
  <2>. QED  BY <1>1, <1>2, <2>1, <2>2, CountLeft
<1>6. CASE \/ Accept(t) \/ Close(t) \/ FileStep(t)
           \/ EasyInitsGlobal(t) \/ EasyInit(t) \/ EasyInitFails(t)
           \/ WriteMemory(t) \/ Performed(t) \/ PerformFails(t)
           \/ SendBuffer(t) \/ SendFails(t) \/ LoopEnds(t) \/ CurlReturn(t)
  <2>1. inits' = inits /\ ready' = ready
    BY <1>6 DEF Accept, Close, FileStep, OpenFile, StatFails, ReadChunk, ReadFails, ReadDone,
        EasyInitsGlobal, EasyInit, EasyInitFails, WriteMemory, Performed, PerformFails,
        SendBuffer, SendFails, LoopEnds, CurlReturn, global
  <2>2. /\ ~InGlobal(t) /\ ~InGlobal(t)' /\ pc'[t] # "setup"
        /\ pc'[t] \in Holding => pc[t] \in Holding
    <3>1. CASE Accept(t) \/ Close(t) \/ FileStep(t)
      BY <1>1, <3>1 DEF Accept, Close, FileStep, OpenFile, StatFails, ReadChunk, ReadFails,
          ReadDone, Go, Return, Types, InGlobal, Holding
    <3>2. CASE EasyInitsGlobal(t) \/ EasyInit(t) \/ EasyInitFails(t) \/ WriteMemory(t)
      BY <1>1, <3>2 DEF EasyInitsGlobal, EasyInit, EasyInitFails, WriteMemory, Go, Types,
          InGlobal, Holding
    <3>3. CASE Performed(t) \/ PerformFails(t)
      <4>1. pc[t] = "perform" /\ \E l \in {"send", "returned", "cleanup"} : pc' = [pc EXCEPT ![t] = l]
        BY <3>3 DEF Performed, PerformFails, Go, Return
      <4>. QED  BY <1>1, <4>1 DEF Types, InGlobal, Holding
    <3>4. CASE SendBuffer(t) \/ SendFails(t) \/ LoopEnds(t) \/ CurlReturn(t)
      BY <1>1, <3>4 DEF SendBuffer, SendFails, LoopEnds, CurlReturn, Go, Return, Types,
          InGlobal, Holding
    <3>. QED  BY <1>6, <3>1, <3>2, <3>3, <3>4
  <2>. QED  BY <1>1, <1>2, <2>1, <2>2, CountLeft
<1>. QED  BY <1>4, <1>5, <1>6 DEF HandlerStep, CurlStep

LEMMA CountInvariance == Spec => []CountInv
<1>1. Init => CountInv
  <2>. SUFFICES ASSUME Init PROVE Balanced
    BY DEF CountInv
  <2>1. \A t \in Threads : pc[t] = "idle"
    BY DEF Init
  <2>2. Holders = {}
    BY <2>1 DEF Holders, Holding, Threads
  <2>3. inits = 0 /\ Cardinality(Holders) = 0
    BY <2>2, FS_EmptySet DEF Init
  <2>. QED  BY <2>1, <2>3 DEF Balanced, Alone, SetUp, InStep, InGlobal
<1>2. IInv /\ IInv' /\ CountInv /\ [Next]_vars => CountInv'
  <2>. SUFFICES ASSUME IInv, IInv', CountInv, [Next]_vars, ~met' PROVE Balanced'
    BY DEF CountInv
  <2>1. ASSUME NEW t \in Threads, Accept(t) \/ HandlerStep(t) PROVE Balanced'
    <3>1. ~met
      BY <2>1 DEF Accept, HandlerStep, Close, CurlStep, FileStep, GlobalInit, GlobalCount,
          GlobalSetUp, LoadsCount, EasyInitsGlobal, EasyInit, EasyInitFails, WriteMemory,
          Performed, PerformFails, SendBuffer, SendFails, LoopEnds, CleanUp, GlobalUncount,
          GlobalTearDown, CurlReturn, OpenFile, StatFails, ReadChunk, ReadFails, ReadDone, global
    <3>. QED  BY <2>1, <3>1, CountKept DEF CountInv
  <2>2. CASE UNCHANGED vars
    BY <2>2 DEF vars, global, CountInv, Balanced, Alone, SetUp, InStep, InGlobal, Holders
  <2>. QED  BY <2>1, <2>2 DEF Next
<1>. QED  BY <1>1, <1>2, Invariance, PTL DEF Spec

(***************************************************************************)
(* What follows.                                                           *)
(***************************************************************************)

\* Every variable keeps its type, a buffer is as long as output.size says, and
\* libcurl's count never falls below 0, overlapping calls and all.
THEOREM TypeCorrect == Spec => []TypeOK
<1>1. IInv => TypeOK
  BY DEF IInv, Types, TypeOK, Kept, BufferFits, Cell
<1>. QED  BY <1>1, Invariance, PTL

\* gfs_sendheader says OK, with the true length, only for a file that is there
\* or, with curl, for what the web server announces a length for, be it an error
\* page; and "not found" only otherwise, with every failure of realloc, of
\* libcurl, of open and of fstat in between.
THEOREM HeadersAreTrue == Spec => []HeaderIsTrue
<1>1. IInv => HeaderIsTrue
  BY DEF IInv, Kept, Told, HeaderIsTrue
<1>. QED  BY <1>1, Invariance, PTL

\* What gfs_send is given is the start of the requested file, and all of it
\* when the handler reports success: no other thread's file, no buffer twice,
\* unless a realloc of this request failed.
THEOREM BodiesAreOwn == Spec => []BodyIsOwn
<1>1. ASSUME IInv, NEW t \in Threads, pc[t] # "idle", t \notin starved
      PROVE  \E n \in 0..hlen[t] :
                /\ body[t] = Cells(want[t], n)
                /\ ret[t] = "ok" /\ status[t] = "OK" => n = hlen[t]
  <2>1. Types /\ Placed(t) /\ Told(t) /\ Sent(t) /\ want[t] \in Paths /\ hlen[t] \in Nat
    BY <1>1 DEF IInv, Kept, Placed, Types
  <2>2. Cells(want[t], 0) = << >>
    BY <2>1, CellsType DEF Cell
  <2>3. CASE pc[t] = "returned"
    BY <2>1, <2>3 DEF Sent, Returned
  <2>4. CASE pc[t] # "returned"
    <3>1. ret[t] = "unset"
      BY <1>1, <2>1, <2>4 DEF Placed
    <3>2. \E n \in 0..hlen[t] : body[t] = Cells(want[t], n)
      <4>1. CASE pc[t] \in Starting \cup {"perform"}
        BY <2>1, <2>2, <4>1 DEF Told
      <4>2. CASE pc[t] = "send"
        BY <2>1, <2>2, <4>2 DEF Sent, Sending
      <4>3. CASE pc[t] \in Ending
        BY <2>1, <2>2, <4>3 DEF Sent, CleaningUp
      <4>4. CASE pc[t] = "read"
        BY <2>1, <4>4 DEF Sent, Reading
      <4>. QED  BY <1>1, <2>1, <2>4, <4>1, <4>2, <4>3, <4>4 DEF Types, Starting, Ending
    <3>. QED  BY <3>1, <3>2
  <2>. QED  BY <2>3, <2>4
<1>2. IInv => BodyIsOwn
  <2>. SUFFICES ASSUME IInv, NEW t \in Threads, pc[t] # "idle", t \notin starved
                PROVE  /\ body[t] = Cells(want[t], Len(body[t])) /\ Len(body[t]) <= hlen[t]
                       /\ ret[t] = "ok" /\ status[t] = "OK" => Len(body[t]) = hlen[t]
    BY DEF BodyIsOwn
  <2>1. PICK n \in 0..hlen[t] :
                /\ body[t] = Cells(want[t], n)
                /\ ret[t] = "ok" /\ status[t] = "OK" => n = hlen[t]
    BY <1>1
  <2>2. want[t] \in Cell /\ n \in Nat /\ hlen[t] \in Nat /\ n <= hlen[t]
    BY DEF IInv, Types, Cell
  <2>3. Len(body[t]) = n
    BY <2>1, <2>2, CellsType
  <2>. QED  BY <2>1, <2>2, <2>3
<1>. QED  BY <1>2, Invariance, PTL

\* A handler that reports success has sent a header, or its curl_easy_perform
\* or curl_easy_init failed.
THEOREM SuccessesAreAnswered == Spec => []SuccessIsAnswered
<1>1. IInv => SuccessIsAnswered
  BY DEF IInv, Kept, Told, SuccessIsAnswered
<1>. QED  BY <1>1, Invariance, PTL

\* Until two threads meet in curl_global_init or curl_global_cleanup, no thread
\* uses libcurl before its global state is set up or after it is torn down: on
\* every path, failures and the early return included, a handler takes back no
\* more than it has counted.
THEOREM GlobalStateIsHeld == Spec => []GlobalStateHeld
<1>1. IInv /\ CountInv => GlobalStateHeld
  <2>. SUFFICES ASSUME IInv, Balanced, NEW t \in CurlThreads, UsesLibcurl(t) PROVE ready
    BY DEF CountInv, GlobalStateHeld
  <2>1. t \in Holders /\ Types /\ inits > 0
    BY HolderCounted DEF UsesLibcurl, Holders, Holding, IInv
  <2>2. ASSUME NEW u \in Threads, pc[u] = "setup" PROVE FALSE
    <3>1. u \in Holders /\ u # t /\ inits = 1
      BY <2>2 DEF IInv, Kept, Placed, Holders, Holding, UsesLibcurl, Balanced, InStep
    <3>2. Cardinality(Holders) <= 1 /\ Cardinality(Holders) \in Nat /\ IsFiniteSet(Holders)
      BY <3>1, HoldersFinite DEF Balanced
    <3>3. IsFiniteSet({t, u}) /\ Cardinality({t, u}) = 2
      <4>1. IsFiniteSet({t}) /\ Cardinality({t}) = 1 /\ u \notin {t} /\ {t} \cup {u} = {t, u}
        BY <3>1, FS_Singleton
      <4>. QED  BY <4>1, FS_AddElement
    <3>4. Cardinality({t, u}) <= Cardinality(Holders)
      BY <2>1, <3>1, <3>2, FS_Subset
    <3>. QED  BY <3>2, <3>3, <3>4
  <2>. QED  BY <2>1, <2>2 DEF Balanced, SetUp
<1>. QED  BY <1>1, Invariance, CountInvariance, PTL
===============================================================================
