------------------------------- MODULE GetFile -------------------------------
(***************************************************************************)
(* The Getfile programs of gios-spr-2018-pr1-master/gflib: gfserver_main   *)
(* on gfserver.c, one connection at a time, and programs like              *)
(* gfclient_download on gfclient.c, one request at a time.  TCP delivers   *)
(* in order and cuts where it likes.  A request is three pieces, its words *)
(* and the directory and name of its path; a response is a header of three *)
(* cells and one cell per block of the file.                               *)
(***************************************************************************)
EXTENDS Naturals, Sequences, SequencesExt

CONSTANTS
    Clients,      \* client processes
    Dirs, Names,  \* first and last piece of a path
    NoSlash,      \* a first piece that does not start with '/'
    Size,         \* blocks of the file of each path in content.txt
    Junk,         \* bytes of a buffer nobody has written
    None,         \* no connection
    RecvBuf,      \* BUFSIZE of gfclient.c, in cells
    Window,       \* cells the kernel holds for a client that does not read
    MaxPending,   \* max_npending
    DigitsLimit, Radix,  \* the first length snprintf has no room for; ten
    FdLimit,      \* descriptors the server may have for connections
    Chunk,        \* cells a gfs_send of the handler carries
    Requests,     \* nrequests of each client
    Workload      \* the paths of its workload file

Paths == [dir : Dirs, name : Names]
Conns == UNION {{c} \X (1..Requests[c]) : c \in Clients}

ASSUME GetFileAssumption ==
    /\ NoSlash \in Dirs /\ Junk \notin Dirs \cup Names /\ None \notin Conns
    /\ DOMAIN Size \subseteq {p \in Paths : p.dir # NoSlash}
    /\ \A p \in DOMAIN Size : Size[p] \in Nat
    /\ RecvBuf \in Nat /\ RecvBuf > 3 /\ Window \in Nat /\ Window >= 3
    /\ MaxPending \in Nat /\ FdLimit \in Nat
    /\ Chunk \in 1..Window /\ Requests \in [Clients -> Nat \ {0}]
    /\ Workload \in [Clients -> SUBSET Paths]
    /\ Radix \in Nat /\ Radix > 1 /\ DigitsLimit \in Nat /\ DigitsLimit > 0

VARIABLES
    spc, cur,       \* the server: where it is, the connection it serves
    buffer,         \* what its request buffer holds, old bytes included
    out,            \* cells the handler has still to send
    leaked,         \* connections answered and never closed
    backlog, up, down,  \* accept queue; request pieces and cells in flight
    closed, hungup, \* connections closed by the server, by the client
    cpc, turn,      \* a client: where it is, the number of its request
    path, status, filelen, written, ret,  \* its gfcrequest_t and what it got
    cut             \* history: what of its connection arrived in pieces

server == <<spc, cur, buffer, out, leaked>>
client == <<cpc, turn, path, status, filelen, written, ret>>
vars == <<server, client, backlog, up, down, closed, hungup, cut>>

-----------------------------------------------------------------------------
\* The length as the header shows it: as many leading digits as there is room.
Announced(n) ==
    IF n < DigitsLimit THEN n
    ELSE Max({n \div (Radix^k) : k \in 1..n} \cap 0..(DigitsLimit - 1))

Cell(kind, p, n) == [kind |-> kind, of |-> p, n |-> n]
Header(s, p, n) == <<Cell(s, p, n), Cell("length", p, Announced(n)), Cell("end", p, n)>>
Blocks(p) == [i \in 1..Size[p] |-> Cell("data", p, i)]

\* getfile_handler: the header, and the file if the path has one.
Response(p) ==
    IF p \in DOMAIN Size
    THEN Header("OK", p, Size[p]) \o Blocks(p)
    ELSE Header("FILE_NOT_FOUND", p, 0)

ClientGone(k) == k \in hungup \/ cpc[k[1]] \in {"done", "crashed"}
ServerGone(k) == k \in closed \/ spc = "dead"
Cur(c) == <<c, turn[c]>>
Request(c) == <<"GETFILE GET", path[c].dir, path[c].name>>

Init ==
    /\ spc = "start" /\ cur = None /\ out = << >> /\ leaked = 0
    /\ buffer = [dir |-> Junk, name |-> Junk]
    /\ backlog = << >> /\ closed = {} /\ hungup = {}
    /\ up = [k \in Conns |-> << >>]
    /\ down = [k \in Conns |-> << >>]
    /\ cpc = [c \in Clients |-> "idle"] /\ turn = [c \in Clients |-> 1]
    /\ path = [c \in Clients |-> None]
    /\ status = [c \in Clients |-> "unset"]
    /\ filelen = [c \in Clients |-> 0]
    /\ written = [c \in Clients |-> << >>]
    /\ ret = [c \in Clients |-> "none"]
    /\ cut = [c \in Clients |-> {}]

-----------------------------------------------------------------------------
(* The server.                                                             *)

\* gfs->port points to the dead frame of gfserver_set_port, so getaddrinfo may
\* refuse it (exit); a bind that fails is tried again for ever.
Start ==
    /\ spc = "start"
    /\ spc' \in {"accept", "binding", "exited"}
    /\ UNCHANGED <<cur, buffer, out, leaked, client, backlog, up, down, closed, hungup, cut>>

CanAccept == leaked < FdLimit
Accept ==
    /\ spc = "accept" /\ backlog # << >> /\ CanAccept
    /\ cur' = Head(backlog) /\ backlog' = Tail(backlog) /\ spc' = "recv"
    /\ UNCHANGED <<buffer, out, leaked, client, up, down, closed, hungup, cut>>

\* One recv: some of the request, or nothing when the client hung up.
Arrivals(k) ==
    {n \in 0..Len(up[k]) : IF up[k] = << >> THEN ClientGone(k) ELSE n > 0}

\* Mutant: the name is not stored.
DropsName(n) == [buffer EXCEPT !.dir = IF n >= 2 THEN up[cur][2] ELSE @]

\* The buffer is not cleared: what did not come is what was there, the whole
\* path of an earlier request if only the words came.
Filled(n) ==
    [dir  |-> IF n >= 2 THEN up[cur][2] ELSE buffer.dir,
     name |-> IF n >= 3 THEN up[cur][3] ELSE buffer.name]

Receives(n) ==
    /\ spc = "recv" /\ n \in Arrivals(cur)
    /\ buffer' = Filled(n)
    /\ up' = [up EXCEPT ![cur] = SubSeq(@, n + 1, Len(@))]
    /\ cut' = [cut EXCEPT ![cur[1]] = IF n < 3 THEN @ \cup {"request"} ELSE @]
    /\ UNCHANGED <<leaked, client, backlog, hungup>>

\* '\0' first, or no path behind the words: exit(1), strlen(NULL).
DieOfRequest(n) ==
    /\ Receives(n)
    /\ Junk \in {buffer'.dir, buffer'.name}
    /\ spc' = "dead"
    /\ UNCHANGED <<cur, out, down, closed>>

\* Mutant: the request of the buffer before this one is tested.
WasMalformed == buffer.dir \in {NoSlash, Junk}

Malformed == buffer'.dir \in {NoSlash, Junk}

\* Other words, or no slash: the answer is sent and the context aborted.
RefuseRequest(n) ==
    /\ Receives(n)
    /\ Malformed
    /\ down' = [down EXCEPT ![cur] = Append(@, Cell("INVALID", buffer', 0))]
    /\ closed' = closed \cup {cur}
    /\ spc' = "accept" /\ cur' = None
    /\ UNCHANGED out

\* A path of junk names no file.
HandleRequest(n) ==
    /\ Receives(n)
    /\ ~Malformed
    /\ out' = Response(buffer')
    /\ spc' = "send"
    /\ UNCHANGED <<cur, down, closed>>

\* recv gives -1, on a connection that was reset: exit(1).
RecvFails ==
    /\ spc = "recv" /\ ClientGone(cur)
    /\ spc' = "dead"
    /\ UNCHANGED <<cur, buffer, out, leaked, client, backlog, up, down, closed, hungup, cut>>

ReadRequest ==
    \/ RecvFails
    \/ \E n \in 0..3 : DieOfRequest(n) \/ RefuseRequest(n) \/ HandleRequest(n)

\* One gfs_send: the header, or what one pread gave.
Piece == IF Head(out).kind = "data" /\ Len(out) > Chunk THEN Chunk
         ELSE IF Head(out).kind = "data" THEN Len(out) ELSE 3

\* It blocks while the client does not read; after the client has left, bytes
\* may still be taken by the kernel.
Send ==
    /\ spc = "send" /\ out # << >>
    /\ \/ ClientGone(cur) /\ UNCHANGED down
       \/ /\ ~ClientGone(cur) /\ Len(down[cur]) + Piece <= Window
          /\ down' = [down EXCEPT ![cur] = @ \o SubSeq(out, 1, Piece)]
    /\ out' = SubSeq(out, Piece + 1, Len(out))
    /\ UNCHANGED <<spc, cur, buffer, leaked, client, backlog, up, closed, hungup, cut>>

\* Mutant: the server goes on to accept with the aborted context.
AbortsOnly ==
    /\ closed' = closed \cup {cur} /\ out' = << >>
    /\ spc' = "accept" /\ UNCHANGED cur

Abort ==
    /\ closed' = closed \cup {cur} /\ cur' = None /\ out' = << >>
    /\ spc' = "accept"

\* SIGPIPE, or -1: then the context is freed, used and freed again, which ends
\* the process or goes unnoticed.
SendFails ==
    /\ spc = "send" /\ out # << >> /\ ClientGone(cur)
    /\ \/ Abort
       \/ spc' = "dead" /\ UNCHANGED <<cur, out, closed>>
    /\ UNCHANGED <<buffer, leaked, client, backlog, up, down, hungup, cut>>

\* pread fails in the handler, which aborts the context once.
ReadFails ==
    /\ spc = "send" /\ out # << >> /\ Head(out).kind = "data"
    /\ Abort
    /\ UNCHANGED <<buffer, leaked, client, backlog, up, down, hungup, cut>>

\* Nothing closes the connection or frees its context.
HandlerReturns ==
    /\ spc = "send" /\ out = << >>
    /\ spc' = "accept" /\ cur' = None /\ leaked' = leaked + 1
    /\ UNCHANGED <<buffer, out, client, backlog, up, down, closed, hungup, cut>>

ServerStep ==
    \/ Start \/ Accept \/ ReadRequest
    \/ Send \/ SendFails \/ ReadFails \/ HandlerReturns

-----------------------------------------------------------------------------
(* A client.                                                               *)

Begin(c) ==
    /\ cpc[c] = "idle"
    /\ \E p \in Workload[c] : path' = [path EXCEPT ![c] = p]
    /\ status' = [status EXCEPT ![c] = "unset"]
    /\ filelen' = [filelen EXCEPT ![c] = 0]
    /\ written' = [written EXCEPT ![c] = << >>]
    /\ ret' = [ret EXCEPT ![c] = "none"]
    /\ cut' = [cut EXCEPT ![c] = {}]
    /\ cpc' = [cpc EXCEPT ![c] = "connect"]
    /\ UNCHANGED <<server, turn, backlog, up, down, closed, hungup>>

\* Refused while nobody listens; the loop tries the same address again.
Connect(c) ==
    /\ cpc[c] = "connect"
    /\ spc \in {"accept", "recv", "send"} /\ Len(backlog) <= MaxPending
    /\ backlog' = Append(backlog, Cur(c))
    /\ cpc' = [cpc EXCEPT ![c] = "header"]
    /\ UNCHANGED <<server, turn, path, status, filelen, written, ret,
                   up, down, closed, hungup, cut>>

\* headerfunc is called whether or not it was set; gfclient_download never
\* sets it, and the request was not cleared by gfc_create.
HeaderFuncUnset(c) ==
    /\ cpc[c] = "header"
    /\ cpc' = [cpc EXCEPT ![c] = "crashed"]
    /\ UNCHANGED <<server, turn, path, status, filelen, written, ret,
                   backlog, up, down, closed, hungup, cut>>

SendRequest(c) ==
    /\ cpc[c] = "header" /\ ~ServerGone(Cur(c))
    /\ up' = [up EXCEPT ![Cur(c)] = Request(c)]
    /\ cpc' = [cpc EXCEPT ![c] = "reply"]
    /\ UNCHANGED <<server, turn, path, status, filelen, written, ret,
                   backlog, down, closed, hungup, cut>>

\* gfc_perform returns r; the program keeps the file if r is 0 and the status
\* OK, unlinks it otherwise, and goes on to its next request.
Return(c, s, len, w, r) ==
    /\ status' = [status EXCEPT ![c] = s]
    /\ filelen' = [filelen EXCEPT ![c] = len]
    /\ written' = [written EXCEPT ![c] = w]
    /\ ret' = [ret EXCEPT ![c] = r]
    /\ turn' = [turn EXCEPT ![c] = IF @ = Requests[c] THEN @ ELSE @ + 1]
    /\ cpc' = [cpc EXCEPT ![c] = IF turn[c] = Requests[c] THEN "done" ELSE "idle"]
    /\ UNCHANGED path

Quiet == UNCHANGED <<server, backlog, up, closed>>

\* send fails on a connection that is gone: -1, or SIGPIPE.
RequestFails(c) ==
    /\ cpc[c] = "header" /\ ServerGone(Cur(c))
    /\ \/ Return(c, "unset", 0, << >>, "fail")
       \/ /\ cpc' = [cpc EXCEPT ![c] = "crashed"]
          /\ UNCHANGED <<turn, path, status, filelen, written, ret>>
    /\ Quiet /\ UNCHANGED <<down, hungup, cut>>

\* The first recv returns n cells.
FirstRecv(c, n) ==
    /\ cpc[c] = "reply"
    /\ n \in 1..RecvBuf /\ n <= Len(down[Cur(c)])
    /\ down' = [down EXCEPT ![Cur(c)] = SubSeq(@, n + 1, Len(@))]
    /\ cut' = [cut EXCEPT ![c] = IF n < 3 /\ Head(down[Cur(c)]).kind # "INVALID"
                                THEN @ \cup {"header"} ELSE @]
    /\ Quiet /\ UNCHANGED hungup

\* INVALID, or no length after the status; the socket stays open.
ParseInvalid(c, n) ==
    /\ FirstRecv(c, n)
    /\ Head(down[Cur(c)]).kind = "INVALID" \/ n = 1
    /\ Return(c, "INVALID", 0, << >>, "fail")

\* The header ends short, bytesreceived goes below zero and is unsigned: the
\* process dies, or a small file comes out as garbage, or a long one is given up.
ParseTorn(c, n) ==
    LET len == down[Cur(c)][2].n IN
    /\ FirstRecv(c, n)
    /\ Head(down[Cur(c)]).kind # "INVALID" /\ n = 2
    /\ \/ /\ cpc' = [cpc EXCEPT ![c] = "crashed"]
          /\ UNCHANGED <<turn, path, status, filelen, written, ret>>
       \/ Return(c, "OK", len, <<Cell("data", None, 0)>>,
                 IF len < RecvBuf THEN "ok" ELSE "fail")

\* A short file must be in the buffer behind its header, all of it.
ParseShort(c, n) ==
    LET len == down[Cur(c)][2].n IN
    /\ FirstRecv(c, n)
    /\ n >= 3 /\ len < RecvBuf
    /\ IF len > n - 3
       THEN Return(c, "OK", len, << >>, "fail")
       ELSE Return(c, "OK", len, SubSeq(down[Cur(c)], 4, n), "ok")

ParseLong(c, n) ==
    LET k == Cur(c) IN
    /\ FirstRecv(c, n)
    /\ n >= 3 /\ down[k][2].n >= RecvBuf
    /\ status' = [status EXCEPT ![c] = "OK"]
    /\ filelen' = [filelen EXCEPT ![c] = down[k][2].n]
    /\ written' = [written EXCEPT ![c] = SubSeq(down[k], 4, n)]
    /\ cpc' = [cpc EXCEPT ![c] = "body"]
    /\ UNCHANGED <<turn, path, ret>>

\* The connection ends before any answer: recv gives 0, or -1 with no status.
NoReply(c) ==
    /\ cpc[c] = "reply" /\ down[Cur(c)] = << >> /\ ServerGone(Cur(c))
    /\ \E s \in {"INVALID", "unset"} : Return(c, s, 0, << >>, "fail")
    /\ Quiet /\ UNCHANGED <<down, hungup, cut>>

\* Mutants: the loop waits for one block more; the final comparison is dropped.
WaitsForMore(c) == filelen[c] >= Len(written[c])
NeverShort(c) == TRUE

Unfinished(c) == filelen[c] > Len(written[c])
Complete(c) == filelen[c] = Len(written[c])

RecvBody(c) ==
    LET k == Cur(c) IN
    /\ cpc[c] = "body" /\ Unfinished(c)
    /\ \E n \in 1..RecvBuf :
          /\ n <= Len(down[k])
          /\ written' = [written EXCEPT ![c] = @ \o SubSeq(down[k], 1, n)]
          /\ down' = [down EXCEPT ![k] = SubSeq(@, n + 1, Len(@))]
    /\ Quiet /\ UNCHANGED <<cpc, turn, path, status, filelen, ret, hungup, cut>>

\* The loop is over: the length is reached, or recv gave 0.
EndBody(c) ==
    LET k == Cur(c) IN
    /\ cpc[c] = "body"
    /\ Unfinished(c) => down[k] = << >> /\ ServerGone(k)
    /\ hungup' = hungup \cup {k}
    /\ Return(c, "OK", filelen[c], written[c],
              IF Complete(c) THEN "ok" ELSE "fail")
    /\ Quiet /\ UNCHANGED <<down, cut>>

BodyReset(c) ==
    LET k == Cur(c) IN
    /\ cpc[c] = "body" /\ Unfinished(c) /\ down[k] = << >> /\ ServerGone(k)
    /\ Return(c, "ERROR", filelen[c], written[c], "fail")
    /\ Quiet /\ UNCHANGED <<down, hungup, cut>>

Perform(c) ==
    \/ Connect(c) \/ HeaderFuncUnset(c) \/ SendRequest(c) \/ RequestFails(c)
    \/ \E n \in 1..RecvBuf :
          ParseInvalid(c, n) \/ ParseTorn(c, n) \/ ParseShort(c, n) \/ ParseLong(c, n)
    \/ NoReply(c) \/ RecvBody(c) \/ EndBody(c) \/ BodyReset(c)

Next == ServerStep \/ \E c \in Clients : Begin(c) \/ Perform(c)

Spec == Init /\ [][Next]_vars
FairSpec == Spec /\ WF_vars(ServerStep) /\ \A c \in Clients : WF_vars(Perform(c))
-----------------------------------------------------------------------------
(* Properties.                                                             *)

\* Every variable has its type.
TypeOK ==
    /\ spc \in {"start", "binding", "exited", "accept", "recv", "send", "dead"}
    /\ cur \in Conns \cup {None}
    /\ cur = None <=> spc \in {"start", "binding", "exited", "accept"}
    /\ buffer \in [dir : Dirs \cup {Junk}, name : Names \cup {Junk}]
    /\ leaked \in 0..FdLimit
    /\ Len(backlog) <= MaxPending + 1 /\ Range(backlog) \subseteq Conns
    /\ \A k \in Conns : Len(up[k]) <= 3
    /\ \A k \in Conns : Len(down[k]) <= Window
    /\ closed \subseteq Conns /\ hungup \subseteq Conns
    /\ cpc \in [Clients -> {"idle", "connect", "header", "reply", "body", "done", "crashed"}]
    /\ \A c \in Clients : turn[c] \in 1..Requests[c]
    /\ path \in [Clients -> Paths \cup {None}]
    /\ status \in [Clients -> {"unset", "OK", "ERROR", "INVALID"}]
    /\ ret \in [Clients -> {"none", "ok", "fail"}]
    /\ cut \in [Clients -> SUBSET {"request", "header"}]

\* The download is on disk and counts as good (gfclient_download.c:158-171).
Kept(c) == ret[c] = "ok" /\ status[c] = "OK"

IsFileOf(w, p) ==
    \/ p \in DOMAIN Size /\ w = Blocks(p)
    \/ p \in DOMAIN Size /\ Size[p] >= DigitsLimit /\ IsPrefix(w, Blocks(p))
    \/ p \notin DOMAIN Size /\ w = << >>

\* A download that is kept is one whole file of the server, and of the path
\* asked for if the request was not cut: no read error, no hang-up and no
\* cut of the stream behind the header can leave a part of it or the bytes of
\* another.  The exceptions are the code's: a length with too many digits, which
\* truncates, and a path without a file, whose download is kept and empty.
KeptIsWhole ==
    \A c \in Clients : Kept(c) /\ "header" \notin cut[c] =>
        \E p \in [dir : Dirs \cup {Junk}, name : Names \cup {Junk}] :
            /\ "request" \notin cut[c] => p = path[c]
            /\ IsFileOf(written[c], p)

\* A client is told INVALID only for what it sent or how it arrived: bytes that
\* an earlier client left in the server's buffer do not spoil a whole request.
InvalidHasCause ==
    \A c \in Clients : status[c] = "INVALID" =>
        path[c].dir = NoSlash \/ cut[c] # {} \/ spc = "dead"

\* Once it listens, only the client it serves can bring the server down: by
\* leaving before its response was sent, its request read or not, or by a
\* request that came in pieces.
DiesOfItsClientOnly ==
    spc = "dead" => ClientGone(cur) \/ up[cur] # << >>

\* The server sends to a client that has returned from this request, still
\* holds its socket and no longer reads it.
HeldByAbandoned ==
    /\ spc = "send" /\ out # << >> /\ ~ClientGone(cur) /\ Len(down[cur]) + Piece > Window
    /\ cur # Cur(cur[1]) \/ ret[cur[1]] # "none"

\* gfc_perform returns (or its process dies), unless the server is gone, has
\* no descriptor left, or waits for good on a socket that a client left open.
Performing(c) == cpc[c] \in {"connect", "header", "reply", "body"}
ServerLost ==
    spc \in {"binding", "exited", "dead"} \/ ~CanAccept \/ HeldByAbandoned
EveryPerformReturns ==
    \A c \in Clients : [](Performing(c) => <>~Performing(c) \/ <>[]ServerLost)
=============================================================================
