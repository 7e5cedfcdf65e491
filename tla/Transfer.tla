------------------------------ MODULE Transfer ------------------------------
(***************************************************************************)
(* transferserver.c and transferclient.c of gios-spr-2018-pr1-master.  The *)
(* server counts what it sent and reads its file once for all connections. *)
(***************************************************************************)
EXTENDS Tcp

CONSTANTS
    TransferClients,  \* processes running transferclient
    File,             \* the file the server sends; its cells are <<File, i>>
    FileLen,
    Chunk,            \* BUFSIZE - 1 of the server
    RecvBuf           \* BUFSIZE - 1 of the client

VARIABLES
    tpc, conn,        \* the server: where it is, the connection it serves
    buffer, pos,      \* its buffer and the position of transfer_file
    file,             \* whether transfer_file is open
    sent, left,       \* bytes_sent, bytes_left
    order,            \* history: the connections accepted
    rpc, saved        \* a client: where it is, what it wrote to its file

transferServer == <<tpc, conn, buffer, pos, file, sent, left, order>>
transferVars == <<transferServer, rpc, saved>>

Zero == <<None, 0>>
FileCells(a, b) == [i \in 1..(b - a) |-> <<File, a + i>>]
WholeFile == FileCells(0, FileLen)

TransferInit ==
    /\ tpc = "bind" /\ conn = None /\ buffer = << >> /\ pos = 0
    /\ file = "unopened" /\ sent = 0 /\ left = 0 /\ order = << >>
    /\ rpc = [c \in TransferClients |-> "connect"]
    /\ saved = [c \in TransferClients |-> << >>]

-----------------------------------------------------------------------------
\* The loop tries the same address until it is free.
TransferBind ==
    /\ tpc = "bind" /\ CanBind
    /\ tpc' = "listen"
    /\ UNCHANGED <<tcp, conn, buffer, pos, file, sent, left, order, rpc, saved>>

TransferListen ==
    /\ tpc = "listen" /\ Listen("transfer")
    /\ tpc' = "load"
    /\ UNCHANGED <<conn, buffer, pos, file, sent, left, order, rpc, saved>>

\* Clients may already connect while the file is opened and its first part read.
TransferLoad ==
    /\ tpc = "load"
    /\ tpc' = "accept" /\ file' = "open" /\ left' = FileLen
    /\ pos' = Least(Chunk, FileLen)
    /\ buffer' = FileCells(0, Least(Chunk, FileLen))
    /\ UNCHANGED <<tcp, conn, sent, order, rpc, saved>>

\* The address, the option or listen (another server listens) fails; or, with
\* the port taken, stat does, or fopen, whose NULL is read from.
TransferStartFails ==
    /\ tpc \in {"bind", "listen", "load"}
    /\ tpc' = "dead"
    /\ IF tpc = "load" THEN ServerEnds({}) ELSE UNCHANGED tcp
    /\ UNCHANGED <<conn, buffer, pos, file, sent, left, order, rpc, saved>>

TransferAccept ==
    /\ tpc = "accept" /\ port = "transfer" /\ backlog # << >>
    /\ conn' = Head(backlog) /\ backlog' = Tail(backlog)
    /\ order' = Append(order, conn')
    /\ tpc' = "first"
    /\ UNCHANGED <<port, up, down, srvEnd, cliEnd, cut, buffer, pos, file, sent, left, rpc, saved>>

\* Mutant: whole buffers are sent at the end of the file too.
WholeChunk == Chunk

Part == Least(Chunk, left)

\* What send may return: all of it, when the client has room; or anything once
\* it has gone, the bytes being lost.
SendReturns(n) ==
    \/ conn \notin cliEnd /\ n = Part /\ Len(down[conn]) + n <= Window
    \/ conn \in cliEnd /\ n \in -1..Part
Deliver(cells) ==
    /\ down' = IF conn \in cliEnd THEN down ELSE [down EXCEPT ![conn] = @ \o cells]
    /\ UNCHANGED <<port, backlog, up, srvEnd, cliEnd, cut>>

\* The buffer as far as it is sent: the bytes behind what was read are zero.
Padded(cells, n) == [i \in 1..n |-> IF i <= Len(cells) THEN cells[i] ELSE Zero]

\* Mutant: what was asked of send is taken off, not what it returned.
CountPart(n) == sent' = sent + n /\ left' = left - Part

Count(n) == sent' = sent + n /\ left' = left - n
More == IF sent' < FileLen THEN "loop" ELSE "close"

\* The first send of a connection is not checked: -1 is counted.
FirstSend ==
    /\ tpc = "first"
    /\ \E n \in -1..Chunk :
          /\ SendReturns(n) /\ Count(n)
          /\ Deliver(Padded(buffer, Part))
    /\ tpc' = More
    /\ UNCHANGED <<conn, buffer, pos, file, order, rpc, saved>>

ReadPart == FileCells(pos, Least(pos + Part, FileLen))

\* One turn of the loop: read, send, leave it on -1.
NextSend ==
    /\ tpc = "loop" /\ file = "open"
    /\ buffer' = ReadPart /\ pos' = pos + Len(ReadPart)
    /\ \E n \in -1..Chunk :
          /\ SendReturns(n)
          /\ Deliver(Padded(ReadPart, Part))
          /\ IF n = -1 THEN tpc' = "close" /\ UNCHANGED <<sent, left>>
                       ELSE Count(n) /\ tpc' = More
    /\ UNCHANGED <<conn, file, order, rpc, saved>>

\* The file was closed after the connection before: fread of it, and a second
\* fclose, end the process or give nothing.
ReadClosed ==
    /\ tpc = "loop" /\ file = "closed"
    /\ buffer' = << >>
    /\ \E n \in -1..Chunk :
          /\ SendReturns(n)
          /\ Deliver(Padded(<< >>, Part))
          /\ IF n = -1 THEN tpc' = "close" /\ UNCHANGED <<sent, left>>
                       ELSE Count(n) /\ tpc' = More
    /\ UNCHANGED <<conn, pos, file, order, rpc, saved>>

\* Mutant: close is forgotten.
CloseFileOnly ==
    /\ tpc = "close"
    /\ file' = "closed" /\ tpc' = "accept" /\ conn' = None
    /\ UNCHANGED <<tcp, buffer, pos, sent, left, order, rpc, saved>>

CloseConnection ==
    /\ tpc = "close"
    /\ file' = "closed" /\ tpc' = "accept" /\ conn' = None
    /\ ServerCloses(conn)
    /\ UNCHANGED <<buffer, pos, sent, left, order, rpc, saved>>

\* SIGPIPE of a client that has gone, or the use of the closed file.
TransferDies ==
    /\ \/ tpc \in {"first", "loop"} /\ conn \in cliEnd
       \/ tpc \in {"loop", "close"} /\ file = "closed"
    /\ tpc' = "dead" /\ ServerEnds({conn})
    /\ UNCHANGED <<conn, buffer, pos, file, sent, left, order, rpc, saved>>

TransferServerStep ==
    \/ TransferBind \/ TransferListen \/ TransferLoad \/ TransferStartFails
    \/ TransferAccept \/ FirstSend \/ NextSend \/ ReadClosed
    \/ CloseConnection \/ TransferDies

-----------------------------------------------------------------------------
TransferConnect(c) ==
    /\ rpc[c] = "connect" /\ ConnectTo(c)
    /\ rpc' = [rpc EXCEPT ![c] = "recv"]
    /\ UNCHANGED <<transferServer, saved>>

\* recv into the file, until it returns 0.
TransferRecv(c) ==
    /\ rpc[c] = "recv"
    /\ \E n \in 0..RecvBuf :
          /\ ClientReads(c, n)
          /\ saved' = [saved EXCEPT ![c] = @ \o SubSeq(down[c], 1, n)]
          /\ rpc' = [rpc EXCEPT ![c] = IF n = 0 THEN "close" ELSE @]
    /\ UNCHANGED transferServer

\* The connection was reset: -1, exit(1).
TransferReset(c) ==
    /\ rpc[c] = "recv" /\ Reset(c)
    /\ rpc' = [rpc EXCEPT ![c] = "failed"] /\ ClientEnds(c)
    /\ UNCHANGED <<transferServer, saved>>

TransferClose(c) ==
    /\ rpc[c] = "close"
    /\ rpc' = [rpc EXCEPT ![c] = "done"] /\ ClientEnds(c)
    /\ UNCHANGED <<transferServer, saved>>

\* The user stops the client.
TransferLeave(c) ==
    /\ rpc[c] = "recv"
    /\ rpc' = [rpc EXCEPT ![c] = "left"] /\ ClientEnds(c)
    /\ UNCHANGED <<transferServer, saved>>

TransferClientStep(c) ==
    TransferConnect(c) \/ TransferRecv(c) \/ TransferReset(c) \/ TransferClose(c)
=============================================================================
