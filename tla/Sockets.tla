------------------------------ MODULE Sockets ------------------------------
(***************************************************************************)
(* The four programs of transfer and echo on one host with their default   *)
(* port, 6200: one server listens, the other tries the address until it is *)
(* free or it loses the port to the other at its listen, and a client may  *)
(* meet the server of the other protocol.                                  *)
(***************************************************************************)
EXTENDS Transfer, Echo

ASSUME SocketsAssumption ==
    /\ TransferClients \cup EchoClients = Clients
    /\ TransferClients \cap EchoClients = {}
    /\ None \notin Clients \cup {"transfer", "echo"}
    /\ File \notin Clients \cup {None}
    /\ {FileLen, MaxPending} \subseteq Nat
    /\ {Window, Chunk, RecvBuf, EchoBuf, PrintBuf} \subseteq Nat \ {0}
    /\ MsgLen \in [EchoClients -> Nat]

vars == <<tcp, transferVars, echoVars>>

Init == TcpInit /\ TransferInit /\ EchoInit

Server ==
    \/ TransferServerStep /\ UNCHANGED echoVars
    \/ EchoServerStep /\ UNCHANGED transferVars

Client(c) ==
    \/ c \in TransferClients /\ TransferClientStep(c) /\ UNCHANGED echoVars
    \/ c \in EchoClients /\ EchoClientStep(c) /\ UNCHANGED transferVars

User(c) ==
    \/ c \in TransferClients /\ TransferLeave(c) /\ UNCHANGED echoVars
    \/ c \in EchoClients /\ EchoLeave(c) /\ UNCHANGED transferVars

Next == Server \/ \E c \in Clients : Client(c) \/ User(c)

Spec == Init /\ [][Next]_vars

\* The host runs every process that can run; no user has to stop a client.
FairSpec ==
    /\ Spec
    /\ WF_vars(TransferServerStep /\ UNCHANGED echoVars)
    /\ WF_vars(EchoServerStep /\ UNCHANGED transferVars)
    /\ \A c \in Clients : WF_vars(Client(c))

-----------------------------------------------------------------------------
State(c) == IF c \in TransferClients THEN rpc[c] ELSE mpc[c]
Ended == {"done", "failed", "left"}
Got(c) == IF c \in TransferClients THEN saved[c] ELSE printed[c]
FileCell == {File} \X (1..FileLen)
Cell == FileCell \cup {Zero} \cup UNION {{c} \X (1..MsgLen[c]) : c \in EchoClients}

\* The states of the two servers, of the clients and of the connections.
TypeOK ==
    /\ port \in {None, "transfer", "echo"}
    /\ backlog \in Seq(Clients) /\ IsInjective(backlog) /\ order \in Seq(Clients)
    /\ up \in [Clients -> Seq(Cell)] /\ down \in [Clients -> Seq(Cell)]
    /\ srvEnd \subseteq Clients /\ cliEnd \subseteq Clients /\ cut \subseteq srvEnd
    /\ tpc \in {"bind", "listen", "load", "accept", "first", "loop", "close", "dead"}
    /\ epc \in {"bind", "listen", "accept", "recv", "check", "dead"}
    /\ conn \in Clients \cup {None} /\ peer \in Clients \cup {None}
    /\ file \in {"unopened", "open", "closed"} /\ pos \in 0..FileLen
    /\ sent \in -Len(order)..FileLen /\ left = (IF file = "unopened" THEN 0 ELSE FileLen - sent)
    /\ got \in -1..EchoBuf
    /\ rpc \in [TransferClients -> {"connect", "recv", "close"} \cup Ended]
    /\ mpc \in [EchoClients -> {"connect", "send", "recv", "close"} \cup Ended]

\* The first client that the transfer server accepts has the whole file if it
\* ends well, however its recv calls cut the stream.  The clients behind it do
\* not, where pr1/Readme.md:168-171 and 178-179 ask for it.
FirstHasTheFile ==
    order # << >> /\ Head(order) \in TransferClients /\ State(Head(order)) = "done"
        => saved[Head(order)] = WholeFile

\* Whoever the echo server served before, and whatever was in its buffer, a
\* client prints nothing of another client's message and nothing of the stack;
\* only one that met the transfer server prints what that sent.
EchoIsOwn ==
    \A c \in EchoClients :
        \/ IsPrefix(printed[c], Message(c))
        \/ c \in Range(order) /\ Range(printed[c]) \subseteq FileCell \cup {Zero}

\* A server that ends has one of these causes: its own start failed, before it
\* served anybody; the client it serves left; or, of the transfer server, the
\* connection is not its first.  What other clients do, when they connect and
\* which server they meet, ends none.
ServerEndsHaveCause ==
    /\ epc = "dead" => peer = None \/ peer \in cliEnd
    /\ tpc = "dead" => order = << >> \/ conn \in cliEnd \/ Len(order) > 1

\* What nobody but a user resolves: both servers have ended, or the echo
\* server waits for a message its peer never sends.
Stuck ==
    \/ tpc = "dead" /\ epc = "dead"
    \/ /\ epc = "recv" /\ peer \notin cliEnd /\ up[peer] = << >>
       /\ peer \in EchoClients => MsgLen[peer] = 0

\* Every client ends, also those that wait for a port or met the other server,
\* unless the host is stuck.
EveryClientEnds ==
    \A c \in Clients : <>(State(c) \in Ended) \/ <>[]Stuck
=============================================================================
