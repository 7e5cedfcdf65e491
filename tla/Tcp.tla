-------------------------------- MODULE Tcp --------------------------------
(***************************************************************************)
(* The host the programs of gios-spr-2018-pr1-master/transfer and echo run *)
(* on, as far as they see it: one port, which all of them default to, and  *)
(* connections that carry cells in order and are cut anywhere by recv.  A  *)
(* client process makes one connection, so it names it.                    *)
(***************************************************************************)
EXTENDS Integers, Sequences, SequencesExt

CONSTANTS
    Clients,     \* client processes of both kinds
    Window,      \* cells the kernel holds for a receiver that does not read
    MaxPending,  \* LISTENQ
    None         \* no process, no connection

VARIABLES
    port,        \* the server that listens on the port
    backlog,     \* connections it has not accepted
    up, down,    \* cells in flight to the server, to the client
    srvEnd,      \* connections whose server end is closed
    cliEnd,      \* connections whose client end is closed
    cut          \* connections whose server ended before it accepted them

tcp == <<port, backlog, up, down, srvEnd, cliEnd, cut>>

TcpInit ==
    /\ port = None /\ backlog = << >>
    /\ up = [c \in Clients |-> << >>] /\ down = [c \in Clients |-> << >>]
    /\ srvEnd = {} /\ cliEnd = {} /\ cut = {}

Least(n, m) == IF n < m THEN n ELSE m

\* bind fails while another process listens, SO_REUSEADDR or not; two sockets
\* that do not listen yet may both be bound.
CanBind == port = None

\* listen takes the port if no other process has done so since the bind.
Listen(s) ==
    /\ port = None /\ port' = s
    /\ UNCHANGED <<backlog, up, down, srvEnd, cliEnd, cut>>

\* connect is refused while nobody listens.
ConnectTo(c) ==
    /\ port # None /\ Len(backlog) <= MaxPending
    /\ backlog' = Append(backlog, c)
    /\ UNCHANGED <<port, up, down, srvEnd, cliEnd, cut>>

\* The process of a client or its close ends its side.
ClientEnds(c) ==
    /\ cliEnd' = cliEnd \cup {c}
    /\ UNCHANGED <<port, backlog, up, down, srvEnd, cut>>

\* A listening process that ends frees the port and resets what it had not
\* closed: the connections it had not accepted, and those of conns.
ServerEnds(conns) ==
    /\ port' = None /\ backlog' = << >>
    /\ srvEnd' = srvEnd \cup Range(backlog) \cup conns
    /\ cut' = cut \cup Range(backlog)
    /\ UNCHANGED <<up, down, cliEnd>>

ServerCloses(conn) ==
    /\ srvEnd' = srvEnd \cup {conn}
    /\ UNCHANGED <<port, backlog, up, down, cliEnd, cut>>

\* recv of the client takes n cells; 0 is the end of the stream.
ClientReads(c, n) ==
    /\ IF down[c] = << >> THEN n = 0 /\ c \in srvEnd ELSE n \in 1..Len(down[c])
    /\ down' = [down EXCEPT ![c] = SubSeq(@, n + 1, Len(@))]
    /\ UNCHANGED <<port, backlog, up, srvEnd, cliEnd, cut>>

\* A server end that closed with bytes unread, or unaccepted, resets.
Reset(c) == c \in cut \/ (c \in srvEnd /\ up[c] # << >>)
=============================================================================
