-------------------------------- MODULE Echo --------------------------------
(***************************************************************************)
(* echoserver.c and echoclient.c of gios-spr-2018-pr1-master.              *)
(***************************************************************************)
EXTENDS Tcp

CONSTANTS
    EchoClients,  \* processes running echoclient
    MsgLen,       \* the length of each one's message; its cells are <<c, i>>
    EchoBuf,      \* BUFSIZE - 1 of the server
    PrintBuf      \* BUFSIZE - 1 of the client

VARIABLES
    epc, peer,    \* the server: where it is, the connection it serves
    text, got,    \* its buffer and numBytes_read
    mpc, printed  \* a client: where it is, what it printed

echoServer == <<epc, peer, text, got>>
echoVars == <<echoServer, mpc, printed>>

Junk == [i \in 1..EchoBuf |-> <<None, 0>>]   \* a buffer nobody has written to
Message(c) == [i \in 1..MsgLen[c] |-> <<c, i>>]

EchoInit ==
    /\ epc = "bind" /\ peer = None /\ got = 0
    /\ text \in {Junk, << >>}
    /\ mpc = [c \in EchoClients |-> "connect"]
    /\ printed = [c \in EchoClients |-> << >>]

-----------------------------------------------------------------------------
EchoBind ==
    /\ epc = "bind" /\ CanBind
    /\ epc' = "listen"
    /\ UNCHANGED <<tcp, peer, text, got, mpc, printed>>

EchoListen ==
    /\ epc = "listen" /\ Listen("echo")
    /\ epc' = "accept"
    /\ UNCHANGED <<peer, text, got, mpc, printed>>

\* The address, the option, or listen fails (another server listens).
EchoStartFails ==
    /\ epc \in {"bind", "listen"}
    /\ epc' = "dead"
    /\ UNCHANGED <<tcp, peer, text, got, mpc, printed>>

EchoAccept ==
    /\ epc = "accept" /\ port = "echo" /\ backlog # << >>
    /\ peer' = Head(backlog) /\ backlog' = Tail(backlog)
    /\ epc' = "recv"
    /\ UNCHANGED <<port, up, down, srvEnd, cliEnd, cut, text, got, mpc, printed>>

\* What recv of n bytes makes of the buffer: those behind them stay.
Filled(n) == SubSeq(up[peer], 1, n) \o SubSeq(text, n + 1, Len(text))

\* Mutant: recv does not wait for the message.
EchoPoll ==
    /\ epc = "recv"
    /\ \E n \in 0..Least(EchoBuf, Len(up[peer])) :
          /\ got' = n /\ text' = Filled(n)
          /\ up' = [up EXCEPT ![peer] = SubSeq(@, n + 1, Len(@))]
    /\ epc' = "check"
    /\ UNCHANGED <<peer, port, backlog, down, srvEnd, cliEnd, cut, mpc, printed>>

\* One recv, of the message or of nothing when the client has closed.
EchoRecv ==
    /\ epc = "recv"
    /\ \E n \in 0..EchoBuf :
          /\ IF up[peer] = << >> THEN n = 0 /\ peer \in cliEnd ELSE n \in 1..Len(up[peer])
          /\ got' = n /\ text' = Filled(n)
          /\ up' = [up EXCEPT ![peer] = SubSeq(@, n + 1, Len(@))]
    /\ epc' = "check"
    /\ UNCHANGED <<peer, port, backlog, down, srvEnd, cliEnd, cut, mpc, printed>>

\* The client left and reset the connection: -1, exit(1).
EchoRecvFails ==
    /\ epc = "recv" /\ peer \in cliEnd
    /\ got' = -1
    /\ epc' = "dead" /\ ServerEnds({peer})
    /\ UNCHANGED <<peer, text, mpc, printed>>

\* A buffer that starts with '\0' ends the server.
EchoExit ==
    /\ epc = "check" /\ text = << >>
    /\ epc' = "dead" /\ ServerEnds({peer})
    /\ UNCHANGED <<peer, text, got, mpc, printed>>

\* Mutant: the whole buffer is sent.
ReplyOfBuffer == text

Reply == SubSeq(text, 1, got)

EchoSend ==
    /\ epc = "check" /\ text # << >>
    /\ down' = IF peer \in cliEnd THEN down ELSE [down EXCEPT ![peer] = @ \o Reply]
    /\ srvEnd' = srvEnd \cup {peer}
    /\ text' = << >>
    /\ epc' = "accept" /\ peer' = None
    /\ UNCHANGED <<port, backlog, up, cliEnd, cut, got, mpc, printed>>

EchoServerStep ==
    \/ EchoBind \/ EchoListen \/ EchoStartFails
    \/ EchoAccept \/ EchoRecv \/ EchoRecvFails \/ EchoExit \/ EchoSend

-----------------------------------------------------------------------------
EchoConnect(c) ==
    /\ mpc[c] = "connect" /\ ConnectTo(c)
    /\ mpc' = [mpc EXCEPT ![c] = "send"]
    /\ UNCHANGED <<echoServer, printed>>

\* send of the whole message, which may be empty.
EchoSendMessage(c) ==
    /\ mpc[c] = "send"
    /\ up' = [up EXCEPT ![c] = Message(c)]
    /\ mpc' = [mpc EXCEPT ![c] = "recv"]
    /\ UNCHANGED <<port, backlog, down, srvEnd, cliEnd, cut, echoServer, printed>>

\* One recv, printed whatever it is.
EchoPrint(c) ==
    /\ mpc[c] = "recv"
    /\ \E n \in 0..PrintBuf :
          /\ ClientReads(c, n)
          /\ printed' = [printed EXCEPT ![c] = SubSeq(down[c], 1, n)]
    /\ mpc' = [mpc EXCEPT ![c] = "close"]
    /\ UNCHANGED echoServer

EchoClose(c) ==
    /\ mpc[c] = "close"
    /\ mpc' = [mpc EXCEPT ![c] = "done"] /\ ClientEnds(c)
    /\ UNCHANGED <<echoServer, printed>>

\* send or recv on a connection that was reset: exit(1) or SIGPIPE.
EchoReset(c) ==
    /\ mpc[c] \in {"send", "recv"} /\ Reset(c)
    /\ mpc' = [mpc EXCEPT ![c] = "failed"] /\ ClientEnds(c)
    /\ UNCHANGED <<echoServer, printed>>

\* The user stops the client.
EchoLeave(c) ==
    /\ mpc[c] \in {"send", "recv"}
    /\ mpc' = [mpc EXCEPT ![c] = "left"] /\ ClientEnds(c)
    /\ UNCHANGED <<echoServer, printed>>

EchoClientStep(c) ==
    \/ EchoConnect(c) \/ EchoSendMessage(c) \/ EchoPrint(c)
    \/ EchoClose(c) \/ EchoReset(c)
=============================================================================
