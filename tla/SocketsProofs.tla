---------------------------- MODULE SocketsProofs ----------------------------
(***************************************************************************)
(* What Sockets promises, for any number of clients of both kinds, any     *)
(* file, any messages and any sizes of the buffers.                        *)
(***************************************************************************)
EXTENDS Sockets, SequenceTheorems, TLAPS

(***************************************************************************)
(* The inductive invariant.  Where the servers and the clients are.        *)
(***************************************************************************)
Control ==
    /\ port \in {None, "transfer", "echo"}
    /\ tpc \in {"bind", "listen", "load", "accept", "first", "loop", "close", "dead"}
    /\ epc \in {"bind", "listen", "accept", "recv", "check", "dead"}
    /\ port = "transfer" <=> tpc \in {"load", "accept", "first", "loop", "close"}
    /\ port = "echo" <=> epc \in {"accept", "recv", "check"}
    /\ backlog \in Seq(Clients) /\ IsInjective(backlog) /\ (port = None => backlog = << >>)
    /\ order \in Seq(Clients) /\ IsInjective(order)
    /\ srvEnd \subseteq Clients /\ cliEnd \subseteq Clients /\ cut \subseteq srvEnd
    /\ rpc \in [TransferClients -> {"connect", "recv", "close"} \cup Ended]
    /\ mpc \in [EchoClients -> {"connect", "send", "recv", "close"} \cup Ended]
    /\ \A c \in Clients : c \in cliEnd <=> State(c) \in Ended

\* A connection is in one place: not made, in the backlog, served, or closed.
Placed ==
    /\ conn \in Clients \cup {None} /\ peer \in Clients \cup {None}
    /\ tpc \in {"bind", "listen", "load", "accept"} => conn = None
    /\ epc \in {"bind", "listen", "accept"} => peer = None
    /\ conn # None => order # << >> /\ conn = order[Len(order)]
    /\ tpc \in {"first", "loop", "close"} => conn # None /\ conn \notin srvEnd
    /\ epc \in {"recv", "check"} => peer # None /\ peer \notin srvEnd
    /\ peer \notin Range(order) /\ Range(order) \subseteq srvEnd \cup {conn}
    /\ \A c \in Clients : State(c) = "connect" \/ c \in Range(backlog) =>
          c \notin srvEnd \cup {conn, peer} \cup Range(order)
    /\ \A c \in Clients : State(c) = "connect" => c \notin Range(backlog)

\* What has been sent by nobody is nowhere.
Unserved(c) ==
    \/ State(c) = "connect" \/ c \in Range(backlog)
    \/ epc \in {"recv", "check"} /\ c = peer
    \/ tpc = "first" /\ c = conn

OwnCell(c) == IF c \in EchoClients THEN {c} \X (1..MsgLen[c]) ELSE {}
Begins(s, c) == Len(s) <= MsgLen[c] /\ \A i \in 1..Len(s) : s[i] = <<c, i>>

Cells ==
    /\ up \in [Clients -> Seq(Cell)] /\ down \in [Clients -> Seq(Cell)]
    /\ saved \in [TransferClients -> Seq(Cell)] /\ printed \in [EchoClients -> Seq(Cell)]
    /\ \A c \in Clients : Unserved(c) => down[c] = << >> /\ Got(c) = << >>
    /\ \A c \in Clients : Range(up[c]) \subseteq OwnCell(c)
    /\ \A c \in Range(order) : Range(down[c]) \subseteq FileCell \cup {Zero}

\* The message of a client, on its way to the echo server and back.
Echoes ==
    /\ \A c \in EchoClients : mpc[c] \in {"connect", "send"} => up[c] = << >>
    /\ \A c \in EchoClients :
          State(c) = "connect" \/ c \in Range(backlog) \/ (epc = "recv" /\ c = peer)
             => up[c] = << >> \/ up[c] = Message(c)
    /\ text \in Seq(Cell) /\ got \in -1..EchoBuf /\ (epc = "check" => got >= 0)
    /\ epc = "check" /\ got = 0 => peer \in cliEnd
    /\ epc = "check" /\ got > 0 =>
          /\ peer \in EchoClients /\ got <= MsgLen[peer] /\ got <= Len(text)
          /\ \A i \in 1..got : text[i] = <<peer, i>>
    /\ \A c \in EchoClients : mpc[c] \in {"connect", "send", "recv"} =>
          /\ printed[c] = << >>
          /\ c \notin Range(order) => Begins(down[c], c)

\* The counters of the transfer server.
Counted ==
    /\ file \in {"unopened", "open", "closed"}
    /\ tpc \in {"bind", "listen", "load"} => file = "unopened"
    /\ file = "unopened" =>
          /\ tpc \in {"bind", "listen", "load", "dead"}
          /\ order = << >> /\ sent = 0 /\ pos = 0
    /\ pos \in 0..FileLen /\ sent \in Int /\ sent <= FileLen
    /\ left = (IF file = "unopened" THEN 0 ELSE FileLen - sent)
    /\ sent >= -Len(order) /\ (tpc = "first" => sent >= 1 - Len(order))
    /\ buffer \in Seq({File} \X (1..pos))
    /\ file = "open" =>
          /\ Len(order) = IF tpc = "accept" THEN 0 ELSE 1
          /\ tpc \in {"accept", "first"} =>
                sent = 0 /\ pos = Least(Chunk, FileLen) /\ buffer = FileCells(0, pos)
    /\ file = "closed" => Len(order) > IF tpc = "accept" THEN 0 ELSE 1

\* The first k cells of the file are with the client or on their way to it.
Numbered(s, k) == \A i \in 1..Len(s) : s[i] = <<File, k + i>>
Makes(s, d, k) == Len(s) + Len(d) = k /\ Numbered(s, 0) /\ Numbered(d, Len(s))
Has(c, k) == Makes(saved[c], down[c], k)

FirstGets ==
    /\ \A c \in TransferClients :
          /\ rpc[c] = "close" => down[c] = << >>
          /\ rpc[c] \in {"close", "done"} => c \in srvEnd
    /\ order # << >> /\ Head(order) \in TransferClients /\ Head(order) \notin cliEnd =>
          /\ Head(order) \in srvEnd \/ tpc = "close" => Has(Head(order), FileLen)
          /\ Head(order) \notin srvEnd /\ tpc = "loop" =>
                sent = pos /\ sent < FileLen /\ Has(Head(order), sent)

IInv ==
    /\ Control /\ Placed /\ Cells /\ Echoes /\ EchoIsOwn /\ Counted /\ FirstGets
    /\ FirstHasTheFile /\ ServerEndsHaveCause

(***************************************************************************)
(* Sequences of connections and of cells.                                  *)
(***************************************************************************)
LEMMA EmptyIs ==
    /\ \A S : << >> \in Seq(S)
    /\ Range(<< >>) = {} /\ IsInjective(<< >>) /\ Len(<< >>) = 0
<1>1. \A S : << >> \in Seq(S)
  OBVIOUS
<1>2. DOMAIN << >> = {} /\ Len(<< >>) = 0
  OBVIOUS
<1>. QED  BY <1>1, <1>2 DEF Range, IsInjective

\* What is in a sequence,
LEMMA RangeIs ==
    ASSUME NEW S, NEW s \in Seq(S)
    PROVE  /\ Len(s) \in Nat /\ DOMAIN s = 1..Len(s)
           /\ Range(s) = {s[i] : i \in 1..Len(s)} /\ Range(s) \subseteq S
           /\ \A i \in 1..Len(s) : s[i] \in Range(s) /\ s[i] \in S
           /\ s = << >> <=> Len(s) = 0
           /\ Range(s) = {} => s = << >>
<1>1. Len(s) \in Nat /\ DOMAIN s = 1..Len(s) /\ \A i \in 1..Len(s) : s[i] \in S
  OBVIOUS
<1>2. s = << >> <=> Len(s) = 0
  OBVIOUS
<1>3. Range(s) = {s[i] : i \in 1..Len(s)}
  BY <1>1 DEF Range
<1>4. \A i \in 1..Len(s) : s[i] \in Range(s)
  BY <1>3
<1>5. Range(s) = {} => s = << >>
  <2>1. Len(s) # 0 => 1 \in 1..Len(s)
    BY <1>1
  <2>. QED  BY <1>2, <1>4, <2>1
<1>. QED  BY <1>1, <1>2, <1>3, <1>4, <1>5

\* with one more at the end,
LEMMA AppendIs ==
    ASSUME NEW S, NEW s \in Seq(S), NEW e \in S
    PROVE  /\ Append(s, e) \in Seq(S) /\ Append(s, e) # << >>
           /\ Len(Append(s, e)) = Len(s) + 1
           /\ Append(s, e)[Len(s) + 1] = e
           /\ Head(Append(s, e)) = IF s = << >> THEN e ELSE Head(s)
           /\ Range(Append(s, e)) = Range(s) \cup {e}
           /\ IsInjective(s) /\ e \notin Range(s) => IsInjective(Append(s, e))
<1>. DEFINE t == Append(s, e)
<1>1. /\ t \in Seq(S) /\ t # << >> /\ Len(t) = Len(s) + 1 /\ t[Len(s) + 1] = e
      /\ \A i \in 1..Len(s) : t[i] = s[i]
  BY AppendProperties
<1>2. Head(t) = IF s = << >> THEN e ELSE Head(s)
  BY HeadTailAppend
<1>3. Len(s) \in Nat /\ Range(s) = {s[i] : i \in 1..Len(s)} /\ DOMAIN s = 1..Len(s)
  BY RangeIs
<1>4. Range(t) = {t[i] : i \in 1..Len(t)} /\ DOMAIN t = 1..Len(t)
  BY <1>1, RangeIs
<1>. HIDE DEF t
<1>5. 1..Len(t) = 1..Len(s) \cup {Len(s) + 1}
  BY <1>1, <1>3
<1>6. Range(t) = Range(s) \cup {e}
  BY <1>1, <1>3, <1>4, <1>5
<1>7. ASSUME IsInjective(s), e \notin Range(s)
      PROVE  IsInjective(t)
  BY <1>1, <1>3, <1>4, <1>5, <1>7 DEF IsInjective
<1>. QED  BY <1>1, <1>2, <1>6, <1>7 DEF t

\* and without its first.
LEMMA TailIs ==
    ASSUME NEW S, NEW s \in Seq(S), s # << >>
    PROVE  /\ Head(s) \in S /\ Head(s) \in Range(s) /\ Head(s) = s[1]
           /\ Tail(s) \in Seq(S) /\ Range(Tail(s)) \subseteq Range(s)
           /\ IsInjective(s) => IsInjective(Tail(s)) /\ Head(s) \notin Range(Tail(s))
<1>. DEFINE t == Tail(s)
<1>1. /\ Head(s) \in S /\ t \in Seq(S) /\ Len(t) = Len(s) - 1
      /\ \A i \in 1..Len(t) : t[i] = s[i + 1]
  BY HeadTailProperties
<1>2. Head(s) = s[1]
  OBVIOUS
<1>3. Len(s) \in Nat /\ Range(s) = {s[i] : i \in 1..Len(s)} /\ DOMAIN s = 1..Len(s) /\ Len(s) # 0
  BY RangeIs
<1>4. Range(t) = {t[i] : i \in 1..Len(t)} /\ DOMAIN t = 1..Len(t)
  BY <1>1, RangeIs
<1>. HIDE DEF t
<1>5. 1 \in 1..Len(s) /\ \A i \in 1..Len(t) : i + 1 \in 1..Len(s) /\ i + 1 # 1 /\ i \in Int
  BY <1>1, <1>3
<1>6. Range(t) \subseteq Range(s) /\ Head(s) \in Range(s)
  BY <1>1, <1>2, <1>3, <1>4, <1>5
<1>7. ASSUME IsInjective(s)
      PROVE  IsInjective(t) /\ Head(s) \notin Range(t)
  <2>1. \A i, j \in 1..Len(t) : t[i] = t[j] => i + 1 = j + 1
    BY <1>1, <1>3, <1>5, <1>7 DEF IsInjective
  <2>2. \A i \in 1..Len(t) : t[i] # s[1]
    BY <1>1, <1>3, <1>5, <1>7 DEF IsInjective
  <2>3. \A i, j \in 1..Len(t) : i + 1 = j + 1 => i = j
    BY <1>5
  <2>4. IsInjective(t)
    BY <1>4, <2>1, <2>3 DEF IsInjective
  <2>. QED  BY <1>2, <1>4, <2>2, <2>4
<1>. QED  BY <1>1, <1>2, <1>6, <1>7 DEF t

\* A sequence cut in two.
LEMMA CutIs ==
    ASSUME NEW S, NEW s \in Seq(S), NEW n \in 0..Len(s)
    PROVE  /\ SubSeq(s, 1, n) \in Seq(S) /\ Len(SubSeq(s, 1, n)) = n
           /\ \A i \in 1..n : SubSeq(s, 1, n)[i] = s[i]
           /\ SubSeq(s, n + 1, Len(s)) \in Seq(S) /\ Len(SubSeq(s, n + 1, Len(s))) = Len(s) - n
           /\ \A i \in 1..Len(s) - n : SubSeq(s, n + 1, Len(s))[i] = s[n + i]
           /\ Range(SubSeq(s, 1, n)) \subseteq Range(s)
           /\ Range(SubSeq(s, n + 1, Len(s))) \subseteq Range(s)
<1>. DEFINE a == SubSeq(s, 1, n)
            b == SubSeq(s, n + 1, Len(s))
<1>1. /\ Len(s) \in Nat /\ n \in Nat /\ n <= Len(s) /\ Range(s) = {s[i] : i \in 1..Len(s)}
      /\ \A i \in 1..Len(s) : s[i] \in S
  BY RangeIs
<1>2. a \in Seq(S) /\ Len(a) = n /\ \A i \in 1..n : a[i] = s[i]
  <2>1. \A i \in 1..n : s[i] \in S /\ 1 + i - 1 = i
    BY <1>1
  <2>2. /\ a \in Seq(S) /\ Len(a) = IF 1 <= n THEN n - 1 + 1 ELSE 0
        /\ \A i \in 1..n - 1 + 1 : a[i] = s[1 + i - 1]
    BY <1>1, <2>1, SubSeqProperties
  <2>. QED  BY <1>1, <2>1, <2>2
<1>3. b \in Seq(S) /\ Len(b) = Len(s) - n /\ \A i \in 1..Len(s) - n : b[i] = s[n + i]
  <2>1. \A i \in n + 1..Len(s) : s[i] \in S
    BY <1>1
  <2>2. /\ b \in Seq(S) /\ Len(b) = IF n + 1 <= Len(s) THEN Len(s) - (n + 1) + 1 ELSE 0
        /\ \A i \in 1..Len(s) - (n + 1) + 1 : b[i] = s[n + 1 + i - 1]
    BY <1>1, <2>1, SubSeqProperties
  <2>3. \A i \in 1..Len(s) - n : n + 1 + i - 1 = n + i /\ i \in 1..Len(s) - (n + 1) + 1
    BY <1>1
  <2>. QED  BY <1>1, <2>2, <2>3
<1>4. Range(a) = {a[i] : i \in 1..n} /\ Range(b) = {b[i] : i \in 1..Len(s) - n}
  <2>. HIDE DEF a, b
  <2>1. Range(a) = {a[i] : i \in 1..Len(a)}
    BY <1>2, RangeIs
  <2>2. Range(b) = {b[i] : i \in 1..Len(b)}
    BY <1>3, RangeIs
  <2>. QED  BY <1>2, <1>3, <2>1, <2>2
<1>. HIDE DEF a, b
<1>5. (\A i \in 1..n : i \in 1..Len(s)) /\ \A i \in 1..Len(s) - n : n + i \in 1..Len(s)
  BY <1>1
<1>6. Range(a) \subseteq Range(s) /\ Range(b) \subseteq Range(s)
  BY <1>1, <1>2, <1>3, <1>4, <1>5
<1>. QED  BY <1>2, <1>3, <1>6 DEF a, b

\* Two sequences put together.
LEMMA JoinIs ==
    ASSUME NEW S, NEW s \in Seq(S), NEW t \in Seq(S)
    PROVE  /\ s \o t \in Seq(S) /\ Len(s \o t) = Len(s) + Len(t)
           /\ \A i \in 1..Len(s) : (s \o t)[i] = s[i]
           /\ \A i \in 1..Len(t) : (s \o t)[Len(s) + i] = t[i]
           /\ Range(s \o t) = Range(s) \cup Range(t)
           /\ s = << >> => s \o t = t
           /\ t = << >> => s \o t = s
<1>1. /\ s \o t \in Seq(S) /\ Len(s \o t) = Len(s) + Len(t)
      /\ \A i \in 1..Len(s) + Len(t) :
            (s \o t)[i] = IF i <= Len(s) THEN s[i] ELSE t[i - Len(s)]
  BY ConcatProperties
<1>2. Len(s) \in Nat /\ Len(t) \in Nat
  OBVIOUS
<1>3. /\ \A i \in 1..Len(s) : i \in 1..Len(s) + Len(t) /\ i <= Len(s)
      /\ \A i \in 1..Len(t) : /\ Len(s) + i \in 1..Len(s) + Len(t) /\ ~ (Len(s) + i <= Len(s))
                               /\ Len(s) + i - Len(s) = i
  BY <1>2
<1>. QED  BY <1>1, <1>3, RangeConcatenation, ConcatEmptySeq

(***************************************************************************)
(* The steps of one program leave the other programs' variables alone.     *)
(***************************************************************************)
TransferServerNext == TransferServerStep /\ UNCHANGED echoVars
EchoServerNext == EchoServerStep /\ UNCHANGED transferVars
TransferClientNext(c) ==
    (TransferClientStep(c) \/ TransferLeave(c)) /\ UNCHANGED echoVars
EchoClientNext(c) ==
    (EchoClientStep(c) \/ EchoLeave(c)) /\ UNCHANGED transferVars

LEMMA NextIs ==
    ASSUME [Next]_vars
    PROVE  \/ TransferServerNext \/ EchoServerNext
           \/ \E c \in TransferClients : TransferClientNext(c)
           \/ \E c \in EchoClients : EchoClientNext(c)
           \/ UNCHANGED vars
  BY DEF Next, Server, Client, User, TransferServerNext, EchoServerNext,
     TransferClientNext, EchoClientNext

(***************************************************************************)
(* Where everybody is.                                                     *)
(***************************************************************************)
LEMMA TransferServerPlaced ==
    ASSUME Control, Placed, TransferServerNext
    PROVE  Control' /\ Placed'
<1>. USE SocketsAssumption DEF TransferServerNext, echoVars, echoServer
<1>1. CASE TransferBind \/ TransferListen \/ TransferLoad
  BY <1>1 DEF tcp, TransferBind, TransferListen, Listen, TransferLoad, Control, Placed, State
<1>2. CASE TransferAccept
  <2>1. /\ conn' \in Clients /\ conn' \in Range(backlog)
        /\ backlog' \in Seq(Clients) /\ Range(backlog') \subseteq Range(backlog)
        /\ IsInjective(backlog') /\ conn' \notin Range(backlog')
    BY <1>2, TailIs DEF TransferAccept, Control
  <2>2. /\ conn' \notin Range(order) /\ conn' \notin srvEnd /\ conn' # peer /\ State(conn') # "connect"
        /\ conn = None
    BY <1>2, <2>1 DEF TransferAccept, Control, Placed
  <2>3. /\ order' \in Seq(Clients) /\ order' # << >> /\ Len(order') = Len(order) + 1
        /\ order'[Len(order')] = conn' /\ Range(order') = Range(order) \cup {conn'}
        /\ IsInjective(order')
    BY <1>2, <2>1, <2>2, AppendIs DEF TransferAccept, Control
  <2>4. Control'
    BY <1>2, <2>1, <2>3 DEF TransferAccept, Control, State
  <2>5. \A c \in Clients : State(c)' = "connect" \/ c \in Range(backlog') =>
           c \notin srvEnd' \cup {conn', peer'} \cup Range(order')
    BY <1>2, <2>1, <2>2, <2>3 DEF TransferAccept, Control, Placed, State
  <2>6. \A c \in Clients : State(c)' = "connect" => c \notin Range(backlog')
    BY <1>2, <2>1 DEF TransferAccept, Placed, State
  <2>. Range(order) \subseteq Clients
    BY RangeIs DEF Control
  <2>7. peer' \notin Range(order') /\ Range(order') \subseteq srvEnd' \cup {conn'}
    BY <1>2, <2>1, <2>2, <2>3 DEF TransferAccept, Placed
  <2>8. Placed'
    BY <1>2, <2>1, <2>2, <2>3, <2>5, <2>6, <2>7 DEF TransferAccept, Control, Placed
  <2>. QED  BY <2>4, <2>8
<1>3. CASE FirstSend
  BY <1>3 DEF FirstSend, Deliver, More, Control, Placed, State
<1>4. CASE NextSend
  BY <1>4 DEF NextSend, Deliver, More, Control, Placed, State
<1>5. CASE ReadClosed
  BY <1>5 DEF ReadClosed, Deliver, More, Control, Placed, State
<1>6. CASE CloseConnection
  BY <1>6 DEF CloseConnection, ServerCloses, Control, Placed, State
<1>7. CASE TransferDies
  <2>1. /\ backlog' \in Seq(Clients) /\ Range(backlog') = {} /\ IsInjective(backlog')
        /\ Range(backlog) \subseteq Clients
    BY <1>7, EmptyIs, RangeIs DEF TransferDies, ServerEnds, Control
  <2>2. Control'
    BY <1>7, <2>1 DEF TransferDies, ServerEnds, Control, Placed, State
  <2>3. Placed'
    BY <1>7, <2>1 DEF TransferDies, ServerEnds, Control, Placed, State
  <2>. QED  BY <2>2, <2>3
<1>8. CASE TransferStartFails
  <2>1. /\ backlog' \in Seq(Clients) /\ Range(backlog') \subseteq Range(backlog) /\ IsInjective(backlog')
        /\ Range(backlog) \subseteq Clients /\ (port' = None => backlog' = << >>)
    <3>1. backlog \in Seq(Clients) /\ IsInjective(backlog) /\ (port = None => backlog = << >>)
      BY DEF Control
    <3>2. (backlog' = << >>) \/ (backlog' = backlog /\ port' = port)
      BY <1>8 DEF tcp, TransferStartFails, ServerEnds
    <3>3. CASE backlog' = << >>
      BY <3>1, <3>3, EmptyIs, RangeIs
    <3>4. CASE backlog' = backlog /\ port' = port
      BY <3>1, <3>4, RangeIs
    <3>. QED  BY <3>2, <3>3, <3>4
  <2>2. /\ srvEnd' \subseteq srvEnd \cup Range(backlog) /\ cut' \subseteq srvEnd' /\ srvEnd \subseteq srvEnd'
        /\ srvEnd' # srvEnd => Range(backlog') = {}
    BY <1>8, EmptyIs DEF tcp, TransferStartFails, ServerEnds, Control
  <2>3. Control'
    BY <1>8, <2>1, <2>2 DEF tcp, TransferStartFails, ServerEnds, Control, State
  <2>4. Placed'
    BY <1>8, <2>1, <2>2 DEF tcp, TransferStartFails, ServerEnds, Control, Placed, State
  <2>. QED  BY <2>3, <2>4
<1>. QED  BY <1>1, <1>2, <1>3, <1>4, <1>5, <1>6, <1>7, <1>8 DEF TransferServerStep

LEMMA EchoServerPlaced ==
    ASSUME Control, Placed, EchoServerNext
    PROVE  Control' /\ Placed'
<1>. USE SocketsAssumption DEF EchoServerNext, transferVars, transferServer
<1>1. CASE EchoBind \/ EchoListen \/ EchoStartFails
  BY <1>1 DEF tcp, EchoBind, EchoListen, Listen, EchoStartFails, Control, Placed, State
<1>2. CASE EchoAccept
  <2>1. /\ peer' \in Clients /\ peer' \in Range(backlog)
        /\ backlog' \in Seq(Clients) /\ Range(backlog') \subseteq Range(backlog)
        /\ IsInjective(backlog') /\ peer' \notin Range(backlog')
    BY <1>2, TailIs DEF EchoAccept, Control
  <2>2. /\ peer' \notin Range(order) /\ peer' \notin srvEnd /\ peer' # conn /\ State(peer') # "connect"
    BY <1>2, <2>1 DEF EchoAccept, Control, Placed
  <2>3. Control'
    BY <1>2, <2>1 DEF EchoAccept, Control, State
  <2>4. Placed'
    BY <1>2, <2>1, <2>2 DEF EchoAccept, Control, Placed, State
  <2>. QED  BY <2>3, <2>4
<1>3. CASE EchoRecv
  BY <1>3 DEF EchoRecv, Control, Placed, State
<1>4. CASE EchoExit \/ EchoRecvFails
  <2>0. backlog' = << >>
    BY <1>4 DEF EchoExit, EchoRecvFails, ServerEnds
  <2>1. /\ backlog' \in Seq(Clients) /\ Range(backlog') = {} /\ IsInjective(backlog')
        /\ Range(backlog) \subseteq Clients
    BY <2>0, EmptyIs, RangeIs DEF Control
  <2>2. Control'
    BY <1>4, <2>1 DEF EchoExit, EchoRecvFails, ServerEnds, Control, Placed, State
  <2>3. Placed'
    BY <1>4, <2>1 DEF EchoExit, EchoRecvFails, ServerEnds, Control, Placed, State
  <2>. QED  BY <2>2, <2>3
<1>5. CASE EchoSend
  <2>1. Range(order) \subseteq Clients
    BY RangeIs DEF Control
  <2>. QED  BY <1>5, <2>1 DEF EchoSend, Control, Placed, State
<1>. QED  BY <1>1, <1>2, <1>3, <1>4, <1>5 DEF EchoServerStep

\* A client that connects comes to the end of the backlog.
LEMMA ConnectKeeps ==
    ASSUME Control, Placed, NEW c \in Clients, State(c) = "connect", ConnectTo(c)
    PROVE  /\ backlog' \in Seq(Clients) /\ IsInjective(backlog')
           /\ Range(backlog') = Range(backlog) \cup {c} /\ port' # None
  BY AppendIs DEF ConnectTo, Control, Placed

LEMMA TransferClientPlaced ==
    ASSUME Control, Placed, NEW c \in TransferClients, TransferClientNext(c)
    PROVE  Control' /\ Placed'
<1>. USE SocketsAssumption DEF TransferClientNext, echoVars, echoServer, transferServer
<1>1. CASE TransferConnect(c)
  <2>1. State(c) = "connect" /\ ConnectTo(c)
    BY <1>1 DEF TransferConnect, State
  <2>2. /\ backlog' \in Seq(Clients) /\ IsInjective(backlog')
        /\ Range(backlog') = Range(backlog) \cup {c} /\ port' # None
    BY <2>1, ConnectKeeps
  <2>3. Control'
    BY <1>1, <2>2 DEF TransferConnect, ConnectTo, Control, State, Ended
  <2>4. Placed'
    BY <1>1, <2>1, <2>2 DEF TransferConnect, ConnectTo, Control, Placed, State
  <2>. QED  BY <2>3, <2>4
<1>2. CASE TransferRecv(c)
  BY <1>2 DEF TransferRecv, ClientReads, Control, Placed, State, Ended
<1>3. CASE TransferReset(c)
  BY <1>3 DEF TransferReset, ClientEnds, Control, Placed, State, Ended
<1>4. CASE TransferClose(c)
  BY <1>4 DEF TransferClose, ClientEnds, Control, Placed, State, Ended
<1>5. CASE TransferLeave(c)
  BY <1>5 DEF TransferLeave, ClientEnds, Control, Placed, State, Ended
<1>. QED  BY <1>1, <1>2, <1>3, <1>4, <1>5 DEF TransferClientStep

LEMMA EchoClientPlaced ==
    ASSUME Control, Placed, NEW c \in EchoClients, EchoClientNext(c)
    PROVE  Control' /\ Placed'
<1>. USE SocketsAssumption DEF EchoClientNext, transferVars, transferServer, echoServer
<1>1. CASE EchoConnect(c)
  <2>1. State(c) = "connect" /\ ConnectTo(c)
    BY <1>1 DEF EchoConnect, State
  <2>2. /\ backlog' \in Seq(Clients) /\ IsInjective(backlog')
        /\ Range(backlog') = Range(backlog) \cup {c} /\ port' # None
    BY <2>1, ConnectKeeps
  <2>3. Control'
    BY <1>1, <2>2 DEF EchoConnect, ConnectTo, Control, State, Ended
  <2>4. Placed'
    BY <1>1, <2>1, <2>2 DEF EchoConnect, ConnectTo, Control, Placed, State
  <2>. QED  BY <2>3, <2>4
<1>2. CASE EchoSendMessage(c)
  BY <1>2 DEF EchoSendMessage, Control, Placed, State, Ended
<1>3. CASE EchoPrint(c)
  BY <1>3 DEF EchoPrint, ClientReads, Control, Placed, State, Ended
<1>4. CASE EchoClose(c)
  BY <1>4 DEF EchoClose, ClientEnds, Control, Placed, State, Ended
<1>5. CASE EchoReset(c)
  BY <1>5 DEF EchoReset, ClientEnds, Control, Placed, State, Ended
<1>6. CASE EchoLeave(c)
  BY <1>6 DEF EchoLeave, ClientEnds, Control, Placed, State, Ended
<1>. QED  BY <1>1, <1>2, <1>3, <1>4, <1>5, <1>6 DEF EchoClientStep

(***************************************************************************)
(* What the operators of the model give.                                   *)
(***************************************************************************)
LEMMA PartIs ==
    ASSUME Counted, file # "unopened"
    PROVE  /\ Part \in Nat /\ Part <= Chunk /\ Part <= left
           /\ left \in Nat /\ left = FileLen - sent /\ (left > 0 => Part > 0)
           /\ FileLen \in Nat /\ Chunk \in Nat /\ sent \in Int /\ pos \in Nat /\ pos <= FileLen
  BY SocketsAssumption DEF Counted, Part, Least

LEMMA FileCellsAre ==
    ASSUME NEW a \in Nat, NEW b \in Nat, a <= b
    PROVE  /\ FileCells(a, b) \in Seq({File} \X (a + 1..b)) /\ Len(FileCells(a, b)) = b - a
           /\ \A i \in 1..b - a : FileCells(a, b)[i] = <<File, a + i>>
<1>1. b - a \in Nat /\ \A i \in 1..b - a : a + i \in a + 1..b
  OBVIOUS
<1>2. FileCells(a, b) \in [1..b - a -> {File} \X (a + 1..b)]
  BY <1>1 DEF FileCells
<1>3. \A i \in 1..b - a : FileCells(a, b)[i] = <<File, a + i>>
  BY DEF FileCells
<1>. HIDE DEF FileCells
<1>. QED  BY <1>1, <1>2, <1>3

LEMMA PaddedIs ==
    ASSUME NEW S, NEW cells \in Seq(S), NEW n \in Nat
    PROVE  /\ Padded(cells, n) \in Seq(S \cup {Zero}) /\ Len(Padded(cells, n)) = n
           /\ \A i \in 1..n : i <= Len(cells) => Padded(cells, n)[i] = cells[i]
           /\ Range(Padded(cells, n)) \subseteq Range(cells) \cup {Zero}
<1>. DEFINE p == Padded(cells, n)
<1>1. \A i \in 1..n : i <= Len(cells) => i \in 1..Len(cells) /\ cells[i] \in S /\ cells[i] \in Range(cells)
  BY RangeIs
<1>2. p \in [1..n -> S \cup {Zero}]
  BY <1>1 DEF Padded
<1>3. \A i \in 1..n : p[i] = IF i <= Len(cells) THEN cells[i] ELSE Zero
  BY DEF Padded
<1>. HIDE DEF p
<1>4. p \in Seq(S \cup {Zero}) /\ Len(p) = n
  BY <1>2
<1>5. Range(p) = {p[i] : i \in 1..n}
  BY <1>4, RangeIs
<1>6. Range(p) \subseteq Range(cells) \cup {Zero}
  BY <1>1, <1>3, <1>5
<1>. QED  BY <1>3, <1>4, <1>6 DEF p

\* A wider set of cells.
LEMMA WiderSeq ==
    ASSUME NEW S, NEW T, S \subseteq T, NEW s \in Seq(S)
    PROVE  s \in Seq(T)
  BY SeqMonotonic

LEMMA CellIs ==
    /\ FileCell \subseteq Cell /\ Zero \in Cell /\ Zero \notin FileCell
    /\ \A c \in Clients : OwnCell(c) \subseteq Cell /\ OwnCell(c) \cap FileCell = {}
    /\ \A c \in EchoClients : \A i \in 1..MsgLen[c] : <<c, i>> \in OwnCell(c)
<1>1. FileCell \subseteq Cell /\ Zero \in Cell
  BY DEF Cell
<1>2. Zero \notin FileCell
  BY SocketsAssumption DEF Zero, FileCell
<1>3. \A c \in EchoClients : OwnCell(c) = {c} \X (1..MsgLen[c]) /\ OwnCell(c) \subseteq Cell
  BY DEF OwnCell, Cell
<1>4. \A c \in EchoClients : OwnCell(c) \cap FileCell = {}
  BY <1>3, SocketsAssumption DEF FileCell
<1>5. \A c \in Clients : c \notin EchoClients => OwnCell(c) = {}
  BY DEF OwnCell
<1>. QED  BY <1>1, <1>2, <1>3, <1>4, <1>5

\* recv of a client takes the first cells of what is on its way.
LEMMA ReadIs ==
    ASSUME down \in [Clients -> Seq(Cell)], NEW c \in Clients, NEW n \in Nat, ClientReads(c, n)
    PROVE  /\ n \in 0..Len(down[c]) /\ (n = 0 => down[c] = << >> /\ c \in srvEnd)
           /\ n # 0 => down[c] # << >>
           /\ down' \in [Clients -> Seq(Cell)]
           /\ down'[c] = SubSeq(down[c], n + 1, Len(down[c]))
           /\ \A d \in Clients : d # c => down'[d] = down[d]
           /\ Range(down'[c]) \subseteq Range(down[c])
           /\ SubSeq(down[c], 1, n) \in Seq(Cell) /\ Range(SubSeq(down[c], 1, n)) \subseteq Range(down[c])
           /\ UNCHANGED <<port, backlog, up, srvEnd, cliEnd, cut>>
<1>1. down[c] \in Seq(Cell) /\ Len(down[c]) \in Nat /\ (down[c] = << >> <=> Len(down[c]) = 0)
  BY RangeIs
<1>2. n \in 0..Len(down[c]) /\ (n = 0 => down[c] = << >> /\ c \in srvEnd) /\ (n # 0 => down[c] # << >>)
  BY <1>1 DEF ClientReads
<1>3. /\ SubSeq(down[c], 1, n) \in Seq(Cell) /\ SubSeq(down[c], n + 1, Len(down[c])) \in Seq(Cell)
      /\ Range(SubSeq(down[c], 1, n)) \subseteq Range(down[c])
      /\ Range(SubSeq(down[c], n + 1, Len(down[c]))) \subseteq Range(down[c])
  BY <1>1, <1>2, CutIs
<1>4. down' = [down EXCEPT ![c] = SubSeq(down[c], n + 1, Len(down[c]))]
  BY DEF ClientReads
<1>. QED  BY <1>2, <1>3, <1>4 DEF ClientReads

\* What the transfer server sends reaches a client that is there.
LEMMA DeliverIs ==
    ASSUME down \in [Clients -> Seq(Cell)], conn \in Clients, NEW cells \in Seq(Cell), Deliver(cells)
    PROVE  /\ down' \in [Clients -> Seq(Cell)]
           /\ conn \in cliEnd => down' = down
           /\ conn \notin cliEnd => down'[conn] = down[conn] \o cells
           /\ \A d \in Clients : d # conn => down'[d] = down[d]
           /\ Range(down'[conn]) \subseteq Range(down[conn]) \cup Range(cells)
           /\ UNCHANGED <<port, backlog, up, srvEnd, cliEnd, cut>>
<1>1. down[conn] \o cells \in Seq(Cell) /\ Range(down[conn] \o cells) = Range(down[conn]) \cup Range(cells)
  BY JoinIs
<1>2. down' = IF conn \in cliEnd THEN down ELSE [down EXCEPT ![conn] = down[conn] \o cells]
  BY DEF Deliver
<1>. QED  BY <1>1, <1>2 DEF Deliver

\* The connection the transfer server serves.
LEMMA ServedIs ==
    ASSUME Control, Placed, tpc \in {"first", "loop", "close"}
    PROVE  /\ conn \in Clients /\ conn # None /\ conn \in Range(order) /\ conn \notin srvEnd /\ conn # peer
           /\ order # << >> /\ Len(order) \in Nat \ {0} /\ conn = order[Len(order)]
           /\ Head(order) = order[1] /\ Head(order) \in Range(order) /\ Head(order) \in Clients
           /\ Len(order) = 1 => conn = Head(order)
           /\ Len(order) > 1 => conn # Head(order) /\ Head(order) \in srvEnd
<1>1. conn \in Clients /\ conn # None /\ conn \notin srvEnd
  BY DEF Placed
<1>2. order \in Seq(Clients) /\ IsInjective(order) /\ order # << >> /\ conn = order[Len(order)]
  BY <1>1 DEF Control, Placed
<1>3. /\ Len(order) \in Nat /\ Len(order) # 0 /\ DOMAIN order = 1..Len(order)
      /\ \A i \in 1..Len(order) : order[i] \in Range(order)
  BY <1>2, RangeIs
<1>4. 1 \in 1..Len(order) /\ Len(order) \in 1..Len(order)
  BY <1>3
<1>5. Head(order) = order[1] /\ Head(order) \in Range(order) /\ Head(order) \in Clients
  BY <1>2, TailIs
<1>6. conn \in Range(order) /\ conn # peer
  BY <1>2, <1>3, <1>4 DEF Placed
<1>7. Len(order) > 1 => conn # Head(order) /\ Head(order) \in srvEnd
  <2>1. Len(order) > 1 => order[Len(order)] # order[1]
    BY <1>2, <1>3, <1>4 DEF IsInjective
  <2>. QED  BY <1>2, <1>5, <2>1 DEF Placed
<1>. QED  BY <1>1, <1>2, <1>3, <1>5, <1>6, <1>7

\* What each of the three sends of the server sends.
LEMMA FirstSends ==
    ASSUME Counted, FirstSend
    PROVE  LET cells == Padded(buffer, Part) IN
           /\ Deliver(cells) /\ cells \in Seq(FileCell \cup {Zero}) /\ Len(cells) = Part
           /\ Range(cells) \subseteq Range(buffer) \cup {Zero}
           /\ left = 0 => cells = << >>
           /\ tpc' \in {"loop", "close"}
<1>1. /\ Part \in Nat /\ pos \in Nat /\ pos <= FileLen /\ FileLen \in Nat /\ Part <= left
      /\ buffer \in Seq({File} \X (1..pos))
  BY PartIs DEF FirstSend, Counted
<1>2. {File} \X (1..pos) \subseteq FileCell
  BY <1>1 DEF FileCell
<1>3. buffer \in Seq(FileCell)
  BY <1>1, <1>2, WiderSeq
<1>4. /\ Padded(buffer, Part) \in Seq(FileCell \cup {Zero}) /\ Len(Padded(buffer, Part)) = Part
      /\ Range(Padded(buffer, Part)) \subseteq Range(buffer) \cup {Zero}
  BY <1>1, <1>3, PaddedIs
<1>5. left = 0 => Padded(buffer, Part) = << >>
  BY <1>1, <1>4, RangeIs
<1>6. Deliver(Padded(buffer, Part)) /\ tpc' \in {"loop", "close"}
  BY DEF FirstSend, More
<1>. QED  BY <1>4, <1>5, <1>6

LEMMA NextSends ==
    ASSUME Counted, NextSend
    PROVE  LET cells == Padded(buffer', Part) IN
           /\ Deliver(cells) /\ cells \in Seq(FileCell \cup {Zero}) /\ Len(cells) = Part
           /\ Range(cells) \subseteq Range(buffer') \cup {Zero}
           /\ buffer' \in Seq({File} \X (pos + 1..pos')) /\ pos' \in Nat /\ pos <= pos' /\ pos' <= FileLen
           /\ pos' = Least(pos + Part, FileLen)
           /\ Len(buffer') = pos' - pos /\ (\A i \in 1..pos' - pos : buffer'[i] = <<File, pos + i>>)
           /\ tpc' \in {"loop", "close"}
<1>. DEFINE q == Least(pos + Part, FileLen)
<1>1. Part \in Nat /\ pos \in Nat /\ pos <= FileLen /\ FileLen \in Nat
  BY PartIs DEF NextSend, Counted
<1>2. q \in Nat /\ pos <= q /\ q <= FileLen
  BY <1>1 DEF Least
<1>3. buffer' = FileCells(pos, q) /\ pos' = pos + Len(FileCells(pos, q))
  BY DEF NextSend, ReadPart
<1>. HIDE DEF q
<1>4. /\ FileCells(pos, q) \in Seq({File} \X (pos + 1..q)) /\ Len(FileCells(pos, q)) = q - pos
      /\ \A i \in 1..q - pos : FileCells(pos, q)[i] = <<File, pos + i>>
  BY <1>1, <1>2, FileCellsAre
<1>5. pos' = q
  BY <1>1, <1>2, <1>3, <1>4
<1>6. {File} \X (pos + 1..q) \subseteq FileCell
  BY <1>1, <1>2 DEF FileCell
<1>7. buffer' \in Seq(FileCell)
  BY <1>3, <1>4, <1>6, WiderSeq
<1>8. /\ Padded(buffer', Part) \in Seq(FileCell \cup {Zero}) /\ Len(Padded(buffer', Part)) = Part
      /\ Range(Padded(buffer', Part)) \subseteq Range(buffer') \cup {Zero}
  BY <1>1, <1>7, PaddedIs
<1>9. Deliver(Padded(buffer', Part)) /\ tpc' \in {"loop", "close"}
  BY DEF NextSend, More
<1>. QED  BY <1>2, <1>3, <1>4, <1>5, <1>8, <1>9 DEF q

LEMMA ClosedSends ==
    ASSUME Counted, ReadClosed
    PROVE  LET cells == Padded(<< >>, Part) IN
           /\ Deliver(cells) /\ cells \in Seq(FileCell \cup {Zero})
           /\ Range(cells) \subseteq {Zero}
           /\ tpc' \in {"loop", "close"}
<1>1. Part \in Nat /\ << >> \in Seq(FileCell) /\ Range(<< >>) = {}
  BY PartIs, EmptyIs DEF ReadClosed, Counted
<1>2. /\ Padded(<< >>, Part) \in Seq(FileCell \cup {Zero})
      /\ Range(Padded(<< >>, Part)) \subseteq Range(<< >>) \cup {Zero}
  BY <1>1, PaddedIs
<1>3. Deliver(Padded(<< >>, Part)) /\ tpc' \in {"loop", "close"}
  BY DEF ReadClosed, More
<1>. QED  BY <1>1, <1>2, <1>3

\* All three send cells of the file or zeros, to the connection they serve.
LEMMA SendIs ==
    ASSUME Control, Placed, Counted, FirstSend \/ NextSend \/ ReadClosed
    PROVE  /\ tpc \in {"first", "loop"} /\ tpc' \in {"loop", "close"}
           /\ \E cells \in Seq(FileCell \cup {Zero}) : Deliver(cells)
           /\ UNCHANGED <<conn, file, order, rpc, saved>>
<1>1. CASE FirstSend
  BY <1>1, FirstSends DEF FirstSend
<1>2. CASE NextSend
  BY <1>2, NextSends DEF NextSend
<1>3. CASE ReadClosed
  BY <1>3, ClosedSends DEF ReadClosed
<1>. QED  BY <1>1, <1>2, <1>3

(***************************************************************************)
(* What is on its way and what the clients have.                           *)
(***************************************************************************)
LEMMA TransferServerCells ==
    ASSUME Control, Placed, Cells, Counted, TransferServerNext
    PROVE  Cells'
<1>. USE SocketsAssumption DEF TransferServerNext, echoVars, echoServer
<1>0. order \in Seq(Clients) /\ Range(order) \subseteq Clients
  BY RangeIs DEF Control
<1>1. CASE TransferBind \/ TransferListen \/ TransferLoad
  BY <1>1 DEF tcp, TransferBind, TransferListen, Listen, TransferLoad, Cells, Unserved, State, Got
<1>2. CASE TransferAccept
  <2>1. /\ conn' \in Clients /\ conn' \in Range(backlog)
        /\ Range(backlog') \subseteq Range(backlog) /\ conn' \notin Range(backlog')
    BY <1>2, TailIs DEF TransferAccept, Control
  <2>2. Range(order') = Range(order) \cup {conn'}
    BY <1>0, <1>2, <2>1, AppendIs DEF TransferAccept
  <2>3. \A c \in Clients : Unserved(c)' => Unserved(c)
    BY <1>2, <2>1 DEF TransferAccept, Unserved, State
  <2>4. down[conn'] = << >>
    BY <2>1 DEF Cells, Unserved
  <2>5. Range(down[conn']) \subseteq FileCell \cup {Zero}
    BY <2>4, EmptyIs
  <2>. QED  BY <1>2, <2>2, <2>3, <2>5 DEF TransferAccept, Cells, Got
<1>3. CASE FirstSend \/ NextSend \/ ReadClosed
  <2>1. /\ tpc \in {"first", "loop"} /\ tpc' \in {"loop", "close"}
        /\ \E cells \in Seq(FileCell \cup {Zero}) : Deliver(cells)
        /\ UNCHANGED <<conn, order, rpc, saved>>
    BY <1>3, SendIs
  <2>2. PICK cells \in Seq(FileCell \cup {Zero}) : Deliver(cells)
    BY <2>1
  <2>3. cells \in Seq(Cell) /\ Range(cells) \subseteq FileCell \cup {Zero}
    BY <2>2, CellIs, WiderSeq, RangeIs
  <2>4. conn \in Clients /\ conn \in Range(order) /\ conn # peer
    BY <2>1, ServedIs
  <2>5. /\ down' \in [Clients -> Seq(Cell)] /\ \A d \in Clients : d # conn => down'[d] = down[d]
        /\ Range(down'[conn]) \subseteq Range(down[conn]) \cup Range(cells)
        /\ UNCHANGED <<port, backlog, up, srvEnd, cliEnd, cut>>
    BY <2>2, <2>3, <2>4, DeliverIs DEF Cells
  <2>6. \A c \in Clients : Unserved(c)' => Unserved(c) /\ c # conn
    BY <2>1, <2>4, <2>5 DEF Unserved, State, Placed
  <2>7. \A c \in Clients : Got(c)' = Got(c)
    BY <2>1 DEF Got
  <2>8. \A c \in Range(order') : Range(down'[c]) \subseteq FileCell \cup {Zero}
    BY <1>0, <2>1, <2>3, <2>4, <2>5 DEF Cells
  <2>. QED  BY <2>1, <2>5, <2>6, <2>7, <2>8 DEF Cells
<1>4. CASE CloseConnection
  BY <1>4 DEF CloseConnection, ServerCloses, Cells, Unserved, State, Got
<1>5. CASE TransferDies
  <2>1. \A c \in Clients : Unserved(c)' => Unserved(c)
    BY <1>5, EmptyIs DEF TransferDies, ServerEnds, Unserved, State
  <2>. QED  BY <1>5, <2>1 DEF TransferDies, ServerEnds, Cells, Got
<1>6. CASE TransferStartFails
  <2>1. \A c \in Clients : Unserved(c)' => Unserved(c)
    BY <1>6, EmptyIs DEF tcp, TransferStartFails, ServerEnds, Unserved, State
  <2>. QED  BY <1>6, <2>1 DEF tcp, TransferStartFails, ServerEnds, Cells, Got
<1>. QED  BY <1>1, <1>2, <1>3, <1>4, <1>5, <1>6 DEF TransferServerStep

\* What the echo server sends back are cells of its peer's message.
LEMMA ReplyIs ==
    ASSUME Echoes, epc = "check", peer \in Clients
    PROVE  /\ Reply \in Seq(Cell) /\ Range(Reply) \subseteq OwnCell(peer)
           /\ peer \in EchoClients => Begins(Reply, peer)
<1>1. CASE got = 0
  <2>1. Reply = << >> /\ Reply \in Seq(Cell) /\ Range(Reply) = {} /\ Len(Reply) = 0
    <3>1. text \in Seq(Cell) /\ 0 \in 0..Len(text)
      BY RangeIs DEF Echoes
    <3>2. Reply \in Seq(Cell) /\ Len(Reply) = 0
      BY <1>1, <3>1, CutIs DEF Reply
    <3>3. Reply = << >>
      BY <3>2, RangeIs
    <3>. QED  BY <3>2, <3>3, EmptyIs
  <2>. QED  BY <2>1, SocketsAssumption DEF Begins
<1>2. CASE got # 0
  <2>1. got > 0 /\ got \in Nat
    BY <1>2, SocketsAssumption DEF Echoes
  <2>2. /\ peer \in EchoClients /\ text \in Seq(Cell) /\ got \in 0..Len(text) /\ got <= MsgLen[peer]
        /\ \A i \in 1..got : text[i] = <<peer, i>>
    BY <2>1 DEF Echoes
  <2>3. Reply \in Seq(Cell) /\ Len(Reply) = got /\ \A i \in 1..got : Reply[i] = text[i]
    BY <2>2, CutIs DEF Reply
  <2>4. Range(Reply) = {Reply[i] : i \in 1..got} /\ MsgLen[peer] \in Nat
    BY <2>2, <2>3, RangeIs, SocketsAssumption
  <2>5. \A i \in 1..got : i \in 1..MsgLen[peer] /\ Reply[i] = <<peer, i>>
    BY <2>1, <2>2, <2>3, <2>4
  <2>6. Range(Reply) \subseteq OwnCell(peer)
    BY <2>2, <2>4, <2>5, CellIs
  <2>7. Begins(Reply, peer)
    BY <2>2, <2>3, <2>5 DEF Begins
  <2>. QED  BY <2>3, <2>6, <2>7
<1>. QED  BY <1>1, <1>2

LEMMA EchoServerCells ==
    ASSUME Control, Placed, Cells, Echoes, EchoServerNext
    PROVE  Cells'
<1>. USE SocketsAssumption DEF EchoServerNext, transferVars, transferServer
<1>0. order \in Seq(Clients) /\ Range(order) \subseteq Clients
  BY RangeIs DEF Control
<1>1. CASE EchoBind \/ EchoListen \/ EchoStartFails
  BY <1>1 DEF tcp, EchoBind, EchoListen, Listen, EchoStartFails, Cells, Unserved, State, Got
<1>2. CASE EchoAccept
  <2>1. /\ peer' \in Clients /\ peer' \in Range(backlog)
        /\ Range(backlog') \subseteq Range(backlog) /\ peer' \notin Range(backlog')
    BY <1>2, TailIs DEF EchoAccept, Control
  <2>2. \A c \in Clients : Unserved(c)' => Unserved(c)
    BY <1>2, <2>1 DEF EchoAccept, Unserved, State
  <2>. QED  BY <1>2, <2>2 DEF EchoAccept, Cells, Got
<1>3. CASE EchoRecv
  <2>1. PICK n \in 0..EchoBuf :
          /\ IF up[peer] = << >> THEN n = 0 /\ peer \in cliEnd ELSE n \in 1..Len(up[peer])
          /\ up' = [up EXCEPT ![peer] = SubSeq(@, n + 1, Len(@))]
    BY <1>3 DEF EchoRecv
  <2>2. peer \in Clients /\ up[peer] \in Seq(Cell) /\ n \in 0..Len(up[peer])
    <3>1. peer \in Clients /\ up[peer] \in Seq(Cell)
      BY <1>3 DEF EchoRecv, Cells, Placed
    <3>2. Len(up[peer]) \in Nat /\ (up[peer] = << >> <=> Len(up[peer]) = 0)
      BY <3>1, RangeIs
    <3>. QED  BY <2>1, <3>1, <3>2
  <2>3. /\ SubSeq(up[peer], n + 1, Len(up[peer])) \in Seq(Cell)
        /\ Range(SubSeq(up[peer], n + 1, Len(up[peer]))) \subseteq Range(up[peer])
    BY <2>2, CutIs
  <2>4. /\ up' \in [Clients -> Seq(Cell)] /\ Range(up'[peer]) \subseteq Range(up[peer])
        /\ \A c \in Clients : c # peer => up'[c] = up[c]
    BY <2>1, <2>2, <2>3 DEF Cells
  <2>5. \A c \in Clients : Unserved(c)' => Unserved(c)
    BY <1>3 DEF EchoRecv, Unserved, State
  <2>. QED  BY <1>3, <2>2, <2>4, <2>5 DEF EchoRecv, Cells, Got
<1>4. CASE EchoExit \/ EchoRecvFails
  <2>1. \A c \in Clients : Unserved(c)' => Unserved(c)
    BY <1>4, EmptyIs DEF EchoExit, EchoRecvFails, ServerEnds, Unserved, State
  <2>. QED  BY <1>4, <2>1 DEF EchoExit, EchoRecvFails, ServerEnds, Cells, Got
<1>5. CASE EchoSend
  <2>1. peer \in Clients /\ peer \notin Range(order) /\ epc = "check"
    BY <1>5 DEF EchoSend, Placed
  <2>2. Reply \in Seq(Cell)
    BY <2>1, ReplyIs
  <2>3. down[peer] \o Reply \in Seq(Cell)
    BY <2>1, <2>2, JoinIs DEF Cells
  <2>4. /\ down' \in [Clients -> Seq(Cell)] /\ \A c \in Clients : c # peer => down'[c] = down[c]
    BY <1>5, <2>1, <2>3 DEF EchoSend, Cells
  <2>. tpc = "first" => conn # peer
    BY ServedIs
  <2>5. \A c \in Clients : Unserved(c)' => Unserved(c) /\ c # peer
    BY <1>5, <2>1 DEF EchoSend, Unserved, State, Placed
  <2>. QED  BY <1>0, <1>5, <2>1, <2>4, <2>5 DEF EchoSend, Cells, Got
<1>. QED  BY <1>1, <1>2, <1>3, <1>4, <1>5 DEF EchoServerStep

LEMMA TransferClientCells ==
    ASSUME Control, Placed, Cells, NEW c \in TransferClients, TransferClientNext(c)
    PROVE  Cells'
<1>. USE SocketsAssumption DEF TransferClientNext, echoVars, echoServer, transferServer
<1>1. CASE TransferConnect(c)
  <2>1. Range(backlog') = Range(backlog) \cup {c}
    BY <1>1, AppendIs DEF TransferConnect, ConnectTo, Control
  <2>2. \A d \in Clients : Unserved(d)' => Unserved(d)
    BY <1>1, <2>1 DEF TransferConnect, ConnectTo, Unserved, State, Control
  <2>. QED  BY <1>1, <2>2 DEF TransferConnect, ConnectTo, Cells, Got
<1>2. CASE TransferRecv(c)
  <2>1. PICK n \in 0..RecvBuf :
          /\ ClientReads(c, n)
          /\ saved' = [saved EXCEPT ![c] = @ \o SubSeq(down[c], 1, n)]
          /\ rpc' = [rpc EXCEPT ![c] = IF n = 0 THEN "close" ELSE @]
    BY <1>2 DEF TransferRecv
  <2>2. n \in Nat /\ c \in Clients
    OBVIOUS
  <2>3. /\ n = 0 => c \in srvEnd
        /\ n # 0 => down[c] # << >>
        /\ down' \in [Clients -> Seq(Cell)] /\ \A d \in Clients : d # c => down'[d] = down[d]
        /\ Range(down'[c]) \subseteq Range(down[c]) /\ SubSeq(down[c], 1, n) \in Seq(Cell)
        /\ UNCHANGED <<port, backlog, up, srvEnd, cliEnd, cut>>
    BY <2>1, <2>2, ReadIs DEF Cells
  <2>4. saved[c] \o SubSeq(down[c], 1, n) \in Seq(Cell)
    BY <2>3, JoinIs DEF Cells
  <2>5. /\ saved' \in [TransferClients -> Seq(Cell)]
        /\ \A d \in TransferClients : d # c => saved'[d] = saved[d]
    BY <2>1, <2>4 DEF Cells
  <2>6. ~ Unserved(c)
    BY <1>2, <2>2, <2>3 DEF TransferRecv, Unserved, Cells, Placed, Control
  <2>7. \A d \in Clients : Unserved(d)' => Unserved(d) /\ d # c
    BY <1>2, <2>1, <2>3, <2>6 DEF TransferRecv, Unserved, State, Control
  <2>8. \A d \in Clients : d # c => Got(d)' = Got(d)
    BY <1>2, <2>5 DEF TransferRecv, Got
  <2>9. Range(order) \subseteq Clients
    BY RangeIs DEF Control
  <2>. QED  BY <1>2, <2>3, <2>5, <2>7, <2>8, <2>9 DEF TransferRecv, Cells
<1>3. CASE TransferReset(c)
  BY <1>3 DEF TransferReset, ClientEnds, Cells, Unserved, State, Got, Control
<1>4. CASE TransferClose(c)
  BY <1>4 DEF TransferClose, ClientEnds, Cells, Unserved, State, Got, Control
<1>5. CASE TransferLeave(c)
  BY <1>5 DEF TransferLeave, ClientEnds, Cells, Unserved, State, Got, Control
<1>. QED  BY <1>1, <1>2, <1>3, <1>4, <1>5 DEF TransferClientStep

LEMMA MessageIs ==
    ASSUME NEW c \in EchoClients
    PROVE  /\ Message(c) \in Seq(Cell) /\ Len(Message(c)) = MsgLen[c] /\ MsgLen[c] \in Nat
           /\ Range(Message(c)) \subseteq OwnCell(c) /\ Begins(Message(c), c)
<1>. DEFINE m == Message(c)
<1>1. MsgLen[c] \in Nat
  BY SocketsAssumption
<1>2. m \in [1..MsgLen[c] -> OwnCell(c)] /\ \A i \in 1..MsgLen[c] : m[i] = <<c, i>>
  BY CellIs DEF Message
<1>. HIDE DEF m
<1>3. m \in Seq(OwnCell(c)) /\ Len(m) = MsgLen[c]
  BY <1>1, <1>2
<1>4. OwnCell(c) \subseteq Cell
  BY CellIs, SocketsAssumption
<1>5. m \in Seq(Cell)
  BY <1>3, <1>4, WiderSeq
<1>6. Range(m) \subseteq OwnCell(c)
  BY <1>3, RangeIs
<1>7. Begins(m, c)
  BY <1>1, <1>2, <1>3 DEF Begins
<1>. QED  BY <1>1, <1>3, <1>5, <1>6, <1>7 DEF m

LEMMA EchoClientCells ==
    ASSUME Control, Placed, Cells, NEW c \in EchoClients, EchoClientNext(c)
    PROVE  Cells'
<1>. USE SocketsAssumption DEF EchoClientNext, transferVars, transferServer, echoServer
<1>1. CASE EchoConnect(c)
  <2>1. Range(backlog') = Range(backlog) \cup {c}
    BY <1>1, AppendIs DEF EchoConnect, ConnectTo, Control
  <2>2. \A d \in Clients : Unserved(d)' => Unserved(d)
    BY <1>1, <2>1 DEF EchoConnect, ConnectTo, Unserved, State, Control
  <2>. QED  BY <1>1, <2>2 DEF EchoConnect, ConnectTo, Cells, Got
<1>2. CASE EchoSendMessage(c)
  <2>1. Message(c) \in Seq(Cell) /\ Range(Message(c)) \subseteq OwnCell(c)
    BY MessageIs
  <2>2. /\ up' \in [Clients -> Seq(Cell)] /\ up'[c] = Message(c)
        /\ \A d \in Clients : d # c => up'[d] = up[d]
    BY <1>2, <2>1 DEF EchoSendMessage, Cells
  <2>3. \A d \in Clients : Unserved(d)' => Unserved(d)
    BY <1>2 DEF EchoSendMessage, Unserved, State, Control
  <2>. QED  BY <1>2, <2>1, <2>2, <2>3 DEF EchoSendMessage, Cells, Got
<1>3. CASE EchoPrint(c)
  <2>1. PICK n \in 0..PrintBuf :
          /\ ClientReads(c, n)
          /\ printed' = [printed EXCEPT ![c] = SubSeq(down[c], 1, n)]
    BY <1>3 DEF EchoPrint
  <2>2. n \in Nat /\ c \in Clients
    OBVIOUS
  <2>3. /\ n = 0 => c \in srvEnd
        /\ n # 0 => down[c] # << >>
        /\ down' \in [Clients -> Seq(Cell)] /\ \A d \in Clients : d # c => down'[d] = down[d]
        /\ Range(down'[c]) \subseteq Range(down[c]) /\ SubSeq(down[c], 1, n) \in Seq(Cell)
        /\ UNCHANGED <<port, backlog, up, srvEnd, cliEnd, cut>>
    BY <2>1, <2>2, ReadIs DEF Cells
  <2>4. /\ printed' \in [EchoClients -> Seq(Cell)]
        /\ \A d \in EchoClients : d # c => printed'[d] = printed[d]
    BY <2>1, <2>3 DEF Cells
  <2>5. ~ Unserved(c)
    BY <1>3, <2>2, <2>3 DEF EchoPrint, Unserved, Cells, Placed, Control
  <2>6. \A d \in Clients : Unserved(d)' => Unserved(d) /\ d # c
    BY <1>3, <2>3, <2>5 DEF EchoPrint, Unserved, State, Control
  <2>7. \A d \in Clients : d # c => Got(d)' = Got(d)
    BY <1>3, <2>4 DEF Got
  <2>8. Range(order) \subseteq Clients
    BY RangeIs DEF Control
  <2>. QED  BY <1>3, <2>3, <2>4, <2>6, <2>7, <2>8 DEF EchoPrint, Cells
<1>4. CASE EchoClose(c)
  BY <1>4 DEF EchoClose, ClientEnds, Cells, Unserved, State, Got, Control
<1>5. CASE EchoReset(c)
  BY <1>5 DEF EchoReset, ClientEnds, Cells, Unserved, State, Got, Control
<1>6. CASE EchoLeave(c)
  BY SMTT(30), <1>6 DEF EchoLeave, ClientEnds, Cells, Unserved, State, Got, Control
<1>. QED  BY <1>1, <1>2, <1>3, <1>4, <1>5, <1>6 DEF EchoClientStep

(***************************************************************************)
(* Messages and what comes back of them.                                   *)
(***************************************************************************)
\* What the transfer server does reaches no echo client it has not accepted.
LEMMA TransferServerEchoes ==
    ASSUME Control, Placed, Cells, Echoes, Counted, TransferServerNext
    PROVE  Echoes'
<1>. USE SocketsAssumption DEF TransferServerNext, echoVars, echoServer
<1>1. CASE TransferBind \/ TransferListen \/ TransferLoad
  BY <1>1 DEF tcp, TransferBind, TransferListen, Listen, TransferLoad, Echoes, State, Begins
<1>2. CASE TransferAccept
  <2>1. /\ conn' \in Clients /\ conn' \in Range(backlog) /\ Range(backlog') \subseteq Range(backlog)
    BY <1>2, TailIs DEF TransferAccept, Control
  <2>2. Range(order') = Range(order) \cup {conn'}
    BY <1>2, <2>1, AppendIs DEF TransferAccept, Control
  <2>. QED  BY <1>2, <2>1, <2>2 DEF TransferAccept, Echoes, State, Begins
<1>3. CASE FirstSend \/ NextSend \/ ReadClosed
  <2>1. /\ tpc \in {"first", "loop"} /\ UNCHANGED <<conn, order, rpc>>
        /\ \E cells \in Seq(FileCell \cup {Zero}) : Deliver(cells)
    BY <1>3, SendIs
  <2>2. PICK cells \in Seq(FileCell \cup {Zero}) : Deliver(cells)
    BY <2>1
  <2>3. cells \in Seq(Cell)
    BY <2>2, CellIs, WiderSeq
  <2>4. conn \in Clients /\ conn \in Range(order)
    BY <2>1, ServedIs
  <2>5. /\ \A d \in Clients : d # conn => down'[d] = down[d]
        /\ UNCHANGED <<port, backlog, up, srvEnd, cliEnd, cut>>
    BY <2>2, <2>3, <2>4, DeliverIs DEF Cells
  <2>. QED  BY SMTT(60), <2>1, <2>4, <2>5 DEF Echoes, State, Begins
<1>4. CASE CloseConnection
  BY <1>4 DEF CloseConnection, ServerCloses, Echoes, State, Begins
<1>5. CASE TransferDies
  BY <1>5, EmptyIs DEF TransferDies, ServerEnds, Echoes, State, Begins
<1>6. CASE TransferStartFails
  BY <1>6, EmptyIs DEF tcp, TransferStartFails, ServerEnds, Echoes, State, Begins
<1>. QED  BY <1>1, <1>2, <1>3, <1>4, <1>5, <1>6 DEF TransferServerStep

\* What recv leaves in the buffer: what came, and behind it what was there.
LEMMA FilledIs ==
    ASSUME text \in Seq(Cell), up[peer] \in Seq(Cell), NEW n \in 0..Len(up[peer])
    PROVE  /\ Filled(n) \in Seq(Cell) /\ n <= Len(Filled(n))
           /\ \A i \in 1..n : Filled(n)[i] = up[peer][i]
<1>. DEFINE a == SubSeq(up[peer], 1, n)
            b == SubSeq(text, n + 1, Len(text))
<1>1. a \in Seq(Cell) /\ Len(a) = n /\ \A i \in 1..n : a[i] = up[peer][i]
  BY CutIs
<1>2. b \in Seq(Cell)
  <2>1. Len(text) \in Nat /\ n \in Nat /\ \A i \in 1..Len(text) : text[i] \in Cell
    BY RangeIs
  <2>2. \A i \in n + 1..Len(text) : text[i] \in Cell
    BY <2>1
  <2>. QED  BY <2>1, <2>2, SubSeqProperties
<1>. HIDE DEF a, b
<1>3. /\ a \o b \in Seq(Cell) /\ Len(a \o b) = Len(a) + Len(b)
      /\ \A i \in 1..Len(a) : (a \o b)[i] = a[i]
  BY <1>1, <1>2, JoinIs
<1>4. Len(b) \in Nat /\ n \in Nat
  BY <1>2, RangeIs
<1>5. Len(a \o b) = n + Len(b) /\ n <= n + Len(b)
  BY <1>1, <1>3, <1>4
<1>. QED  BY <1>1, <1>3, <1>5 DEF Filled, a, b

LEMMA EchoServerEchoes ==
    ASSUME Control, Placed, Cells, Echoes, EchoServerNext
    PROVE  Echoes'
<1>. USE SocketsAssumption DEF EchoServerNext, transferVars, transferServer
<1>1. CASE EchoBind \/ EchoListen \/ EchoStartFails
  BY <1>1 DEF tcp, EchoBind, EchoListen, Listen, EchoStartFails, Echoes, State, Begins
<1>2. CASE EchoAccept
  <2>1. peer' \in Clients /\ peer' \in Range(backlog) /\ Range(backlog') \subseteq Range(backlog)
    BY <1>2, TailIs DEF EchoAccept, Control
  <2>. QED  BY <1>2, <2>1 DEF EchoAccept, Echoes, State, Begins
<1>3. CASE EchoRecv
  <2>1. PICK n \in 0..EchoBuf :
          /\ IF up[peer] = << >> THEN n = 0 /\ peer \in cliEnd ELSE n \in 1..Len(up[peer])
          /\ got' = n
          /\ text' = Filled(n)
          /\ up' = [up EXCEPT ![peer] = SubSeq(@, n + 1, Len(@))]
    BY <1>3 DEF EchoRecv
  <2>2. peer \in Clients /\ up[peer] \in Seq(Cell) /\ Range(up[peer]) \subseteq OwnCell(peer)
    BY <1>3 DEF EchoRecv, Cells, Placed
  <2>3. Len(up[peer]) \in Nat /\ (up[peer] = << >> <=> Len(up[peer]) = 0) /\ n \in 0..Len(up[peer])
    <3>1. Len(up[peer]) \in Nat /\ (up[peer] = << >> <=> Len(up[peer]) = 0)
      BY <2>2, RangeIs
    <3>. QED  BY <2>1, <3>1
  <2>4. up'[peer] = SubSeq(up[peer], n + 1, Len(up[peer])) /\ \A c \in Clients : c # peer => up'[c] = up[c]
    BY <2>1, <2>2 DEF Cells
  <2>5. up[peer] = << >> => up'[peer] = << >>
    <3>1. SubSeq(up[peer], n + 1, Len(up[peer])) \in Seq(Cell) /\ Len(SubSeq(up[peer], n + 1, Len(up[peer]))) = Len(up[peer]) - n
      BY <2>2, <2>3, CutIs
    <3>2. up[peer] = << >> => Len(up'[peer]) = 0
      BY <2>3, <2>4, <3>1
    <3>. QED  BY <2>4, <3>1, <3>2, RangeIs
  <2>6. \A c \in EchoClients : mpc'[c] \in {"connect", "send"} => up'[c] = << >>
    BY <1>3, <2>2, <2>4, <2>5 DEF EchoRecv, Echoes
  <2>7. \A c \in EchoClients :
          State(c)' = "connect" \/ c \in Range(backlog') \/ (epc' = "recv" /\ c = peer')
             => up'[c] = << >> \/ up'[c] = Message(c)
    BY <1>3, <2>4 DEF EchoRecv, Echoes, Placed, State
  <2>8. /\ got' \in -1..EchoBuf /\ got' >= 0 /\ (epc' = "check" /\ got' = 0 => peer' \in cliEnd')
        /\ text' \in Seq(Cell)
    BY <1>3, <2>1, <2>2, <2>3, FilledIs, SocketsAssumption DEF EchoRecv, Echoes
  <2>9. ASSUME n # 0
        PROVE  /\ peer \in EchoClients /\ n <= MsgLen[peer] /\ n <= Len(text')
               /\ \A i \in 1..n : text'[i] = <<peer, i>>
    <3>1. up[peer] # << >> /\ n \in 1..Len(up[peer])
      BY <2>1, <2>9
    <3>2. peer \in EchoClients
      <4>1. peer \notin EchoClients => Range(up[peer]) = {}
        BY <2>2 DEF OwnCell
      <4>. QED  BY ZenonT(60), <2>2, <3>1, <4>1, RangeIs
    <3>3. up[peer] = Message(peer)
      BY <1>3, <3>1, <3>2 DEF EchoRecv, Echoes
    <3>4. Len(up[peer]) = MsgLen[peer] /\ MsgLen[peer] \in Nat /\ Begins(up[peer], peer)
      BY <3>2, <3>3, MessageIs
    <3>5. n <= Len(text') /\ \A i \in 1..n : text'[i] = up[peer][i]
      BY <2>1, <2>2, <2>3, FilledIs DEF Echoes
    <3>6. n <= MsgLen[peer] /\ \A i \in 1..n : i \in 1..Len(up[peer])
      BY <3>1, <3>4
    <3>. QED  BY <3>2, <3>4, <3>5, <3>6 DEF Begins
  <2>10. epc' = "check" /\ got' > 0 =>
           /\ peer' \in EchoClients /\ got' <= MsgLen[peer'] /\ got' <= Len(text')
           /\ \A i \in 1..got' : text'[i] = <<peer', i>>
    BY <1>3, <2>1, <2>9 DEF EchoRecv
  <2>11. \A c \in EchoClients : mpc'[c] \in {"connect", "send", "recv"} =>
            printed'[c] = << >> /\ (c \notin Range(order') => Begins(down'[c], c))
    BY <1>3 DEF EchoRecv, Echoes
  <2>13. \A c \in EchoClients : Begins(down[c], c)' = Begins(down'[c], c)
    BY DEF Begins
  <2>14. \A c \in Clients : Message(c)' = Message(c)
    BY DEF Message
  <2>. QED  BY <2>6, <2>7, <2>8, <2>10, <2>11, <2>13, <2>14 DEF Echoes
<1>4. CASE EchoExit \/ EchoRecvFails
  BY <1>4, EmptyIs, SocketsAssumption DEF EchoExit, EchoRecvFails, ServerEnds, Echoes, State, Begins
<1>5. CASE EchoSend
  <2>1. peer \in Clients /\ peer \notin Range(order) /\ epc = "check"
    BY <1>5 DEF EchoSend, Placed
  <2>2. Reply \in Seq(Cell) /\ (peer \in EchoClients => Begins(Reply, peer)) /\ down[peer] = << >>
    BY <2>1, ReplyIs DEF Cells, Unserved
  <2>3. down[peer] \o Reply = Reply
    BY <2>1, <2>2, JoinIs DEF Cells
  <2>4. /\ down'[peer] = down[peer] \/ down'[peer] = Reply
        /\ \A c \in Clients : c # peer => down'[c] = down[c]
    BY <1>5, <2>1, <2>3 DEF EchoSend, Cells
  <2>5. \A c \in EchoClients : mpc'[c] \in {"connect", "send", "recv"} =>
            printed'[c] = << >> /\ (c \notin Range(order') => Begins(down'[c], c))
    BY <1>5, <2>2, <2>4 DEF EchoSend, Echoes
  <2>6. \A c \in EchoClients : Begins(down[c], c)' = Begins(down'[c], c)
    BY DEF Begins
  <2>. QED  BY <1>5, <2>5, <2>6 DEF EchoSend, Echoes, State
<1>. QED  BY <1>1, <1>2, <1>3, <1>4, <1>5 DEF EchoServerStep

LEMMA TransferClientEchoes ==
    ASSUME Control, Placed, Cells, Echoes, NEW c \in TransferClients, TransferClientNext(c)
    PROVE  Echoes'
<1>. USE SocketsAssumption DEF TransferClientNext, echoVars, echoServer, transferServer
<1>0. \A d \in Clients : Range(up[d]) \subseteq OwnCell(d) /\ up[d] \in Seq(Cell)
  BY DEF Cells
<1>1. CASE TransferConnect(c)
  <2>1. Range(backlog') = Range(backlog) \cup {c}
    BY <1>1, AppendIs DEF TransferConnect, ConnectTo, Control
  <2>. QED  BY <1>1, <2>1 DEF TransferConnect, ConnectTo, Echoes, Begins, State, Control
<1>2. CASE TransferRecv(c)
  <2>1. PICK n \in 0..RecvBuf : ClientReads(c, n)
    BY <1>2 DEF TransferRecv
  <2>2. \A d \in Clients : d # c => down'[d] = down[d]
    BY <2>1, ReadIs DEF Cells
  <2>. QED  BY <1>2, <2>1, <2>2 DEF TransferRecv, ClientReads, Echoes, Begins, State
<1>3. CASE TransferReset(c)
  BY <1>3 DEF TransferReset, ClientEnds, Echoes, Begins, State
<1>4. CASE TransferClose(c)
  BY <1>4 DEF TransferClose, ClientEnds, Echoes, Begins, State
<1>5. CASE TransferLeave(c)
  BY <1>5 DEF TransferLeave, ClientEnds, Echoes, Begins, State
<1>. QED  BY <1>1, <1>2, <1>3, <1>4, <1>5 DEF TransferClientStep

LEMMA EchoClientEchoes ==
    ASSUME Control, Placed, Cells, Echoes, NEW c \in EchoClients, EchoClientNext(c)
    PROVE  Echoes'
<1>. USE SocketsAssumption DEF EchoClientNext, transferVars, transferServer, echoServer
<1>1. CASE EchoConnect(c)
  <2>1. Range(backlog') = Range(backlog) \cup {c}
    BY <1>1, AppendIs DEF EchoConnect, ConnectTo, Control
  <2>. QED  BY <1>1, <2>1 DEF EchoConnect, ConnectTo, Echoes, Begins, State, Control
<1>2. CASE EchoSendMessage(c)
  <2>1. /\ up'[c] = Message(c) /\ mpc'[c] = "recv"
        /\ \A d \in Clients : d # c => up'[d] = up[d]
        /\ \A d \in EchoClients : d # c => mpc'[d] = mpc[d]
    BY <1>2 DEF EchoSendMessage, Cells, Control
  <2>2. mpc[c] = "send"
    BY <1>2 DEF EchoSendMessage
  <2>3. \A d \in EchoClients : mpc'[d] \in {"connect", "send"} => up'[d] = << >>
    BY <2>1 DEF Echoes
  <2>4. \A d \in EchoClients :
          State(d)' = "connect" \/ d \in Range(backlog') \/ (epc' = "recv" /\ d = peer')
             => up'[d] = << >> \/ up'[d] = Message(d)
    BY <1>2, <2>1 DEF EchoSendMessage, Echoes, State
  <2>5. \A d \in EchoClients : mpc'[d] \in {"connect", "send", "recv"} =>
            printed'[d] = << >> /\ (d \notin Range(order') => Begins(down'[d], d))
    BY <1>2, <2>1, <2>2 DEF EchoSendMessage, Echoes
  <2>6. /\ \A d \in EchoClients : Begins(down[d], d)' = Begins(down'[d], d)
        /\ \A d \in EchoClients : Message(d)' = Message(d)
    BY DEF Begins, Message
  <2>. QED  BY <1>2, <2>3, <2>4, <2>5, <2>6 DEF EchoSendMessage, Echoes
<1>3. CASE EchoPrint(c)
  <2>1. PICK n \in 0..PrintBuf : /\ ClientReads(c, n)
                                /\ printed' = [printed EXCEPT ![c] = SubSeq(down[c], 1, n)]
    BY <1>3 DEF EchoPrint
  <2>2. \A d \in Clients : d # c => down'[d] = down[d]
    BY <2>1, ReadIs DEF Cells
  <2>3. \A d \in EchoClients : d # c => printed'[d] = printed[d]
    BY <2>1 DEF Cells
  <2>4. mpc'[c] = "close" /\ \A d \in EchoClients : d # c => mpc'[d] = mpc[d]
    BY <1>3 DEF EchoPrint, Control
  <2>. QED  BY <1>3, <2>1, <2>2, <2>3, <2>4 DEF EchoPrint, ClientReads, Echoes, Begins, State, Message
<1>4. CASE EchoClose(c)
  BY <1>4 DEF EchoClose, ClientEnds, Echoes, Begins, State, Control
<1>5. CASE EchoReset(c)
  BY <1>5 DEF EchoReset, ClientEnds, Echoes, Begins, State, Control
<1>6. CASE EchoLeave(c)
  BY <1>6 DEF EchoLeave, ClientEnds, Echoes, Begins, State, Control
<1>. QED  BY <1>1, <1>2, <1>3, <1>4, <1>5, <1>6 DEF EchoClientStep

LEMMA BeginsIsPrefix ==
    ASSUME NEW c \in EchoClients, NEW s \in Seq(Cell), Begins(s, c)
    PROVE  IsPrefix(s, Message(c))
<1>1. Message(c) \in Seq(Cell) /\ Len(Message(c)) = MsgLen[c] /\ MsgLen[c] \in Nat
  BY MessageIs
<1>2. Len(s) \in 0..Len(Message(c)) /\ \A i \in 1..Len(s) : s[i] = <<c, i>>
  BY <1>1 DEF Begins
<1>3. /\ SubSeq(Message(c), 1, Len(s)) \in Seq(Cell) /\ Len(SubSeq(Message(c), 1, Len(s))) = Len(s)
      /\ \A i \in 1..Len(s) : SubSeq(Message(c), 1, Len(s))[i] = Message(c)[i]
  BY <1>1, <1>2, CutIs
<1>4. \A i \in 1..Len(s) : Message(c)[i] = <<c, i>>
  BY <1>1, <1>2 DEF Message
<1>5. SubSeq(Message(c), 1, Len(s)) = s
  BY <1>2, <1>3, <1>4, SeqEqual
<1>6. SubSeq(s, 1, Len(s)) = s
  BY SubSeqFull
<1>. QED  BY <1>1, <1>2, <1>5, <1>6 DEF IsPrefix

\* A client that prints: what it received is of the file, or of its message.
LEMMA PrintIsOwn ==
    ASSUME Control, Cells, Echoes, EchoIsOwn, NEW c \in EchoClients, EchoPrint(c), order' = order
    PROVE  EchoIsOwn'
<1>1. PICK n \in 0..PrintBuf : /\ ClientReads(c, n)
                              /\ printed' = [printed EXCEPT ![c] = SubSeq(down[c], 1, n)]
  BY DEF EchoPrint
<1>2. c \in Clients /\ mpc[c] = "recv" /\ down[c] \in Seq(Cell)
  BY SocketsAssumption DEF EchoPrint, Cells
<1>3. n \in 0..Len(down[c])
  BY <1>1, <1>2, ReadIs DEF Cells
<1>. DEFINE s == SubSeq(down[c], 1, n)
<1>4. /\ s \in Seq(Cell) /\ Len(s) = n /\ Range(s) \subseteq Range(down[c])
      /\ \A i \in 1..n : s[i] = down[c][i]
  BY <1>2, <1>3, CutIs
<1>5. printed'[c] = s /\ \A d \in EchoClients : d # c => printed'[d] = printed[d]
  BY <1>1 DEF Cells
<1>. HIDE DEF s
<1>6. CASE c \in Range(order)
  <2>1. Range(s) \subseteq FileCell \cup {Zero}
    BY <1>4, <1>6 DEF Cells
  <2>. QED  BY <1>5, <1>6, <2>1 DEF EchoIsOwn, Message
<1>7. CASE c \notin Range(order)
  <2>1. Begins(down[c], c)
    BY <1>2, <1>7 DEF Echoes
  <2>2. MsgLen[c] \in Nat /\ Len(down[c]) \in Nat
    BY <1>2, SocketsAssumption
  <2>3. Begins(s, c)
    BY <1>3, <1>4, <2>1, <2>2 DEF Begins
  <2>4. IsPrefix(s, Message(c))
    BY <1>4, <2>3, BeginsIsPrefix
  <2>. QED  BY <1>5, <2>4 DEF EchoIsOwn, Message
<1>. QED  BY <1>6, <1>7

LEMMA EchoesStayOwn ==
    ASSUME Control, Cells, Echoes, EchoIsOwn, [Next]_vars
    PROVE  EchoIsOwn'
<1>1. ASSUME NEW c \in EchoClients, EchoClientNext(c)
      PROVE  EchoIsOwn'
  <2>0. order' = order
    BY <1>1 DEF EchoClientNext, transferVars, transferServer
  <2>1. CASE EchoPrint(c)
    BY <2>0, <2>1, PrintIsOwn
  <2>2. ASSUME ~ EchoPrint(c)
        PROVE  printed' = printed
    BY <1>1, <2>2 DEF EchoClientNext, EchoClientStep, EchoConnect, EchoSendMessage, EchoClose,
       EchoReset, EchoLeave
  <2>. QED  BY <2>0, <2>1, <2>2 DEF EchoIsOwn, Message
<1>2. ASSUME NEW c \in TransferClients, TransferClientNext(c)
      PROVE  EchoIsOwn'
  <2>1. order' = order
    BY <1>2 DEF TransferClientNext, TransferClientStep, TransferConnect, TransferRecv, TransferReset,
       TransferClose, TransferLeave, transferServer
  <2>. QED  BY <1>2, <2>1 DEF TransferClientNext, echoVars, EchoIsOwn, Message
<1>3. CASE TransferServerNext
  <2>1. Range(order) \subseteq Range(order')
    <3>1. CASE TransferAccept
      <4>1. conn' \in Clients
        BY <3>1, TailIs DEF TransferAccept, Control
      <4>. QED  BY <3>1, <4>1, AppendIs DEF TransferAccept, Control
    <3>2. CASE ~ TransferAccept
      BY <1>3, <3>2 DEF TransferServerNext, TransferServerStep, tcp, TransferBind, TransferListen, TransferLoad,
         TransferStartFails, FirstSend, NextSend, ReadClosed, CloseConnection, TransferDies
    <3>. QED  BY <3>1, <3>2
  <2>. QED  BY <1>3, <2>1 DEF TransferServerNext, echoVars, EchoIsOwn, Message
<1>4. CASE EchoServerNext \/ UNCHANGED vars
  <2>1. order' = order
    BY <1>4 DEF EchoServerNext, vars, transferVars, transferServer
  <2>2. printed' = printed
    BY <1>4 DEF EchoServerNext, EchoServerStep, tcp, EchoBind, EchoListen, EchoStartFails, EchoAccept, EchoRecv,
       EchoRecvFails, EchoExit, EchoSend, vars, echoVars
  <2>. QED  BY <2>1, <2>2 DEF EchoIsOwn, Message
<1>. QED  BY <1>1, <1>2, <1>3, <1>4, NextIs

(***************************************************************************)
(* The counters and the file of the transfer server.                       *)
(***************************************************************************)
\* A send counts at most what is left.
LEMMA CountIs ==
    ASSUME Control, Placed, Counted, tpc \in {"first", "loop"}, NEW n \in -1..Chunk, SendReturns(n)
    PROVE  /\ n <= left /\ sent + n <= FileLen /\ left - n = FileLen - (sent + n)
           /\ left \in Nat /\ sent \in Int /\ n \in Int /\ Len(order) \in Nat
  <1>1. /\ Part \in Nat /\ Part <= left /\ left \in Nat /\ left = FileLen - sent
        /\ FileLen \in Nat /\ sent \in Int
    BY PartIs DEF Counted
  <1>2. n \in Int /\ n <= Part
    BY <1>1, SocketsAssumption DEF SendReturns
  <1>. QED  BY <1>1, <1>2 DEF Control

LEMMA CountedStays ==
    ASSUME Control, Placed, Counted, Control', [Next]_vars
    PROVE  Counted'
<1>0. order \in Seq(Clients) /\ Len(order) \in Nat /\ (order = << >> <=> Len(order) = 0)
  BY RangeIs DEF Control
<1>1. CASE TransferLoad
  <2>1. Least(Chunk, FileLen) \in 0..FileLen /\ FileLen \in Nat
    BY SocketsAssumption DEF Least
  <2>2. FileCells(0, Least(Chunk, FileLen)) \in Seq({File} \X (1..Least(Chunk, FileLen)))
    <3>1. 0 \in Nat /\ Least(Chunk, FileLen) \in Nat /\ 0 <= Least(Chunk, FileLen)
      BY <2>1
    <3>2. FileCells(0, Least(Chunk, FileLen)) \in Seq({File} \X (0 + 1..Least(Chunk, FileLen)))
      BY <3>1, FileCellsAre
    <3>. QED  BY <3>2
  <2>. QED  BY <1>0, <1>1, <2>1, <2>2 DEF TransferLoad, Counted, FileCells
<1>2. CASE TransferAccept
  <2>1. Len(order') = Len(order) + 1 /\ order' # << >>
    <3>1. conn' \in Clients
      BY <1>2, TailIs DEF TransferAccept, Control
    <3>. QED  BY <1>0, <1>2, <3>1, AppendIs DEF TransferAccept
  <2>. QED  BY <1>0, <1>2, <2>1 DEF TransferAccept, Counted, FileCells
<1>3. CASE FirstSend
  <2>1. PICK n \in -1..Chunk : SendReturns(n) /\ Count(n)
    BY <1>3 DEF FirstSend
  <2>2. /\ n <= left /\ sent + n <= FileLen /\ left - n = FileLen - (sent + n) /\ sent + n \in Int
        /\ n >= -1 /\ n \in Int
    BY <1>3, <2>1, CountIs DEF FirstSend
  <2>3. sent' = sent + n /\ left' = left - n /\ sent >= 1 - Len(order)
    BY <1>3, <2>1 DEF Count, FirstSend, Counted
  <2>4. sent' >= -Len(order)
    BY <1>0, <2>2, <2>3 DEF Counted
  <2>. QED  BY <1>0, <1>3, <2>2, <2>3, <2>4 DEF FirstSend, More, Counted, FileCells
<1>4. CASE NextSend
  <2>1. PICK n \in -1..Chunk :
          /\ SendReturns(n)
          /\ IF n = -1 THEN UNCHANGED <<sent, left>> ELSE Count(n)
    BY <1>4 DEF NextSend
  <2>2. /\ n <= left /\ sent + n <= FileLen /\ left - n = FileLen - (sent + n) /\ sent + n \in Int
        /\ n >= -1 /\ n \in Int /\ sent \in Int
    BY <1>4, <2>1, CountIs DEF NextSend
  <2>3. /\ buffer' \in Seq({File} \X (pos + 1..pos')) /\ pos' \in Nat /\ pos <= pos' /\ pos' <= FileLen
        /\ tpc' \in {"loop", "close"}
    BY <1>4, NextSends
  <2>4. buffer' \in Seq({File} \X (1..pos'))
    <3>1. {File} \X (pos + 1..pos') \subseteq {File} \X (1..pos')
      BY SMTT(30), <2>3, SocketsAssumption DEF Counted
    <3>. QED  BY <2>3, <3>1, WiderSeq
  <2>5. sent' \in Int /\ sent' >= -Len(order) /\ sent' <= FileLen /\ left' = FileLen - sent'
    BY <1>0, <1>4, <2>1, <2>2 DEF Count, NextSend, Counted
  <2>6. pos' \in 0..FileLen
    BY <2>3, SocketsAssumption
  <2>. QED  BY <1>0, <1>4, <2>3, <2>4, <2>5, <2>6 DEF NextSend, Counted, FileCells
<1>5. CASE ReadClosed
  <2>1. PICK n \in -1..Chunk :
          /\ SendReturns(n)
          /\ IF n = -1 THEN UNCHANGED <<sent, left>> ELSE Count(n)
    BY <1>5 DEF ReadClosed
  <2>2. /\ n <= left /\ sent + n <= FileLen /\ left - n = FileLen - (sent + n) /\ sent + n \in Int
        /\ n >= -1 /\ n \in Int /\ sent \in Int
    BY <1>5, <2>1, CountIs DEF ReadClosed
  <2>3. sent' \in Int /\ sent' >= -Len(order) /\ sent' <= FileLen /\ left' = FileLen - sent'
    BY <1>0, <1>5, <2>1, <2>2 DEF Count, ReadClosed, Counted
  <2>4. tpc' \in {"loop", "close"} /\ buffer' \in Seq({File} \X (1..pos))
    BY <1>5, ClosedSends, EmptyIs DEF ReadClosed
  <2>. QED  BY <1>0, <1>5, <2>3, <2>4 DEF ReadClosed, Counted, FileCells
<1>6. CASE CloseConnection
  <2>1. Len(order) > 0
    BY <1>0, <1>6, ServedIs DEF CloseConnection
  <2>. QED  BY <1>0, <1>6, <2>1 DEF CloseConnection, Counted, FileCells
<1>7. CASE TransferDies
  <2>1. tpc \notin {"accept", "bind", "listen", "load"}
    BY <1>7 DEF TransferDies
  <2>. QED  BY <1>0, <1>7, <2>1 DEF TransferDies, Counted, FileCells
<1>10. CASE TransferBind \/ TransferListen \/ TransferStartFails
  BY <1>0, <1>10 DEF tcp, TransferBind, TransferListen, TransferStartFails, Counted, FileCells
<1>8. CASE UNCHANGED transferServer
  BY <1>8 DEF transferServer, Counted, FileCells
<1>9. ASSUME ~ TransferServerStep
      PROVE  UNCHANGED transferServer
  <2>1. ASSUME NEW c \in TransferClients, TransferClientNext(c)
        PROVE  UNCHANGED transferServer
    BY <2>1 DEF TransferClientNext, TransferClientStep, TransferConnect, TransferRecv, TransferReset,
       TransferClose, TransferLeave
  <2>2. ASSUME NEW c \in EchoClients, EchoClientNext(c)
        PROVE  UNCHANGED transferServer
    BY <2>2 DEF EchoClientNext, transferVars
  <2>. QED  BY <1>9, <2>1, <2>2, NextIs DEF TransferServerNext, EchoServerNext, transferVars, vars
<1>. QED  BY <1>1, <1>2, <1>3, <1>4, <1>5, <1>6, <1>7, <1>8, <1>9, <1>10 DEF TransferServerStep

(***************************************************************************)
(* The first client of the transfer server.                                *)
(***************************************************************************)
HasThen(c, k) == Makes(saved'[c], down'[c], k)

LEMMA FirstGetsThen ==
    ASSUME \A c \in TransferClients :
              /\ rpc'[c] = "close" => down'[c] = << >>
              /\ rpc'[c] \in {"close", "done"} => c \in srvEnd',
           order' # << >> /\ Head(order') \in TransferClients /\ Head(order') \notin cliEnd' =>
              /\ Head(order') \in srvEnd' \/ tpc' = "close" => HasThen(Head(order'), FileLen)
              /\ Head(order') \notin srvEnd' /\ tpc' = "loop" =>
                    sent' = pos' /\ sent' < FileLen /\ HasThen(Head(order'), sent')
    PROVE  FirstGets'
  BY DEF FirstGets, Has, HasThen, Makes, Numbered

\* Numbered sequences put together and cut.
LEMMA NumberedJoin ==
    ASSUME NEW s \in Seq(Cell), NEW t \in Seq(Cell), NEW k \in Nat,
           Numbered(s, k), Numbered(t, k + Len(s))
    PROVE  Numbered(s \o t, k)
<1>1. Len(s) \in Nat /\ Len(t) \in Nat
  BY RangeIs
<1>2. /\ Len(s \o t) = Len(s) + Len(t)
      /\ \A i \in 1..Len(s) : (s \o t)[i] = s[i]
      /\ \A i \in 1..Len(t) : (s \o t)[Len(s) + i] = t[i]
  BY JoinIs
<1>3. ASSUME NEW i \in 1..Len(s \o t)
      PROVE  (s \o t)[i] = <<File, k + i>>
  <2>1. CASE i <= Len(s)
    <3>1. i \in 1..Len(s)
      BY <1>1, <1>2, <2>1
    <3>. QED  BY <1>2, <3>1 DEF Numbered
  <2>2. CASE ~ (i <= Len(s))
    <3>. DEFINE j == i - Len(s)
    <3>1. j \in 1..Len(t) /\ Len(s) + j = i /\ k + Len(s) + j = k + i
      BY <1>1, <1>2, <2>2
    <3>. HIDE DEF j
    <3>2. (s \o t)[Len(s) + j] = t[j] /\ t[j] = <<File, k + Len(s) + j>>
      BY <1>2, <3>1 DEF Numbered
    <3>. QED  BY <3>1, <3>2
  <2>. QED  BY <2>1, <2>2
<1>. QED  BY <1>3 DEF Numbered

LEMMA NumberedCut ==
    ASSUME NEW s \in Seq(Cell), NEW k \in Nat, Numbered(s, k), NEW n \in 0..Len(s)
    PROVE  Numbered(SubSeq(s, 1, n), k) /\ Numbered(SubSeq(s, n + 1, Len(s)), k + n)
<1>. DEFINE a == SubSeq(s, 1, n)
            b == SubSeq(s, n + 1, Len(s))
<1>1. /\ Len(a) = n /\ \A i \in 1..n : a[i] = s[i]
      /\ Len(b) = Len(s) - n /\ \A i \in 1..Len(s) - n : b[i] = s[n + i]
  BY CutIs
<1>2. Len(s) \in Nat /\ n \in Nat /\ n <= Len(s)
  BY RangeIs
<1>. HIDE DEF a, b
<1>3. \A i \in 1..n : i \in 1..Len(s)
  BY <1>2
<1>4. Numbered(a, k)
  BY <1>1, <1>3 DEF Numbered
<1>5. ASSUME NEW i \in 1..Len(s) - n
      PROVE  b[i] = <<File, (k + n) + i>>
  <2>1. n + i \in 1..Len(s) /\ k + (n + i) = (k + n) + i
    BY <1>2
  <2>2. s[n + i] = <<File, k + (n + i)>>
    BY <2>1 DEF Numbered
  <2>. QED  BY <1>1, <2>1, <2>2
<1>6. Numbered(b, k + n)
  BY <1>1, <1>5 DEF Numbered
<1>. QED  BY <1>4, <1>6 DEF a, b

LEMMA Sums ==
    \A x, y, z, k \in Int : /\ x + y = k => x + (y + z) = k + z /\ (x + z) + (y - z) = k
                          /\ 0 + x = x /\ x - 0 = x
  OBVIOUS

\* The next cells of the file are sent to a client that has those before,
LEMMA MakesMore ==
    ASSUME NEW s \in Seq(Cell), NEW d \in Seq(Cell), NEW k \in Nat, Makes(s, d, k),
           NEW t \in Seq(Cell), Numbered(t, k)
    PROVE  Makes(s, d \o t, k + Len(t))
<1>1. /\ Len(s) \in Nat /\ Len(d) \in Nat /\ Len(t) \in Nat
      /\ Len(s) + Len(d) = k /\ Numbered(s, 0) /\ Numbered(d, Len(s))
  BY RangeIs DEF Makes
<1>2. Len(d \o t) = Len(d) + Len(t)
  BY JoinIs
<1>3. Numbered(d \o t, Len(s))
  BY <1>1, NumberedJoin
<1>4. Len(s) + (Len(d) + Len(t)) = k + Len(t)
  BY <1>1, Sums
<1>. QED  BY <1>1, <1>2, <1>3, <1>4 DEF Makes

\* and the client moves what has arrived to its file.
LEMMA MakesMoved ==
    ASSUME NEW s \in Seq(Cell), NEW d \in Seq(Cell), NEW k \in Nat, Makes(s, d, k),
           NEW n \in 0..Len(d)
    PROVE  Makes(s \o SubSeq(d, 1, n), SubSeq(d, n + 1, Len(d)), k)
<1>. DEFINE a == SubSeq(d, 1, n)
            b == SubSeq(d, n + 1, Len(d))
<1>1. a \in Seq(Cell) /\ Len(a) = n /\ Len(b) = Len(d) - n
  BY CutIs
<1>2. /\ Len(s) \in Nat /\ Len(d) \in Nat /\ Len(s) + Len(d) = k
      /\ Numbered(s, 0) /\ Numbered(d, Len(s))
  BY RangeIs DEF Makes
<1>3. Numbered(a, Len(s)) /\ Numbered(b, Len(s) + n)
  BY <1>2, NumberedCut
<1>. HIDE DEF a, b
<1>4. Len(s \o a) = Len(s) + n
  BY <1>1, JoinIs
<1>5. n \in Int /\ 0 + Len(s) = Len(s) /\ 0 \in Nat
  BY <1>2, Sums
<1>6. Numbered(s \o a, 0)
  BY <1>1, <1>2, <1>3, <1>5, NumberedJoin
<1>7. (Len(s) + n) + (Len(d) - n) = k
  BY <1>2, <1>5, Sums
<1>8. Makes(s \o a, b, k)
  BY <1>1, <1>3, <1>4, <1>6, <1>7 DEF Makes
<1>. QED  BY <1>8 DEF a, b

\* Who is first, and that nothing of it is in the backlog.
LEMMA FirstIs ==
    ASSUME Control, Placed, order # << >>
    PROVE  /\ Head(order) \in Clients /\ Head(order) \in Range(order) /\ Head(order) # peer
           /\ Head(order) \notin Range(backlog) /\ State(Head(order)) # "connect"
<1>1. Head(order) \in Clients /\ Head(order) \in Range(order)
  BY TailIs DEF Control
<1>. QED  BY <1>1 DEF Placed

LEMMA FirstCells ==
    ASSUME NEW n \in Nat
    PROVE  FileCells(0, n) \in Seq({File} \X (1..n)) /\ Len(FileCells(0, n)) = n /\ Numbered(FileCells(0, n), 0)
<1>1. /\ FileCells(0, n) \in Seq({File} \X (0 + 1..n)) /\ Len(FileCells(0, n)) = n - 0
      /\ \A i \in 1..n - 0 : FileCells(0, n)[i] = <<File, 0 + i>>
  <2>1. 0 \in Nat /\ 0 <= n
    OBVIOUS
  <2>. HIDE DEF FileCells
  <2>. QED  BY <2>1, FileCellsAre, Zenon
<1>2. n - 0 = n /\ 0 + 1 = 1
  BY Sums
<1>. QED  BY <1>1, <1>2 DEF Numbered

LEMMA FirstSendGets ==
    ASSUME Control, Placed, Cells, Counted, FirstGets, FirstSend, UNCHANGED echoVars
    PROVE  FirstGets'
<1>. DEFINE f == Head(order)
<1>. USE SocketsAssumption DEF FirstSend
<1>1. conn \in Clients /\ conn \notin srvEnd /\ order # << >> /\ Len(order) \in Nat \ {0}
  BY ServedIs
<1>2. /\ Deliver(Padded(buffer, Part)) /\ Padded(buffer, Part) \in Seq(Cell) /\ Len(Padded(buffer, Part)) = Part
      /\ tpc' \in {"loop", "close"}
  BY FirstSends, CellIs, WiderSeq
<1>3. /\ \A d \in Clients : d # conn => down'[d] = down[d]
      /\ conn \notin cliEnd => down'[conn] = down[conn] \o Padded(buffer, Part)
      /\ UNCHANGED <<srvEnd, cliEnd>>
  BY <1>1, <1>2, DeliverIs DEF Cells
<1>4. \A c \in TransferClients :
        /\ rpc'[c] = "close" => down'[c] = << >>
        /\ rpc'[c] \in {"close", "done"} => c \in srvEnd'
  BY <1>1, <1>3 DEF FirstGets
<1>5. ASSUME Len(order) = 1, f \in TransferClients, f \notin cliEnd
      PROVE  /\ f \notin srvEnd /\ sent' = pos /\ HasThen(f, pos)
             /\ tpc' = "close" => pos = FileLen
             /\ tpc' = "loop" => pos < FileLen
    <2>1. f = conn /\ f \notin srvEnd
      BY <1>5, ServedIs
    <2>2. sent = 0 /\ pos = Least(Chunk, FileLen) /\ buffer = FileCells(0, pos) /\ left = FileLen
      BY <1>5 DEF Counted
    <2>3. Part = pos /\ pos \in Nat /\ pos <= FileLen
      BY <2>2 DEF Part, Least
    <2>4. sent' = pos
      BY <1>5, <2>1, <2>2, <2>3 DEF SendReturns, Count
    <2>5. buffer \in Seq({File} \X (1..pos)) /\ Len(buffer) = pos /\ Numbered(buffer, 0)
      BY <2>2, <2>3, FirstCells
    <2>6. Numbered(Padded(buffer, Part), 0)
      <3>1. Len(Padded(buffer, pos)) = pos /\ \A i \in 1..pos : i <= Len(buffer) => Padded(buffer, pos)[i] = buffer[i]
        <4>1. pos \in Nat
          BY <2>3
        <4>2. PICK S : buffer \in Seq(S)
          BY <2>5
        <4>. QED  BY <4>1, <4>2, PaddedIs
      <3>2. \A i \in 1..pos : i <= pos
        BY <2>3
      <3>. QED  BY <2>3, <2>5, <3>1, <3>2 DEF Numbered
    <2>7. down[f] = << >> /\ saved[f] = << >> /\ down[f] \in Seq(Cell) /\ saved[f] \in Seq(Cell)
      BY <1>1, <1>5, <2>1 DEF Cells, Unserved, Got
    <2>8. Has(f, 0)
      BY <2>7, EmptyIs DEF Has, Makes, Numbered
    <2>9. HasThen(f, 0 + Len(Padded(buffer, Part)))
      <3>1. down'[f] = down[f] \o Padded(buffer, Part) /\ saved'[f] = saved[f]
        BY <1>3, <1>5, <2>1
      <3>2. Makes(<< >>, << >>, 0)
        BY <2>7, <2>8 DEF Has
      <3>3. Makes(saved[f], down[f] \o Padded(buffer, Part), 0 + Len(Padded(buffer, Part)))
        BY <1>2, <2>6, <2>7, <3>2, MakesMore
      <3>. QED  BY <3>1, <3>3 DEF HasThen
    <2>10. 0 + Len(Padded(buffer, Part)) = pos
      BY <1>2, <2>3
    <2>11. (tpc' = "close" => pos = FileLen) /\ (tpc' = "loop" => pos < FileLen)
      BY <2>3, <2>4 DEF More
    <2>. QED  BY <2>1, <2>4, <2>9, <2>10, <2>11
<1>6. ASSUME Len(order) # 1, f \in TransferClients, f \notin cliEnd
      PROVE  f \in srvEnd /\ HasThen(f, FileLen)
  <2>. Len(order) > 1
    BY SMTT(30), <1>1, <1>6
  <2>1. f # conn /\ f \in srvEnd /\ f \in Clients
    BY ServedIs
  <2>2. Has(f, FileLen)
    BY <1>1, <1>6, <2>1 DEF FirstGets
  <2>3. down'[f] = down[f] /\ saved'[f] = saved[f]
    BY <1>3, <2>1
  <2>. QED  BY <2>1, <2>2, <2>3 DEF Has, HasThen
<1>7. pos' = pos /\ order' = order
  OBVIOUS
<1>. QED  BY <1>2, <1>3, <1>4, <1>5, <1>6, <1>7, FirstGetsThen

LEMMA NextSendGets ==
    ASSUME Control, Placed, Cells, Counted, FirstGets, NextSend, UNCHANGED echoVars
    PROVE  FirstGets'
<1>. DEFINE f == Head(order)
            cells == Padded(buffer', Part)
<1>1. conn \in Clients /\ conn \notin srvEnd /\ order # << >> /\ tpc = "loop" /\ file = "open"
  BY ServedIs DEF NextSend
<1>2. /\ Deliver(cells) /\ cells \in Seq(Cell) /\ Len(cells) = Part
      /\ pos' = Least(pos + Part, FileLen) /\ Len(buffer') = pos' - pos /\ tpc' \in {"loop", "close"}
      /\ \A i \in 1..pos' - pos : buffer'[i] = <<File, pos + i>>
      /\ buffer' \in Seq({File} \X (pos + 1..pos'))
  BY NextSends, CellIs, WiderSeq
<1>3. /\ \A d \in Clients : d # conn => down'[d] = down[d]
      /\ conn \notin cliEnd => down'[conn] = down[conn] \o cells
      /\ UNCHANGED <<srvEnd, cliEnd>>
  BY <1>1, <1>2, DeliverIs DEF Cells
<1>4. UNCHANGED <<conn, order, rpc, saved>>
  BY DEF NextSend
<1>5. f = conn /\ f \notin srvEnd
  <2>1. Len(order) = 1
    BY <1>1 DEF Counted
  <2>. QED  BY <1>1, <2>1, ServedIs
<1>6. \A c \in TransferClients :
        /\ rpc'[c] = "close" => down'[c] = << >>
        /\ rpc'[c] \in {"close", "done"} => c \in srvEnd'
  BY <1>1, <1>3, <1>4, SocketsAssumption DEF FirstGets
<1>7. ASSUME f \in TransferClients, f \notin cliEnd
      PROVE  /\ sent' = pos' /\ HasThen(f, pos')
             /\ tpc' = "close" => pos' = FileLen
             /\ tpc' = "loop" => pos' < FileLen
  <2>1. sent = pos /\ Has(f, pos) /\ sent < FileLen
    BY <1>1, <1>5, <1>7 DEF FirstGets
  <2>2. /\ Part \in Nat /\ left = FileLen - sent /\ FileLen \in Nat /\ pos \in Nat /\ pos <= FileLen
        /\ Part <= left
    BY <1>1, PartIs
  <2>3. pos' = pos + Part /\ pos' \in Nat /\ pos' <= FileLen /\ pos' - pos = Part
    BY <1>2, <2>1, <2>2 DEF Least
  <2>4. sent' = pos' /\ tpc' = More
    BY <1>5, <1>7, <2>1, <2>2, <2>3 DEF NextSend, SendReturns, Count
  <2>5. Numbered(cells, pos)
    <3>1. PICK S : buffer' \in Seq(S)
      BY <1>2
    <3>2. \A i \in 1..Part : i <= Len(buffer') => cells[i] = buffer'[i]
      BY <2>2, <3>1, PaddedIs
    <3>3. \A i \in 1..Part : i <= Len(buffer')
      BY <1>2, <2>2, <2>3
    <3>. QED  BY <1>2, <2>3, <3>2, <3>3 DEF Numbered
  <2>6. saved[f] \in Seq(Cell) /\ down[f] \in Seq(Cell)
    BY <1>1, <1>5, <1>7 DEF Cells
  <2>. HIDE DEF cells, f
  <2>7. Makes(saved[f], down[f] \o cells, pos + Len(cells))
    BY <1>2, <2>1, <2>2, <2>5, <2>6, MakesMore DEF Has
  <2>8. HasThen(f, pos')
    BY <1>2, <1>3, <1>4, <1>5, <1>7, <2>3, <2>7 DEF HasThen
  <2>. QED  BY <1>2, <2>2, <2>3, <2>4, <2>8 DEF More
<1>. HIDE DEF f
<1>8. /\ order' # << >> /\ f \in TransferClients /\ f \notin cliEnd' =>
           /\ f \in srvEnd' \/ tpc' = "close" => HasThen(f, FileLen)
           /\ f \notin srvEnd' /\ tpc' = "loop" =>
                  sent' = pos' /\ sent' < FileLen /\ HasThen(f, sent')
  BY <1>3, <1>5, <1>7
<1>. QED  BY <1>4, <1>6, <1>8, FirstGetsThen DEF f

\* The first client is served no more, or not yet.
LEMMA FirstGetsKept ==
    ASSUME Control, Placed, Cells, FirstGets, order' = order,
           \A c \in TransferClients : rpc'[c] = rpc[c] /\ saved'[c] = saved[c],
           cliEnd' = cliEnd, srvEnd \subseteq srvEnd',
           \A c \in srvEnd \cup Range(order) : down'[c] = down[c],
           \A c \in srvEnd' : c \in Range(order) => c \in srvEnd \/ tpc = "close",
           tpc' # tpc => tpc' \notin {"loop", "close"} \/ Head(order) \in srvEnd,
           tpc' = tpc => UNCHANGED <<sent, pos>>
    PROVE  FirstGets'
<1>. DEFINE f == Head(order)
<1>1. \A c \in TransferClients :
        /\ rpc'[c] = "close" => down'[c] = << >>
        /\ rpc'[c] \in {"close", "done"} => c \in srvEnd'
  BY SocketsAssumption DEF FirstGets
<1>2. ASSUME order # << >>, f \in TransferClients, f \notin cliEnd
      PROVE  /\ f \in srvEnd' \/ tpc' = "close" => HasThen(f, FileLen)
             /\ f \notin srvEnd' /\ tpc' = "loop" =>
                  sent' = pos' /\ sent' < FileLen /\ HasThen(f, sent')
  <2>1. f \in Range(order)
    BY <1>2, FirstIs
  <2>2. down'[f] = down[f] /\ saved'[f] = saved[f]
    BY <1>2, <2>1
  <2>3. \A k : HasThen(f, k) <=> Has(f, k)
    BY <2>2 DEF Has, HasThen
  <2>. HIDE DEF f
  <2>4. /\ f \in srvEnd \/ tpc = "close" => Has(f, FileLen)
        /\ f \notin srvEnd /\ tpc = "loop" => sent = pos /\ sent < FileLen /\ Has(f, sent)
    BY <1>2 DEF FirstGets, f
  <2>5. tpc' # tpc => tpc' \notin {"loop", "close"} \/ f \in srvEnd
    BY DEF f
  <2>. QED  BY <2>1, <2>3, <2>4, <2>5
<1>. QED  BY <1>1, <1>2, FirstGetsThen

LEMMA TransferServerFirst ==
    ASSUME Control, Placed, Cells, Counted, FirstGets, TransferServerNext
    PROVE  FirstGets'
<1>. USE DEF TransferServerNext, echoVars, echoServer
<1>0. Range(order) \subseteq Clients
  BY RangeIs DEF Control
<1>1. CASE TransferBind \/ TransferListen \/ TransferLoad \/ TransferStartFails
  <2>1. /\ order' = << >> /\ srvEnd \subseteq srvEnd'
        /\ UNCHANGED <<down, rpc>>
    BY <1>1 DEF tcp, TransferBind, TransferListen, Listen, TransferLoad, TransferStartFails, ServerEnds, Counted
  <2>. QED  BY <2>1 DEF FirstGets
<1>2. CASE TransferAccept
  <2>1. conn' \in Clients /\ conn' \notin srvEnd
    BY <1>2, TailIs DEF TransferAccept, Control, Placed
  <2>2. order' # << >> /\ Head(order') = IF order = << >> THEN conn' ELSE Head(order)
    BY <1>2, <2>1, AppendIs DEF TransferAccept, Control
  <2>3. /\ tpc' = "first" /\ \A k, c : HasThen(c, k) <=> Has(c, k)
        /\ UNCHANGED <<srvEnd, cliEnd, rpc, down>>
    BY <1>2 DEF TransferAccept, Has, HasThen
  <2>4. \A c \in TransferClients :
          /\ rpc'[c] = "close" => down'[c] = << >>
          /\ rpc'[c] \in {"close", "done"} => c \in srvEnd'
    BY <2>3 DEF FirstGets
  <2>5. /\ order' # << >> /\ Head(order') \in TransferClients /\ Head(order') \notin cliEnd' =>
              /\ Head(order') \in srvEnd' \/ tpc' = "close" => HasThen(Head(order'), FileLen)
              /\ Head(order') \notin srvEnd' /\ tpc' = "loop" =>
                    sent' = pos' /\ sent' < FileLen /\ HasThen(Head(order'), sent')
    BY <2>1, <2>2, <2>3 DEF FirstGets
  <2>. QED  BY <2>4, <2>5, FirstGetsThen
<1>3. CASE FirstSend
  BY <1>3, FirstSendGets
<1>4. CASE NextSend
  BY <1>4, NextSendGets
<1>5. CASE ReadClosed
  <2>1. /\ conn \in Clients /\ conn \notin srvEnd /\ conn # Head(order) /\ Head(order) \in srvEnd
        /\ tpc' \in {"loop", "close"} /\ UNCHANGED <<conn, order, rpc, saved>>
        /\ Head(order) \in Range(order) /\ tpc = "loop"
    <3>1. Len(order) > 1 /\ tpc = "loop"
      BY <1>5 DEF ReadClosed, Counted
    <3>. QED  BY <1>5, <3>1, ServedIs, SendIs
  <2>2. PICK cells \in Seq(FileCell \cup {Zero}) : Deliver(cells)
    BY <1>5, SendIs
  <2>3. cells \in Seq(Cell)
    BY CellIs, WiderSeq
  <2>4. (\A d \in Clients : d # conn => down'[d] = down[d]) /\ UNCHANGED <<srvEnd, cliEnd>>
    BY <2>1, <2>2, <2>3, DeliverIs DEF Cells
  <2>5. \A c \in TransferClients :
          /\ rpc'[c] = "close" => down'[c] = << >>
          /\ rpc'[c] \in {"close", "done"} => c \in srvEnd'
    BY <2>1, <2>4, SocketsAssumption DEF FirstGets
  <2>6. /\ order' # << >> /\ Head(order') \in TransferClients /\ Head(order') \notin cliEnd' =>
              /\ Head(order') \in srvEnd' \/ tpc' = "close" => HasThen(Head(order'), FileLen)
              /\ Head(order') \notin srvEnd' /\ tpc' = "loop" =>
                    sent' = pos' /\ sent' < FileLen /\ HasThen(Head(order'), sent')
    <3>1. down'[Head(order)] = down[Head(order)] /\ saved'[Head(order)] = saved[Head(order)]
      BY <1>0, <2>1, <2>4
    <3>2. \A k : HasThen(Head(order), k) <=> Has(Head(order), k)
      BY <3>1 DEF Has, HasThen
    <3>. QED  BY <2>1, <2>4, <3>2 DEF FirstGets
  <2>. QED  BY <2>5, <2>6, FirstGetsThen
<1>6. CASE CloseConnection
  <2>1. tpc' = "accept" /\ tpc = "close" /\ srvEnd' = srvEnd \cup {conn}
    BY <1>6 DEF CloseConnection, ServerCloses
  <2>. QED  BY <1>6, <2>1, FirstGetsKept DEF CloseConnection, ServerCloses
<1>7. CASE TransferDies
  <2>1. /\ conn \in Clients /\ conn \notin srvEnd /\ Head(order) \in Range(order) /\ order # << >>
        /\ tpc \in {"first", "loop", "close"}
    BY <1>7, ServedIs DEF TransferDies
  <2>2. /\ srvEnd' = srvEnd \cup Range(backlog) \cup {conn} /\ tpc' = "dead"
        /\ UNCHANGED <<down, cliEnd, order, rpc, saved>>
    BY <1>7 DEF TransferDies, ServerEnds
  <2>3. Head(order) \notin cliEnd => Head(order) \in srvEnd
    <3>1. CASE conn \in cliEnd
      BY <2>1, <3>1, ServedIs DEF Placed
    <3>2. CASE conn \notin cliEnd
      <4>1. Len(order) > 1
        BY <1>7, <3>2 DEF TransferDies, Counted
      <4>. QED  BY <2>1, <4>1, ServedIs
    <3>. QED  BY <3>1, <3>2
  <2>4. \A k, c : HasThen(c, k) <=> Has(c, k)
    BY <2>2 DEF Has, HasThen
  <2>5. \A c \in TransferClients :
          /\ rpc'[c] = "close" => down'[c] = << >>
          /\ rpc'[c] \in {"close", "done"} => c \in srvEnd'
    BY <2>2 DEF FirstGets
  <2>6. /\ order' # << >> /\ Head(order') \in TransferClients /\ Head(order') \notin cliEnd' =>
              /\ Head(order') \in srvEnd' \/ tpc' = "close" => HasThen(Head(order'), FileLen)
              /\ Head(order') \notin srvEnd' /\ tpc' = "loop" =>
                    sent' = pos' /\ sent' < FileLen /\ HasThen(Head(order'), sent')
    BY <2>1, <2>2, <2>3, <2>4 DEF FirstGets
  <2>. QED  BY <2>5, <2>6, FirstGetsThen
<1>. QED  BY <1>1, <1>2, <1>3, <1>4, <1>5, <1>6, <1>7 DEF TransferServerStep

LEMMA EchoServerFirst ==
    ASSUME Control, Placed, Cells, Counted, FirstGets, EchoServerNext
    PROVE  FirstGets'
<1>. USE DEF EchoServerNext, transferVars, transferServer
<1>1. UNCHANGED <<order, rpc, saved, tpc, sent, pos, cliEnd>>
  BY DEF EchoServerStep, tcp, EchoBind, EchoListen, Listen, EchoStartFails, EchoAccept, EchoRecv, EchoRecvFails,
     EchoExit, ServerEnds, EchoSend
<1>2. Range(order) \subseteq Clients
  BY RangeIs DEF Control
<1>3. CASE EchoBind \/ EchoListen \/ EchoStartFails \/ EchoAccept \/ EchoRecv
  <2>1. UNCHANGED <<srvEnd, down>>
    BY <1>3 DEF tcp, EchoBind, EchoListen, Listen, EchoStartFails, EchoAccept, EchoRecv
  <2>. QED  BY <1>1, <2>1, FirstGetsKept
<1>4. CASE EchoExit \/ EchoRecvFails
  <2>1. srvEnd' = srvEnd \cup Range(backlog) \cup {peer} /\ down' = down
    BY <1>4 DEF EchoExit, EchoRecvFails, ServerEnds
  <2>2. \A c \in Range(order) : c \notin Range(backlog) /\ c # peer
    BY <1>2 DEF Placed
  <2>. QED  BY <1>1, <2>1, <2>2, FirstGetsKept
<1>5. CASE EchoSend
  <2>1. /\ peer \in Clients /\ peer \notin srvEnd /\ peer \notin Range(order)
        /\ srvEnd' = srvEnd \cup {peer} /\ epc = "check"
    BY <1>5 DEF EchoSend, Placed
  <2>2. \A c \in Clients : c # peer => down'[c] = down[c]
    BY <1>5, <2>1 DEF EchoSend, Cells
  <2>3. \A c \in srvEnd \cup Range(order) : down'[c] = down[c]
    BY <1>2, <2>1, <2>2 DEF Control
  <2>. QED  BY <1>1, <2>1, <2>3, FirstGetsKept
<1>. QED  BY <1>3, <1>4, <1>5 DEF EchoServerStep

LEMMA TransferClientFirst ==
    ASSUME Control, Placed, Cells, Counted, FirstGets, NEW c \in TransferClients, TransferClientNext(c)
    PROVE  FirstGets'
<1>. USE DEF TransferClientNext, echoVars, transferServer
<1>. DEFINE f == Head(order)
<1>1. c \in Clients /\ UNCHANGED <<order, tpc, sent, pos>>
  BY SocketsAssumption DEF TransferClientStep, TransferConnect, TransferRecv, TransferReset, TransferClose,
     TransferLeave
<1>2. CASE TransferRecv(c)
  <2>1. PICK n \in 0..RecvBuf :
          /\ ClientReads(c, n)
          /\ saved' = [saved EXCEPT ![c] = @ \o SubSeq(down[c], 1, n)]
          /\ rpc' = [rpc EXCEPT ![c] = IF n = 0 THEN "close" ELSE @]
    BY <1>2 DEF TransferRecv
  <2>2. rpc[c] = "recv" /\ down[c] \in Seq(Cell) /\ saved[c] \in Seq(Cell)
    BY <1>1, <1>2 DEF TransferRecv, Cells
  <2>3. /\ n \in 0..Len(down[c]) /\ (n = 0 => down[c] = << >> /\ c \in srvEnd)
        /\ down'[c] = SubSeq(down[c], n + 1, Len(down[c])) /\ \A d \in Clients : d # c => down'[d] = down[d]
        /\ UNCHANGED <<srvEnd, cliEnd>>
    BY <1>1, <2>1, ReadIs DEF Cells
  <2>4. /\ saved'[c] = saved[c] \o SubSeq(down[c], 1, n)
        /\ \A d \in TransferClients : d # c => saved'[d] = saved[d]
    BY <2>1 DEF Cells
  <2>5. /\ rpc'[c] = IF n = 0 THEN "close" ELSE "recv"
        /\ \A d \in TransferClients : d # c => rpc'[d] = rpc[d]
    BY <2>1, <2>2 DEF Control
  <2>6. n = 0 => down'[c] = << >>
    <3>1. Len(SubSeq(down[c], n + 1, Len(down[c]))) = Len(down[c]) - n /\ SubSeq(down[c], n + 1, Len(down[c])) \in Seq(Cell)
      BY <2>2, <2>3, CutIs
    <3>2. ASSUME n = 0
          PROVE  Len(down'[c]) = 0
      <4>1. down[c] = << >>
        BY <2>3, <3>2
      <4>2. Len(down[c]) = 0
        BY <4>1
      <4>. QED  BY <2>3, <3>1, <3>2, <4>2
    <3>. QED  BY <2>3, <3>1, <3>2, RangeIs
  <2>7. \A d \in TransferClients :
          /\ rpc'[d] = "close" => down'[d] = << >>
          /\ rpc'[d] \in {"close", "done"} => d \in srvEnd'
    BY <2>3, <2>5, <2>6, SocketsAssumption DEF FirstGets
  <2>8. ASSUME NEW k \in Nat, NEW d \in TransferClients, Has(d, k)
        PROVE  HasThen(d, k)
    <3>1. CASE d = c
      <4>1. Makes(saved[c], down[c], k)
        BY <2>8, <3>1 DEF Has
      <4>2. Makes(saved[c] \o SubSeq(down[c], 1, n), SubSeq(down[c], n + 1, Len(down[c])), k)
        BY <2>2, <2>3, <4>1, MakesMoved
      <4>. QED  BY <2>3, <2>4, <3>1, <4>2 DEF HasThen
    <3>2. CASE d # c
      BY <2>3, <2>4, <2>8, <3>2, SocketsAssumption DEF Has, HasThen
    <3>. QED  BY <3>1, <3>2
  <2>9. FileLen \in Nat /\ (tpc = "loop" /\ sent = pos => sent \in Nat)
    BY SocketsAssumption, PartIs DEF Counted
  <2>. QED  BY <1>1, <2>3, <2>7, <2>8, <2>9, FirstGetsThen DEF FirstGets
<1>3. ASSUME ~ TransferRecv(c)
      PROVE  /\ UNCHANGED <<down, saved, srvEnd>> /\ cliEnd \subseteq cliEnd'
             /\ rpc'[c] # "close" /\ (rpc'[c] = "done" => rpc[c] = "close")
             /\ \A d \in TransferClients : d # c => rpc'[d] = rpc[d]
  BY <1>3 DEF TransferClientStep, TransferConnect, TransferReset, TransferClose, TransferLeave,
     ConnectTo, ClientEnds, Control
<1>4. ASSUME ~ TransferRecv(c)
      PROVE  FirstGets'
  <2>1. \A k, d : HasThen(d, k) <=> Has(d, k)
    BY <1>3, <1>4 DEF Has, HasThen
  <2>2. \A d \in TransferClients :
          /\ rpc'[d] = "close" => down'[d] = << >>
          /\ rpc'[d] \in {"close", "done"} => d \in srvEnd'
    BY <1>3, <1>4 DEF FirstGets
  <2>. QED  BY <1>1, <1>3, <1>4, <2>1, <2>2, FirstGetsThen DEF FirstGets
<1>. QED  BY <1>2, <1>4

LEMMA EchoClientFirst ==
    ASSUME Control, Placed, Cells, Counted, FirstGets, NEW c \in EchoClients, EchoClientNext(c)
    PROVE  FirstGets'
<1>. USE DEF EchoClientNext, transferVars, transferServer
<1>1. /\ c \in Clients /\ UNCHANGED <<order, tpc, sent, pos, rpc, saved, srvEnd>> /\ cliEnd \subseteq cliEnd'
      /\ \A d \in TransferClients : down'[d] = down[d]
  <2>1. CASE EchoPrint(c)
    <3>1. PICK n \in 0..PrintBuf : ClientReads(c, n)
      BY <2>1 DEF EchoPrint
    <3>2. c \in Clients /\ n \in Nat /\ \A d \in TransferClients : d \in Clients /\ d # c
      BY SocketsAssumption
    <3>. QED  BY <3>1, <3>2, ReadIs DEF Cells
  <2>2. CASE ~ EchoPrint(c)
    BY <2>2, SocketsAssumption DEF EchoClientStep, EchoConnect, EchoSendMessage, EchoClose, EchoReset,
       EchoLeave, ConnectTo, ClientEnds
  <2>. QED  BY <2>1, <2>2
<1>2. \A d \in TransferClients : \A k : HasThen(d, k) <=> Has(d, k)
  BY <1>1 DEF Has, HasThen
<1>3. \A d \in TransferClients :
          /\ rpc'[d] = "close" => down'[d] = << >>
          /\ rpc'[d] \in {"close", "done"} => d \in srvEnd'
  BY <1>1 DEF FirstGets
<1>. QED  BY <1>1, <1>2, <1>3, FirstGetsThen DEF FirstGets

LEMMA MakesWhole ==
    ASSUME NEW s \in Seq(Cell), Makes(s, << >>, FileLen)
    PROVE  s = WholeFile
<1>1. Len(s) = FileLen /\ FileLen \in Nat /\ Numbered(s, 0)
  BY SocketsAssumption DEF Makes
<1>2. WholeFile \in Seq({File} \X (1..FileLen)) /\ Len(WholeFile) = FileLen /\ Numbered(WholeFile, 0)
  BY <1>1, FirstCells DEF WholeFile
<1>3. {File} \X (1..FileLen) \subseteq Cell
  BY CellIs DEF FileCell
<1>4. WholeFile \in Seq(Cell)
  BY <1>2, <1>3, WiderSeq
<1>5. \A i \in 1..Len(s) : s[i] = WholeFile[i]
  BY <1>1, <1>2 DEF Numbered
<1>. QED  BY <1>1, <1>2, <1>4, <1>5, SeqEqual

LEMMA FirstKeepsTheFile ==
    ASSUME Control, Placed, Cells, Counted, FirstGets, FirstHasTheFile, [Next]_vars
    PROVE  FirstHasTheFile'
<1>. DEFINE Done(f) == rpc'[f] = "done" => saved'[f] = WholeFile
<1>1. ASSUME order' # << >> /\ Head(order') \in TransferClients => Done(Head(order'))
      PROVE  FirstHasTheFile'
  BY <1>1 DEF FirstHasTheFile, State, WholeFile, FileCells
<1>2. CASE TransferServerNext
  <2>1. UNCHANGED <<rpc, saved>>
    BY <1>2 DEF TransferServerNext, TransferServerStep, tcp, TransferBind, TransferListen, TransferLoad,
       TransferStartFails, TransferAccept, FirstSend, NextSend,
       ReadClosed, CloseConnection, TransferDies
  <2>2. CASE TransferAccept
    <3>1. conn' \in Clients /\ conn' \notin srvEnd
      BY <2>2, TailIs DEF TransferAccept, Control, Placed
    <3>2. order' # << >> /\ Head(order') = IF order = << >> THEN conn' ELSE Head(order)
      BY <2>2, <3>1, AppendIs DEF TransferAccept, Control
    <3>. QED  BY <1>1, <2>1, <3>1, <3>2 DEF FirstGets, FirstHasTheFile, State
  <2>3. CASE ~ TransferAccept
    <3>1. order' = order
      BY <1>2, <2>3 DEF TransferServerNext, TransferServerStep, tcp, TransferBind, TransferListen, TransferLoad,
         TransferStartFails, FirstSend, NextSend,
         ReadClosed, CloseConnection, TransferDies
    <3>. QED  BY <1>1, <2>1, <3>1 DEF FirstHasTheFile, State
  <2>. QED  BY <2>2, <2>3
<1>3. ASSUME NEW c \in TransferClients, TransferClientNext(c)
      PROVE  FirstHasTheFile'
  <2>1. order' = order
    BY <1>3 DEF TransferClientNext, TransferClientStep, TransferConnect, TransferRecv, TransferReset,
       TransferClose, TransferLeave, transferServer
  <2>2. CASE TransferClose(c)
    <3>1. saved' = saved /\ rpc[c] = "close" /\ \A d \in TransferClients : d # c => rpc'[d] = rpc[d]
      BY <2>2 DEF TransferClose, Control
    <3>2. ASSUME order # << >>, Head(order) = c
          PROVE  saved[c] = WholeFile
      <4>1. c \in srvEnd /\ c \notin cliEnd /\ down[c] = << >> /\ saved[c] \in Seq(Cell)
        BY <3>1, SocketsAssumption DEF FirstGets, Control, State, Ended, Cells
      <4>2. Makes(saved[c], << >>, FileLen)
        BY <3>2, <4>1 DEF FirstGets, Has
      <4>. QED  BY <4>1, <4>2, MakesWhole
    <3>. QED  BY <1>1, <2>1, <3>1, <3>2 DEF FirstHasTheFile, State
  <2>3. CASE ~ TransferClose(c)
    <3>1. /\ rpc'[c] # "done" /\ \A d \in TransferClients : d # c => rpc'[d] = rpc[d] /\ saved'[d] = saved[d]
      BY <1>3, <2>3 DEF TransferClientNext, TransferClientStep, TransferConnect, TransferRecv, TransferReset,
         TransferLeave, Control, Cells
    <3>. QED  BY <1>1, <2>1, <3>1 DEF FirstHasTheFile, State
  <2>. QED  BY <2>2, <2>3
<1>4. CASE EchoServerNext
  BY <1>1, <1>4 DEF EchoServerNext, transferVars, transferServer, FirstHasTheFile, State
<1>5. ASSUME NEW c \in EchoClients, EchoClientNext(c)
      PROVE  FirstHasTheFile'
  BY <1>1, <1>5 DEF EchoClientNext, transferVars, transferServer, FirstHasTheFile, State
<1>6. CASE UNCHANGED vars
  BY <1>1, <1>6 DEF vars, transferVars, transferServer, FirstHasTheFile, State
<1>. QED  BY <1>2, <1>3, <1>4, <1>5, <1>6, NextIs

(***************************************************************************)
(* How the servers end.                                                    *)
(***************************************************************************)
LEMMA DiesStays ==
    ASSUME Control, Placed, Cells, Echoes, Counted, ServerEndsHaveCause, [Next]_vars
    PROVE  ServerEndsHaveCause'
<1>1. CASE TransferServerNext
  <2>1. UNCHANGED <<epc, peer, got>> /\ cliEnd' = cliEnd
    BY <1>1 DEF TransferServerNext, echoVars, echoServer, TransferServerStep, tcp, TransferBind, TransferListen, Listen,
       TransferLoad, TransferStartFails, TransferAccept, FirstSend, NextSend, ReadClosed, Deliver, CloseConnection, ServerCloses, TransferDies, ServerEnds
  <2>2. CASE TransferDies
    <3>1. file = "closed" /\ tpc \in {"loop", "close"} => Len(order) > 1
      BY DEF Counted
    <3>. QED  BY <2>1, <2>2, <3>1 DEF TransferDies, ServerEndsHaveCause
  <2>3. CASE TransferStartFails
    <3>1. order' = << >>
      BY <2>3 DEF tcp, TransferStartFails, Counted
    <3>. QED  BY <2>1, <3>1 DEF ServerEndsHaveCause
  <2>4. CASE ~ TransferDies /\ ~ TransferStartFails
    <3>1. tpc' # "dead"
      BY <1>1, <2>4, FirstSends, NextSends, ClosedSends DEF TransferServerNext, TransferServerStep,
         tcp, TransferBind, TransferListen, TransferLoad, TransferAccept, CloseConnection
    <3>. QED  BY <2>1, <3>1 DEF ServerEndsHaveCause
  <2>. QED  BY <2>2, <2>3, <2>4
<1>2. CASE EchoServerNext
  <2>1. UNCHANGED <<tpc, conn, order>> /\ cliEnd' = cliEnd
    BY <1>2 DEF EchoServerNext, transferVars, transferServer, EchoServerStep, tcp, EchoBind, EchoListen, Listen,
       EchoStartFails, EchoAccept, EchoRecv, EchoRecvFails, EchoExit, ServerEnds, EchoSend
  <2>2. CASE EchoExit
    <3>1. got = 0
      <4>1. Len(text) = 0 /\ epc = "check"
        BY <2>2, EmptyIs DEF EchoExit
      <4>2. got \in Int /\ got >= 0 /\ (got > 0 => got <= 0)
        BY <4>1, SocketsAssumption DEF Echoes
      <4>. QED  BY <4>2
    <3>. QED  BY <2>1, <2>2, <3>1 DEF EchoExit, Echoes, ServerEndsHaveCause
  <2>3. CASE EchoStartFails \/ EchoRecvFails
    <3>1. peer' = None \/ peer' \in cliEnd
      BY <2>3 DEF tcp, EchoStartFails, EchoRecvFails, Placed
    <3>. QED  BY <2>1, <3>1 DEF ServerEndsHaveCause
  <2>4. CASE ~ EchoExit /\ ~ EchoStartFails /\ ~ EchoRecvFails
    <3>1. epc' # "dead"
      BY <1>2, <2>4 DEF EchoServerNext, EchoServerStep, tcp, EchoBind, EchoListen, EchoAccept, EchoRecv, EchoSend
    <3>. QED  BY <2>1, <3>1 DEF ServerEndsHaveCause
  <2>. QED  BY <2>2, <2>3, <2>4
<1>3. ASSUME NEW c \in TransferClients, TransferClientNext(c)
      PROVE  ServerEndsHaveCause'
  BY <1>3 DEF TransferClientNext, echoVars, echoServer, transferServer, TransferClientStep, TransferConnect, TransferRecv,
     TransferReset, TransferClose, TransferLeave, ConnectTo, ClientEnds, ClientReads, ServerEndsHaveCause
<1>4. ASSUME NEW c \in EchoClients, EchoClientNext(c)
      PROVE  ServerEndsHaveCause'
  BY <1>4 DEF EchoClientNext, transferVars, transferServer, echoServer, EchoClientStep, EchoConnect, EchoSendMessage,
     EchoPrint, EchoClose, EchoReset, EchoLeave, ConnectTo, ClientEnds, ClientReads, ServerEndsHaveCause
<1>5. CASE UNCHANGED vars
  BY <1>5 DEF vars, tcp, transferVars, transferServer, echoVars, echoServer, ServerEndsHaveCause
<1>. QED  BY <1>1, <1>2, <1>3, <1>4, <1>5, NextIs

(***************************************************************************)
(* The invariant holds, and what follows from it.                          *)
(***************************************************************************)
LEMMA InitState ==
    ASSUME Init
    PROVE  IInv
<1>. USE SocketsAssumption DEF Init, TcpInit, TransferInit, EchoInit
<1>1. Control /\ Placed
  BY EmptyIs DEF Control, Placed, State, Ended
<1>2. text \in Seq(Cell)
  <2>1. Junk \in [1..EchoBuf -> Cell] /\ EchoBuf \in Nat
    BY CellIs DEF Junk, Zero
  <2>2. Junk \in Seq(Cell)
    BY <2>1
  <2>. QED  BY <2>2, EmptyIs
<1>6. Cells
  BY EmptyIs DEF Cells, Got, State
<1>7. Echoes
  <2>1. got = 0 /\ EchoBuf \in Nat /\ got \in -1..EchoBuf
    OBVIOUS
  <2>2. \A c \in EchoClients : c \in Clients /\ Begins(down[c], c)
    BY EmptyIs DEF Begins
  <2>3. \A c \in EchoClients : up[c] = << >> /\ printed[c] = << >>
    BY <2>2
  <2>4. epc # "check"
    OBVIOUS
  <2>5. \A c \in EchoClients : mpc[c] \in {"connect", "send", "recv"} =>
            printed[c] = << >> /\ (c \notin Range(order) => Begins(down[c], c))
    BY <2>2, <2>3
  <2>. HIDE DEF Init, TcpInit, TransferInit, EchoInit
  <2>. QED  BY <1>2, <2>1, <2>3, <2>4, <2>5 DEF Echoes
<1>3. EchoIsOwn
  <2>1. ASSUME NEW c \in EchoClients
        PROVE  IsPrefix(printed[c], Message(c))
    <3>1. printed[c] = << >>
      OBVIOUS
    <3>2. printed[c] \in Seq(Cell) /\ Begins(printed[c], c)
      BY <3>1, EmptyIs DEF Begins
    <3>. QED  BY <3>2, BeginsIsPrefix
  <2>. QED  BY <2>1 DEF EchoIsOwn
<1>4. Counted
  BY EmptyIs DEF Counted
<1>5. FirstGets /\ FirstHasTheFile /\ ServerEndsHaveCause
  BY DEF FirstGets, FirstHasTheFile, ServerEndsHaveCause
<1>. QED  BY <1>1, <1>3, <1>4, <1>5, <1>6, <1>7 DEF IInv

LEMMA StutterKeeps ==
    ASSUME IInv, UNCHANGED vars
    PROVE  IInv'
<1>. USE DEF vars, tcp, transferVars, transferServer, echoVars, echoServer
<1>1. Control' /\ Placed'
  BY DEF IInv, Control, Placed, State
<1>2. Cells' /\ Echoes'
  BY DEF IInv, Cells, Echoes, Unserved, State, Got, Begins
<1>3. EchoIsOwn' /\ Counted'
  BY DEF IInv, EchoIsOwn, Counted
<1>4. FirstGets' /\ FirstHasTheFile' /\ ServerEndsHaveCause'
  BY DEF IInv, FirstGets, Has, Makes, FirstHasTheFile, State, ServerEndsHaveCause
<1>. QED  BY <1>1, <1>2, <1>3, <1>4 DEF IInv

LEMMA NextKeeps ==
    ASSUME IInv, [Next]_vars
    PROVE  IInv'
<1>. USE DEF IInv
<1>1. EchoIsOwn' /\ FirstHasTheFile' /\ ServerEndsHaveCause'
  BY EchoesStayOwn, FirstKeepsTheFile, DiesStays
<1>2. CASE TransferServerNext
  <2>1. Control' /\ Placed' /\ Cells' /\ Echoes' /\ FirstGets'
    BY <1>2, TransferServerPlaced, TransferServerCells, TransferServerEchoes, TransferServerFirst
  <2>2. Counted'
    BY <2>1, CountedStays
  <2>. QED  BY <1>1, <2>1, <2>2
<1>3. CASE EchoServerNext
  <2>1. Control' /\ Placed' /\ Cells' /\ Echoes' /\ FirstGets'
    BY <1>3, EchoServerPlaced, EchoServerCells, EchoServerEchoes, EchoServerFirst
  <2>. QED  BY <1>1, <2>1, CountedStays
<1>4. ASSUME NEW c \in TransferClients, TransferClientNext(c)
      PROVE  IInv'
  <2>1. Control' /\ Placed' /\ Cells' /\ Echoes' /\ FirstGets'
    BY <1>4, TransferClientPlaced, TransferClientCells, TransferClientEchoes, TransferClientFirst
  <2>. QED  BY <1>1, <2>1, CountedStays
<1>5. ASSUME NEW c \in EchoClients, EchoClientNext(c)
      PROVE  IInv'
  <2>1. Control' /\ Placed' /\ Cells' /\ Echoes' /\ FirstGets'
    BY <1>5, EchoClientPlaced, EchoClientCells, EchoClientEchoes, EchoClientFirst
  <2>. QED  BY <1>1, <2>1, CountedStays
<1>6. CASE UNCHANGED vars
  BY <1>6, StutterKeeps
<1>. QED  BY <1>2, <1>3, <1>4, <1>5, <1>6, NextIs

LEMMA Invariance == Spec => []IInv
  BY InitState, NextKeeps, PTL DEF Spec

\* The servers, the clients and the connections are in the states TypeOK names:
\* no connection is twice in the backlog, and the counters of
\* transferserver.c keep to the file, whatever send returns.
THEOREM TypeCorrect == Spec => []TypeOK
<1>1. IInv => TypeOK
  <2>. SUFFICES ASSUME IInv
                PROVE  TypeOK
    OBVIOUS
  <2>. USE DEF IInv
  <2>1. Len(order) \in Nat
    BY RangeIs DEF Control
  <2>2. sent \in -Len(order)..FileLen /\ left = (IF file = "unopened" THEN 0 ELSE FileLen - sent)
    BY <2>1, SocketsAssumption DEF Counted
  <2>. QED  BY <2>2 DEF TypeOK, Control, Placed, Cells, Echoes, Counted
<1>. QED  BY <1>1, Invariance, PTL

\* The first client transferserver.c accepted, if it ended well, has written
\* the whole file, however its recv calls cut the stream.
THEOREM FirstGetsTheFile == Spec => []FirstHasTheFile
<1>1. IInv => FirstHasTheFile
  BY DEF IInv
<1>. QED  BY <1>1, Invariance, PTL

\* What echoclient.c prints is the beginning of its own message, or came from
\* the transfer server it met on the port.
THEOREM EchoesAreOwn == Spec => []EchoIsOwn
<1>1. IInv => EchoIsOwn
  BY DEF IInv
<1>. QED  BY <1>1, Invariance, PTL

\* echoserver.c and transferserver.c end of their own start, before they serve
\* anybody, or of the client they serve when it has left; transferserver.c
\* also of a connection after its first.
THEOREM EndsHaveCauses == Spec => []ServerEndsHaveCause
<1>1. IInv => ServerEndsHaveCause
  BY DEF IInv
<1>. QED  BY <1>1, Invariance, PTL
=============================================================================
