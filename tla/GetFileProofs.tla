---------------------------- MODULE GetFileProofs ----------------------------
(***************************************************************************)
(* What the Getfile programs promise, for any number of clients and of     *)
(* requests, any files, buffers and bounds, and any way TCP cuts.          *)
(***************************************************************************)
EXTENDS GetFile, SequenceTheorems, TLAPS

(***************************************************************************)
(* The inductive invariant.  The types, with those TypeOK leaves out.      *)
(***************************************************************************)
Named == [dir : Dirs \cup {Junk}, name : Names \cup {Junk}]
Numbers == Nat \cup {Announced(Size[p]) : p \in DOMAIN Size}
Kinds == {"OK", "FILE_NOT_FOUND", "INVALID", "length", "end", "data"}
Pieces == {"GETFILE GET"} \cup Dirs \cup Names
Cells == [kind : Kinds, of : Named \cup {None}, n : Numbers]

ServerTypes ==
    /\ spc \in {"start", "binding", "exited", "accept", "recv", "send", "dead"}
    /\ cur \in Conns \cup {None}
    /\ cur = None <=> spc \in {"start", "binding", "exited", "accept"}
    /\ buffer \in Named /\ out \in Seq(Cells)
    /\ leaked \in 0..FdLimit /\ (spc \in {"recv", "send"} => leaked < FdLimit)

WireTypes ==
    /\ backlog \in Seq(Conns) /\ Len(backlog) <= MaxPending + 1
    /\ up \in [Conns -> Seq(Pieces)] /\ \A k \in Conns : Len(up[k]) <= 3
    /\ down \in [Conns -> Seq(Cells)] /\ \A k \in Conns : Len(down[k]) <= Window
    /\ closed \subseteq Conns /\ hungup \subseteq Conns

ClientTypes ==
    /\ cpc \in [Clients -> {"idle", "connect", "header", "reply", "body", "done", "crashed"}]
    /\ turn \in [Clients -> Nat] /\ \A c \in Clients : turn[c] \in 1..Requests[c]
    /\ path \in [Clients -> Paths \cup {None}]
    /\ \A c \in Clients : cpc[c] # "idle" => path[c] \in Paths
    /\ status \in [Clients -> {"unset", "OK", "ERROR", "INVALID"}]
    /\ ret \in [Clients -> {"none", "ok", "fail"}]
    /\ filelen \in [Clients -> Numbers] /\ written \in [Clients -> Seq(Cells)]
    /\ cut \in [Clients -> SUBSET {"request", "header"}]

\* A connection is made when its client gets to it;
Used(k) ==
    \/ k[2] < turn[k[1]]
    \/ k[2] = turn[k[1]] /\ cpc[k[1]] \notin {"idle", "connect"}

Unused ==
    \A k \in Conns : ~Used(k) =>
        /\ k \notin Range(backlog) /\ k # cur
        /\ up[k] = << >> /\ down[k] = << >> /\ k \notin closed /\ k \notin hungup

\* it waits once, in the accept queue or with the server at its recv,
InLine == IsInjective(backlog) /\ cur \notin Range(backlog)

\* unanswered, and what it carries then is the request of a client that waits;
Waiting(k) == k \in Range(backlog) \/ (k = cur /\ spc = "recv")
Unanswered ==
    \A k \in Conns : Waiting(k) =>
        /\ down[k] = << >> /\ k \notin closed
        /\ spc # "dead" /\ up[k] # << >> =>
              k = Cur(k[1]) /\ cpc[k[1]] = "reply" /\ up[k] = Request(k[1])

\* nobody reads it before its request is sent, and a client that reads has it.
Serves(k) == cur = k /\ spc = "send"
Unread(c) ==
    /\ cpc[c] = "header" =>
          /\ up[Cur(c)] = << >> /\ down[Cur(c)] = << >>
          /\ Cur(c) \notin closed /\ ~Serves(Cur(c))
    /\ cpc[c] \in {"header", "reply", "body"} => Cur(c) \notin hungup

Placed == Unused /\ InLine /\ Unanswered /\ \A c \in Clients : Unread(c)

\* The length of the file of p, and the paths the server may have read as the
\* request of c.
Length(p) == IF p \in DOMAIN Size THEN Size[p] ELSE 0
Content(p) == [i \in 1..Length(p) |-> Cell("data", p, i)]
Asked(c) ==
    {p \in Named : "request" \notin cut[c] => p = path[c]}

\* What the handler has still to send is the end of the response,
Sending ==
    spc = "send" =>
        /\ buffer.dir # Junk
        /\ Len(out) <= Length(buffer) \/ Len(out) = Length(buffer) + 3
        /\ \A i \in 1..Len(out) : out[i] = Response(buffer)[Length(buffer) + 3 - Len(out) + i]

\* what a client that waits for its reply can read is the beginning of it,
Told(c, p) ==
    /\ Len(down[Cur(c)]) <= Length(p) + 3
    /\ \A i \in 1..Len(down[Cur(c)]) : down[Cur(c)][i] = Response(p)[i]
    /\ Serves(Cur(c)) => p = buffer /\ Len(down[Cur(c)]) + Len(out) = Length(p) + 3

Refused(c) ==
    /\ Len(down[Cur(c)]) = 1 /\ down[Cur(c)][1].kind = "INVALID"
    /\ path[c].dir = NoSlash \/ "request" \in cut[c]
    /\ ~Waiting(Cur(c)) /\ ~Serves(Cur(c))

InReply(c) ==
    cpc[c] = "reply" =>
        /\ Refused(c) \/ \E p \in Asked(c) : Told(c, p)
        /\ Cur(c) \in closed => down[Cur(c)] # << >>

\* and what one that is past the header has read, and can read, is of the file.
Got(c, p) ==
    /\ filelen[c] = Announced(Length(p))
    /\ Len(written[c]) + Len(down[Cur(c)]) <= Length(p)
    /\ \A i \in 1..Len(written[c]) : written[c][i] = Cell("data", p, i)
    /\ \A i \in 1..Len(down[Cur(c)]) : down[Cur(c)][i] = Cell("data", p, Len(written[c]) + i)
    /\ Serves(Cur(c)) =>
          p = buffer /\ Len(written[c]) + Len(down[Cur(c)]) + Len(out) = Length(p)

InBody(c) == cpc[c] = "body" => ~Waiting(Cur(c)) /\ \E p \in Asked(c) : Got(c, p)

\* A request that is under way has no result yet.
Pending(c) ==
    /\ cpc[c] \in {"connect", "header", "reply"} => status[c] = "unset" /\ ret[c] = "none"
    /\ cpc[c] = "body" => status[c] = "OK" /\ ret[c] = "none"

Answers == Sending /\ \A c \in Clients : InReply(c) /\ InBody(c) /\ Pending(c)

IInv ==
    /\ ServerTypes /\ WireTypes /\ ClientTypes /\ Placed /\ Answers
    /\ KeptIsWhole /\ InvalidHasCause /\ DiesOfItsClientOnly

(***************************************************************************)
(* Sequences of connections and of cells.                                  *)
(***************************************************************************)
LEMMA EmptyIs ==
    /\ \A S : << >> \in Seq(S)
    /\ Range(<< >>) = {} /\ IsInjective(<< >>) /\ Len(<< >>) = 0
<1>1. \A S : << >> \in Seq(S)
  OBVIOUS
<1>2. DOMAIN << >> = {} /\ Len(<< >>) = 0
  OBVIOUS
<1>. QED  BY <1>1, <1>2 DEF Range, IsInjective

\* What is in a sequence,
LEMMA RangeIs ==
    ASSUME NEW S, NEW s \in Seq(S)
    PROVE  /\ Len(s) \in Nat /\ DOMAIN s = 1..Len(s)
           /\ Range(s) = {s[i] : i \in 1..Len(s)} /\ Range(s) \subseteq S
           /\ \A i \in 1..Len(s) : s[i] \in Range(s) /\ s[i] \in S
           /\ s = << >> <=> Len(s) = 0
           /\ Range(s) = {} => s = << >>
<1>1. Len(s) \in Nat /\ DOMAIN s = 1..Len(s) /\ \A i \in 1..Len(s) : s[i] \in S
  OBVIOUS
<1>2. s = << >> <=> Len(s) = 0
  OBVIOUS
<1>3. Range(s) = {s[i] : i \in 1..Len(s)}
  BY <1>1 DEF Range
<1>4. \A i \in 1..Len(s) : s[i] \in Range(s)
  BY <1>3
<1>5. Range(s) = {} => s = << >>
  <2>1. Len(s) # 0 => 1 \in 1..Len(s)
    BY <1>1
  <2>. QED  BY <1>2, <1>4, <2>1
<1>. QED  BY <1>1, <1>2, <1>3, <1>4, <1>5

\* with one more at the end,
LEMMA AppendIs ==
    ASSUME NEW S, NEW s \in Seq(S), NEW e \in S
    PROVE  /\ Append(s, e) \in Seq(S) /\ Append(s, e) # << >>
           /\ Len(Append(s, e)) = Len(s) + 1
           /\ Append(s, e)[Len(s) + 1] = e
           /\ Head(Append(s, e)) = IF s = << >> THEN e ELSE Head(s)
           /\ Range(Append(s, e)) = Range(s) \cup {e}
           /\ IsInjective(s) /\ e \notin Range(s) => IsInjective(Append(s, e))
<1>. DEFINE t == Append(s, e)
<1>1. /\ t \in Seq(S) /\ t # << >> /\ Len(t) = Len(s) + 1 /\ t[Len(s) + 1] = e
      /\ \A i \in 1..Len(s) : t[i] = s[i]
  BY AppendProperties
<1>2. Head(t) = IF s = << >> THEN e ELSE Head(s)
  BY HeadTailAppend
<1>3. Len(s) \in Nat /\ Range(s) = {s[i] : i \in 1..Len(s)} /\ DOMAIN s = 1..Len(s)
  BY RangeIs
<1>4. Range(t) = {t[i] : i \in 1..Len(t)} /\ DOMAIN t = 1..Len(t)
  BY <1>1, RangeIs
<1>. HIDE DEF t
<1>5. 1..Len(t) = 1..Len(s) \cup {Len(s) + 1}
  BY <1>1, <1>3
<1>6. Range(t) = Range(s) \cup {e}
  BY <1>1, <1>3, <1>4, <1>5
<1>7. ASSUME IsInjective(s), e \notin Range(s)
      PROVE  IsInjective(t)
  BY <1>1, <1>3, <1>4, <1>5, <1>7 DEF IsInjective
<1>. QED  BY <1>1, <1>2, <1>6, <1>7 DEF t

\* and without its first.
LEMMA TailIs ==
    ASSUME NEW S, NEW s \in Seq(S), s # << >>
    PROVE  /\ Head(s) \in S /\ Head(s) \in Range(s) /\ Head(s) = s[1]
           /\ Tail(s) \in Seq(S) /\ Range(Tail(s)) \subseteq Range(s)
           /\ IsInjective(s) => IsInjective(Tail(s)) /\ Head(s) \notin Range(Tail(s))
<1>. DEFINE t == Tail(s)
<1>1. /\ Head(s) \in S /\ t \in Seq(S) /\ Len(t) = Len(s) - 1
      /\ \A i \in 1..Len(t) : t[i] = s[i + 1]
  BY HeadTailProperties
<1>2. Head(s) = s[1]
  OBVIOUS
<1>3. Len(s) \in Nat /\ Range(s) = {s[i] : i \in 1..Len(s)} /\ DOMAIN s = 1..Len(s) /\ Len(s) # 0
  BY RangeIs
<1>4. Range(t) = {t[i] : i \in 1..Len(t)} /\ DOMAIN t = 1..Len(t)
  BY <1>1, RangeIs
<1>. HIDE DEF t
<1>5. 1 \in 1..Len(s) /\ \A i \in 1..Len(t) : i + 1 \in 1..Len(s) /\ i + 1 # 1 /\ i \in Int
  BY <1>1, <1>3
<1>6. Range(t) \subseteq Range(s) /\ Head(s) \in Range(s)
  BY <1>1, <1>2, <1>3, <1>4, <1>5
<1>7. ASSUME IsInjective(s)
      PROVE  IsInjective(t) /\ Head(s) \notin Range(t)
  <2>1. \A i, j \in 1..Len(t) : t[i] = t[j] => i + 1 = j + 1
    BY <1>1, <1>3, <1>5, <1>7 DEF IsInjective
  <2>2. \A i \in 1..Len(t) : t[i] # s[1]
    BY <1>1, <1>3, <1>5, <1>7 DEF IsInjective
  <2>3. \A i, j \in 1..Len(t) : i + 1 = j + 1 => i = j
    BY <1>5
  <2>4. IsInjective(t)
    BY <1>4, <2>1, <2>3 DEF IsInjective
  <2>. QED  BY <1>2, <1>4, <2>2, <2>4
<1>. QED  BY <1>1, <1>2, <1>6, <1>7 DEF t

\* A sequence cut in two.
LEMMA CutIs ==
    ASSUME NEW S, NEW s \in Seq(S), NEW n \in 0..Len(s)
    PROVE  /\ SubSeq(s, 1, n) \in Seq(S) /\ Len(SubSeq(s, 1, n)) = n
           /\ \A i \in 1..n : SubSeq(s, 1, n)[i] = s[i]
           /\ SubSeq(s, n + 1, Len(s)) \in Seq(S) /\ Len(SubSeq(s, n + 1, Len(s))) = Len(s) - n
           /\ \A i \in 1..Len(s) - n : SubSeq(s, n + 1, Len(s))[i] = s[n + i]
           /\ Range(SubSeq(s, 1, n)) \subseteq Range(s)
           /\ Range(SubSeq(s, n + 1, Len(s))) \subseteq Range(s)
<1>. DEFINE a == SubSeq(s, 1, n)
            b == SubSeq(s, n + 1, Len(s))
<1>1. /\ Len(s) \in Nat /\ n \in Nat /\ n <= Len(s) /\ Range(s) = {s[i] : i \in 1..Len(s)}
      /\ \A i \in 1..Len(s) : s[i] \in S
  BY RangeIs
<1>2. a \in Seq(S) /\ Len(a) = n /\ \A i \in 1..n : a[i] = s[i]
  <2>1. \A i \in 1..n : s[i] \in S /\ 1 + i - 1 = i
    BY <1>1
  <2>2. /\ a \in Seq(S) /\ Len(a) = IF 1 <= n THEN n - 1 + 1 ELSE 0
        /\ \A i \in 1..n - 1 + 1 : a[i] = s[1 + i - 1]
    BY <1>1, <2>1, SubSeqProperties
  <2>. QED  BY <1>1, <2>1, <2>2
<1>3. b \in Seq(S) /\ Len(b) = Len(s) - n /\ \A i \in 1..Len(s) - n : b[i] = s[n + i]
  <2>1. \A i \in n + 1..Len(s) : s[i] \in S
    BY <1>1
  <2>2. /\ b \in Seq(S) /\ Len(b) = IF n + 1 <= Len(s) THEN Len(s) - (n + 1) + 1 ELSE 0
        /\ \A i \in 1..Len(s) - (n + 1) + 1 : b[i] = s[n + 1 + i - 1]
    BY <1>1, <2>1, SubSeqProperties
  <2>3. \A i \in 1..Len(s) - n : n + 1 + i - 1 = n + i /\ i \in 1..Len(s) - (n + 1) + 1
    BY <1>1
  <2>. QED  BY <1>1, <2>2, <2>3
<1>4. Range(a) = {a[i] : i \in 1..n} /\ Range(b) = {b[i] : i \in 1..Len(s) - n}
  <2>. HIDE DEF a, b
  <2>1. Range(a) = {a[i] : i \in 1..Len(a)}
    BY <1>2, RangeIs
  <2>2. Range(b) = {b[i] : i \in 1..Len(b)}
    BY <1>3, RangeIs
  <2>. QED  BY <1>2, <1>3, <2>1, <2>2
<1>. HIDE DEF a, b
<1>5. (\A i \in 1..n : i \in 1..Len(s)) /\ \A i \in 1..Len(s) - n : n + i \in 1..Len(s)
  BY <1>1
<1>6. Range(a) \subseteq Range(s) /\ Range(b) \subseteq Range(s)
  BY <1>1, <1>2, <1>3, <1>4, <1>5
<1>. QED  BY <1>2, <1>3, <1>6 DEF a, b

\* Two sequences put together.
LEMMA JoinIs ==
    ASSUME NEW S, NEW s \in Seq(S), NEW t \in Seq(S)
    PROVE  /\ s \o t \in Seq(S) /\ Len(s \o t) = Len(s) + Len(t)
           /\ \A i \in 1..Len(s) : (s \o t)[i] = s[i]
           /\ \A i \in 1..Len(t) : (s \o t)[Len(s) + i] = t[i]
           /\ Range(s \o t) = Range(s) \cup Range(t)
           /\ s = << >> => s \o t = t
           /\ t = << >> => s \o t = s
<1>1. /\ s \o t \in Seq(S) /\ Len(s \o t) = Len(s) + Len(t)
      /\ \A i \in 1..Len(s) + Len(t) :
            (s \o t)[i] = IF i <= Len(s) THEN s[i] ELSE t[i - Len(s)]
  BY ConcatProperties
<1>2. Len(s) \in Nat /\ Len(t) \in Nat
  OBVIOUS
<1>3. /\ \A i \in 1..Len(s) : i \in 1..Len(s) + Len(t) /\ i <= Len(s)
      /\ \A i \in 1..Len(t) : /\ Len(s) + i \in 1..Len(s) + Len(t) /\ ~ (Len(s) + i <= Len(s))
                               /\ Len(s) + i - Len(s) = i
  BY <1>2
<1>. QED  BY <1>1, <1>3, RangeConcatenation, ConcatEmptySeq

(***************************************************************************)
(* Connections, responses and frames.                                      *)
(***************************************************************************)
\* A connection is a client and a number,
LEMMA ConnIs ==
    ASSUME NEW k \in Conns
    PROVE  k = <<k[1], k[2]>> /\ k[1] \in Clients /\ k[2] \in 1..Requests[k[1]] /\ k[2] \in Nat
<1>1. PICK c \in Clients : k \in {c} \X (1..Requests[c])
  BY DEF Conns
<1>2. Requests[c] \in Nat
  BY GetFileAssumption
<1>. QED
  BY <1>1, <1>2

\* of which a client has one at a time.
LEMMA CurIs ==
    ASSUME ClientTypes, NEW c \in Clients
    PROVE  /\ Cur(c) \in Conns /\ Cur(c)[1] = c /\ Cur(c)[2] = turn[c] /\ Cur(c) # None
           /\ \A d \in Clients : Cur(d) = Cur(c) => d = c
<1>1. Cur(c) \in {c} \X (1..Requests[c])
  BY DEF ClientTypes, Cur
<1>2. Cur(c) \in Conns
  BY <1>1 DEF Conns
<1>. QED
  BY <1>2, GetFileAssumption DEF Cur

\* The lengths of files, and what is announced of one.
LEMMA LengthIs ==
    ASSUME NEW p
    PROVE  /\ Length(p) \in Nat /\ Announced(Length(p)) \in Numbers
           /\ Length(p) < DigitsLimit => Announced(Length(p)) = Length(p)
           /\ Length(p) >= DigitsLimit => p \in DOMAIN Size /\ Size[p] = Length(p)
<1>1. \A n \in Nat : n < DigitsLimit => Announced(n) = n
  BY DEF Announced
<1>2. CASE p \in DOMAIN Size
  <2>1. Length(p) = Size[p] /\ Size[p] \in Nat
    BY <1>2, GetFileAssumption DEF Length
  <2>2. Announced(Size[p]) \in Numbers
    BY <1>2 DEF Numbers
  <2>. QED
    BY <1>1, <1>2, <2>1, <2>2
<1>3. CASE p \notin DOMAIN Size
  <2>1. Length(p) = 0 /\ Announced(0) = 0
    BY <1>1, <1>3, GetFileAssumption DEF Length
  <2>. QED
    BY <2>1, GetFileAssumption DEF Numbers
<1>. QED
  BY <1>2, <1>3

\* A file is its blocks, in order.
LEMMA BlocksAre ==
    ASSUME NEW p \in Named
    PROVE  /\ Content(p) \in Seq(Cells) /\ Len(Content(p)) = Length(p)
           /\ \A i \in 1..Length(p) : Content(p)[i] = Cell("data", p, i)
           /\ p \in DOMAIN Size => Content(p) = Blocks(p)
<1>1. Length(p) \in Nat /\ Content(p) = [i \in 1..Length(p) |-> Cell("data", p, i)]
  BY LengthIs DEF Content
<1>2. \A i \in 1..Length(p) : Cell("data", p, i) \in Cells
  BY <1>1 DEF Cell, Cells, Kinds, Numbers
<1>3. p \in DOMAIN Size => Content(p) = Blocks(p)
  BY DEF Content, Blocks, Length
<1>. QED
  BY <1>1, <1>2, <1>3

\* A response is three cells of header, then the blocks.
LEMMA ResponseIs ==
    ASSUME NEW p \in Named
    PROVE  /\ Response(p) \in Seq(Cells) /\ Len(Response(p)) = Length(p) + 3
           /\ Response(p)[1].kind \in {"OK", "FILE_NOT_FOUND"}
           /\ Response(p)[2].n = Announced(Length(p))
           /\ \A i \in 1..Length(p) : Response(p)[i + 3] = Cell("data", p, i)
<1>. DEFINE s == IF p \in DOMAIN Size THEN "OK" ELSE "FILE_NOT_FOUND"
            h == Header(s, p, Length(p))
<1>1. Length(p) \in Nat /\ Announced(Length(p)) \in Numbers
  BY LengthIs
<1>2. /\ Cell(s, p, Length(p)) \in Cells /\ Cell("length", p, Announced(Length(p))) \in Cells
      /\ Cell("end", p, Length(p)) \in Cells
  BY <1>1 DEF Cell, Cells, Kinds, Numbers
<1>3. /\ h \in Seq(Cells) /\ Len(h) = 3 /\ h[1].kind = s /\ h[2].n = Announced(Length(p))
  BY <1>2 DEF Header, Cell
<1>4. /\ Content(p) \in Seq(Cells) /\ Len(Content(p)) = Length(p)
      /\ \A i \in 1..Length(p) : Content(p)[i] = Cell("data", p, i)
  BY BlocksAre
<1>5. Response(p) = h \o Content(p)
  <2>1. CASE p \in DOMAIN Size
    BY <2>1, BlocksAre DEF Response, Length
  <2>2. CASE p \notin DOMAIN Size
    <3>1. Response(p) = h
      BY <2>2 DEF Response, Length
    <3>2. Content(p) = << >>
      BY <1>4, <2>2, RangeIs DEF Length
    <3>. QED
      BY <1>3, <3>1, <3>2, ConcatEmptySeq
  <2>. QED
    BY <2>1, <2>2
<1>. HIDE DEF h
<1>6. /\ Response(p) \in Seq(Cells) /\ Len(Response(p)) = 3 + Length(p)
      /\ \A i \in 1..3 : Response(p)[i] = h[i]
      /\ \A i \in 1..Length(p) : Response(p)[3 + i] = Content(p)[i]
  <2>1. PICK b \in Seq(Cells) : b = Content(p)
    BY <1>4
  <2>0. h \in Seq(Cells)
    BY <1>3
  <2>2. /\ h \o b \in Seq(Cells) /\ Len(h \o b) = Len(h) + Len(b)
        /\ \A i \in 1..Len(h) : (h \o b)[i] = h[i]
        /\ \A i \in 1..Len(b) : (h \o b)[Len(h) + i] = b[i]
    BY <2>0, JoinIs
  <2>. QED
    BY <1>3, <1>4, <1>5, <2>1, <2>2
<1>7. s \in {"OK", "FILE_NOT_FOUND"}
  OBVIOUS
<1>. HIDE DEF s
<1>8. Response(p)[1] = h[1] /\ Response(p)[2] = h[2]
  BY <1>6
<1>9. \A i \in 1..Length(p) : i + 3 = 3 + i
  BY <1>1
<1>. QED
  BY <1>1, <1>3, <1>4, <1>6, <1>7, <1>8, <1>9

\* The server leaves the clients alone.
LEMMA ServerFrame == ServerStep => UNCHANGED <<client, hungup>>
  BY DEF ServerStep, Start, Accept, ReadRequest, RecvFails, DieOfRequest, RefuseRequest, HandleRequest,
         Receives, Send, SendFails, ReadFails, HandlerReturns

\* A client leaves the server alone, the other clients, and every connection
\* but its own.
ClientStep(c) == Begin(c) \/ Perform(c)
LEMMA ClientFrame ==
    ASSUME ClientTypes, WireTypes, NEW c \in Clients, ClientStep(c)
    PROVE  /\ UNCHANGED <<server, closed>>
           /\ \A d \in Clients : d # c =>
                 UNCHANGED <<cpc[d], turn[d], path[d], status[d], filelen[d], written[d], ret[d], cut[d]>>
           /\ \A k \in Conns : k # Cur(c) => UNCHANGED <<up[k], down[k]>>
           /\ hungup' = hungup \/ (hungup' = hungup \cup {Cur(c)} /\ cpc[c] = "body")
           /\ backlog' = backlog \/ (backlog' = Append(backlog, Cur(c)) /\ Connect(c))
<1>. USE DEF ClientTypes, WireTypes
<1>1. CASE Begin(c)
  BY <1>1 DEF Begin
<1>2. CASE Connect(c) \/ HeaderFuncUnset(c) \/ SendRequest(c)
  BY <1>2 DEF Connect, HeaderFuncUnset, SendRequest, server
<1>3. CASE RequestFails(c) \/ NoReply(c)
  BY <1>3 DEF RequestFails, NoReply, Return, Quiet
<1>4. ASSUME NEW n \in 1..RecvBuf,
             ParseInvalid(c, n) \/ ParseTorn(c, n) \/ ParseShort(c, n) \/ ParseLong(c, n)
      PROVE  /\ UNCHANGED <<server, closed, hungup, backlog>>
             /\ \A d \in Clients : d # c =>
                   UNCHANGED <<cpc[d], turn[d], path[d], status[d], filelen[d], written[d], ret[d], cut[d]>>
             /\ \A k \in Conns : k # Cur(c) => UNCHANGED <<up[k], down[k]>>
  BY <1>4 DEF ParseInvalid, ParseTorn, ParseShort, ParseLong, FirstRecv, Return, Quiet
<1>5. CASE RecvBody(c)
  BY <1>5 DEF RecvBody, Quiet
<1>6. CASE EndBody(c) \/ BodyReset(c)
  BY <1>6 DEF EndBody, BodyReset, Return, Quiet
<1>. QED
  BY <1>1, <1>2, <1>3, <1>4, <1>5, <1>6 DEF ClientStep, Perform

(***************************************************************************)
(* The server's recv, and the types.                                       *)
(***************************************************************************)
Typed == ServerTypes /\ WireTypes /\ ClientTypes

\* A request is three pieces.
LEMMA TripleIs ==
    ASSUME NEW S, NEW x \in S, NEW y \in S, NEW z \in S
    PROVE  /\ <<x, y, z>> \in Seq(S) /\ Len(<<x, y, z>>) = 3
           /\ <<x, y, z>>[2] = y /\ <<x, y, z>>[3] = z
  OBVIOUS

LEMMA RequestIs ==
    ASSUME NEW p \in Paths, NEW q, q = <<"GETFILE GET", p.dir, p.name>>
    PROVE  q \in Seq(Pieces) /\ Len(q) = 3 /\ q[2] = p.dir /\ q[3] = p.name
<1>1. p.dir \in Pieces /\ p.name \in Pieces /\ "GETFILE GET" \in Pieces
  BY DEF Paths, Pieces
<1>. QED
  BY <1>1, TripleIs

\* The server reads the request of the connection it serves, or a part of it,
\* from a client that waits; or nothing, from one that is gone.
LEMMA ReceivesIs ==
    ASSUME Typed, Unanswered, NEW n \in 0..3, Receives(n)
    PROVE  /\ spc = "recv" /\ cur \in Conns /\ cur[1] \in Clients /\ down[cur] = << >>
           /\ buffer' \in Named
           /\ up' \in [Conns -> Seq(Pieces)] /\ Len(up'[cur]) <= 3
           /\ \A k \in Conns : k # cur => up'[k] = up[k]
           /\ cut' \in [Clients -> SUBSET {"request", "header"}]
           /\ \A c \in Clients : cut[c] \subseteq cut'[c]
           /\ n = 0 => buffer' = buffer /\ up[cur] = << >> /\ up'[cur] = << >> /\ ClientGone(cur)
           /\ n # 0 => /\ cur = Cur(cur[1]) /\ cpc[cur[1]] = "reply"
                       /\ path[cur[1]] \in Paths
           /\ n \in {1, 2} => "request" \in cut'[cur[1]] /\ up'[cur] # << >>
           /\ n = 3 => buffer' = path[cur[1]]
<1>. USE DEF Typed
<1>1. spc = "recv" /\ cur \in Conns /\ cur[1] \in Clients
  BY ConnIs DEF Receives, ServerTypes
<1>2. /\ down[cur] = << >>
      /\ up[cur] # << >> =>
            cur = Cur(cur[1]) /\ cpc[cur[1]] = "reply" /\ up[cur] = Request(cur[1])
  BY <1>1 DEF Unanswered, Waiting
<1>3. /\ up[cur] \in Seq(Pieces) /\ Len(up[cur]) <= 3 /\ n \in 0..Len(up[cur])
      /\ up' = [up EXCEPT ![cur] = SubSeq(up[cur], n + 1, Len(up[cur]))]
      /\ n = 0 => up[cur] = << >> /\ ClientGone(cur)
      /\ buffer' = Filled(n)
  BY <1>1, RangeIs DEF Receives, Arrivals, WireTypes
<1>4. /\ SubSeq(up[cur], n + 1, Len(up[cur])) \in Seq(Pieces)
      /\ Len(SubSeq(up[cur], n + 1, Len(up[cur]))) = Len(up[cur]) - n
  <2>1. PICK s \in Seq(Pieces) : s = up[cur]
    BY <1>3
  <2>2. n \in 0..Len(s)
    BY <1>3, <2>1
  <2>3. /\ SubSeq(s, n + 1, Len(s)) \in Seq(Pieces)
        /\ Len(SubSeq(s, n + 1, Len(s))) = Len(s) - n
    BY <2>2, CutIs
  <2>. QED
    BY <2>1, <2>3
<1>5. up' \in [Conns -> Seq(Pieces)] /\ Len(up'[cur]) = Len(up[cur]) - n
  BY <1>1, <1>3, <1>4 DEF WireTypes
<1>6. /\ cut' \in [Clients -> SUBSET {"request", "header"}]
      /\ \A c \in Clients : cut[c] \subseteq cut'[c]
      /\ n < 3 => "request" \in cut'[cur[1]]
  BY <1>1 DEF Receives, ClientTypes
<1>7. \A k \in Conns : k # cur => up'[k] = up[k]
  BY <1>1, <1>3 DEF WireTypes
<1>8. CASE n = 0
  <2>1. buffer' = buffer
    BY <1>3, <1>8 DEF Filled, ServerTypes, Named
  <2>2. up'[cur] = << >>
    BY <1>1, <1>3, <1>5, <1>8, RangeIs DEF WireTypes
  <2>. QED
    BY <1>1, <1>2, <1>3, <1>5, <1>6, <1>7, <1>8, <2>1, <2>2 DEF ServerTypes
<1>9. CASE n # 0
  <2>1. up[cur] # << >>
    BY <1>3, <1>9, RangeIs
  <2>2. cur = Cur(cur[1]) /\ cpc[cur[1]] = "reply" /\ path[cur[1]] \in Paths
    BY <1>1, <1>2, <2>1 DEF ClientTypes
  <2>3. PICK p \in Paths : p = path[cur[1]]
    BY <2>2
  <2>4. up[cur] = <<"GETFILE GET", p.dir, p.name>>
    BY <1>2, <2>1, <2>3 DEF Request
  <2>a. p.dir \in Dirs /\ p.name \in Names /\ p = [dir |-> p.dir, name |-> p.name]
    BY DEF Paths
  <2>5. /\ up[cur][2] = p.dir /\ up[cur][3] = p.name /\ Len(up[cur]) = 3
    BY <2>4, RequestIs
  <2>6. buffer' = [dir  |-> IF n >= 2 THEN p.dir ELSE buffer.dir,
                   name |-> IF n >= 3 THEN p.name ELSE buffer.name]
    BY <1>3, <2>5 DEF Filled
  <2>7. buffer.dir \in Dirs \cup {Junk} /\ buffer.name \in Names \cup {Junk}
    BY DEF ServerTypes, Named
  <2>8. buffer' \in Named /\ (n = 3 => buffer' = p)
    BY <2>a, <2>6, <2>7 DEF Named
  <2>9. n \in {1, 2} => "request" \in cut'[cur[1]] /\ up'[cur] # << >>
    <3>1. n \in {1, 2} => Len(up'[cur]) # 0 /\ n < 3
      BY <1>5, <2>5
    <3>2. Len(<< >>) = 0
      BY EmptyIs
    <3>. QED
      BY <1>6, <3>1, <3>2
  <2>10. Len(up'[cur]) <= 3 /\ up' \in [Conns -> Seq(Pieces)]
    BY <1>5, <2>5
  <2>. QED
    BY <1>1, <1>2, <1>6, <1>7, <1>9, <2>2, <2>3, <2>8, <2>9, <2>10
<1>. QED
  BY <1>8, <1>9

\* One gfs_send: the three cells of the header, or some of the file.
LEMMA PieceIs ==
    ASSUME Typed, Sending, spc = "send", out # << >>
    PROVE  /\ Piece \in 1..Len(out) /\ Len(out) \in Nat /\ buffer \in Named
           /\ Len(out) = Length(buffer) + 3 => Piece = 3
           /\ Head(out).kind = "data" <=> Len(out) <= Length(buffer)
<1>1. /\ out \in Seq(Cells) /\ Len(out) \in Nat /\ Len(out) # 0 /\ Head(out) = out[1] /\ buffer \in Named
  BY RangeIs, TailIs DEF Typed, ServerTypes
<1>2. /\ Length(buffer) \in Nat /\ Response(buffer)[1].kind \in {"OK", "FILE_NOT_FOUND"}
      /\ \A i \in 1..Length(buffer) : Response(buffer)[i + 3] = Cell("data", buffer, i)
  BY <1>1, LengthIs, ResponseIs
<1>3. Head(out) = Response(buffer)[Length(buffer) + 3 - Len(out) + 1]
  BY <1>1 DEF Sending
<1>4. CASE Len(out) = Length(buffer) + 3
  <2>1. Head(out) = Response(buffer)[1]
    BY <1>1, <1>2, <1>3, <1>4
  <2>. QED
    BY <1>1, <1>2, <1>4, <2>1 DEF Piece
<1>5. CASE Len(out) <= Length(buffer)
  <2>1. Length(buffer) - Len(out) + 1 \in 1..Length(buffer)
    BY <1>1, <1>2, <1>5
  <2>2. PICK i \in 1..Length(buffer) : i = Length(buffer) - Len(out) + 1
    BY <2>1
  <2>3. Head(out) = Response(buffer)[i + 3]
    <3>1. Length(buffer) + 3 - Len(out) + 1 = i + 3
      BY <1>1, <1>2, <2>2
    <3>. QED
      BY <1>3, <3>1
  <2>4. Head(out).kind = "data"
    <3>1. Head(out) = Cell("data", buffer, i)
      BY <1>2, <2>3
    <3>. QED
      BY <3>1 DEF Cell
  <2>. QED
    BY <1>1, <1>2, <1>5, <2>4, GetFileAssumption DEF Piece
<1>. QED
  BY <1>4, <1>5 DEF Sending

\* The server keeps the types.
LEMMA ServerKeepsTypes ==
    ASSUME Typed, Unanswered, Sending, ServerStep
    PROVE  Typed'
<1>. USE DEF Typed
<1>0. UNCHANGED <<client, hungup>>
  BY ServerFrame
<1>1. CASE Start
  BY <1>1, GetFileAssumption DEF Start, ServerTypes, WireTypes, ClientTypes, client
<1>2. CASE Accept
  <2>1. /\ backlog \in Seq(Conns) /\ backlog # << >> /\ Head(backlog) \in Conns
        /\ Tail(backlog) \in Seq(Conns) /\ Len(Tail(backlog)) = Len(backlog) - 1
    BY <1>2, TailIs, HeadTailProperties DEF Accept, WireTypes
  <2>2. ServerTypes'
    BY <1>2, <2>1, GetFileAssumption DEF Accept, CanAccept, ServerTypes
  <2>3. WireTypes'
    <3>1. Len(Tail(backlog)) <= MaxPending + 1
      BY <2>1, GetFileAssumption DEF WireTypes
    <3>. QED
      BY <1>2, <2>1, <3>1 DEF Accept, WireTypes
  <2>4. ClientTypes'
    BY <1>2 DEF Accept, ClientTypes, client
  <2>. QED
    BY <2>2, <2>3, <2>4
<1>3. ASSUME NEW n \in 0..3, DieOfRequest(n) \/ RefuseRequest(n) \/ HandleRequest(n)
      PROVE  Typed'
  <2>0. Receives(n) /\ UNCHANGED <<leaked, client, backlog, hungup>>
    BY <1>3 DEF DieOfRequest, RefuseRequest, HandleRequest, Receives
  <2>1. /\ spc = "recv" /\ cur \in Conns /\ down[cur] = << >> /\ buffer' \in Named
        /\ up' \in [Conns -> Seq(Pieces)] /\ \A k \in Conns : Len(up'[k]) <= 3
        /\ cut' \in [Clients -> SUBSET {"request", "header"}]
    BY <2>0, ReceivesIs DEF WireTypes
  <2>2. ClientTypes'
    BY <2>0, <2>1 DEF ClientTypes, client
  <2>3. CASE DieOfRequest(n)
    BY <2>0, <2>1, <2>2, <2>3, GetFileAssumption DEF DieOfRequest, ServerTypes, WireTypes
  <2>4. CASE RefuseRequest(n)
    <3>1. PICK m : m = Cell("INVALID", buffer', 0)
      OBVIOUS
    <3>2. m \in Cells
      BY <2>1, <3>1 DEF Cell, Cells, Kinds, Numbers
    <3>3. Append(down[cur], m) \in Seq(Cells) /\ Len(Append(down[cur], m)) = 1
      BY <2>1, <3>2, EmptyIs, AppendIs
    <3>4. /\ down' = [down EXCEPT ![cur] = Append(down[cur], m)]
          /\ closed' = closed \cup {cur} /\ spc' = "accept" /\ cur' = None /\ out' = out
      BY <2>4, <3>1 DEF RefuseRequest
    <3>5. ServerTypes'
      BY <2>0, <2>1, <3>4, GetFileAssumption DEF ServerTypes
    <3>6. WireTypes'
      BY <2>0, <2>1, <3>3, <3>4, GetFileAssumption DEF WireTypes
    <3>. QED
      BY <2>2, <3>5, <3>6
  <2>5. CASE HandleRequest(n)
    <3>1. out' = Response(buffer') /\ spc' = "send" /\ UNCHANGED <<cur, down, closed>>
      BY <2>5 DEF HandleRequest
    <3>2. out' \in Seq(Cells)
      BY <2>1, <3>1, ResponseIs
    <3>. QED
      BY <2>0, <2>1, <2>2, <3>1, <3>2, GetFileAssumption DEF ServerTypes, WireTypes
  <2>. QED
    BY <1>3, <2>3, <2>4, <2>5
<1>4. CASE Send
  <2>1. /\ spc = "send" /\ cur \in Conns /\ out # << >> /\ out \in Seq(Cells) /\ down[cur] \in Seq(Cells)
        /\ out' = SubSeq(out, Piece + 1, Len(out))
    BY <1>4 DEF Send, ServerTypes, WireTypes
  <2>2. PICK m \in 1..Len(out) : m = Piece
    BY <2>1, PieceIs
  <2>3. PICK s : s = SubSeq(out, 1, m)
    OBVIOUS
  <2>a. m \in 0..Len(out)
    BY <2>1, <2>2, RangeIs
  <2>b. /\ SubSeq(out, 1, m) \in Seq(Cells) /\ Len(SubSeq(out, 1, m)) = m
        /\ SubSeq(out, m + 1, Len(out)) \in Seq(Cells)
    BY <2>1, <2>a, CutIs
  <2>4. out' \in Seq(Cells) /\ s \in Seq(Cells) /\ Len(s) = m
    BY <2>1, <2>2, <2>3, <2>b
  <2>5. down[cur] \o s \in Seq(Cells) /\ Len(down[cur] \o s) = Len(down[cur]) + m
    <3>1. PICK t \in Seq(Cells) : t = down[cur]
      BY <2>1
    <3>2. t \o s \in Seq(Cells) /\ Len(t \o s) = Len(t) + Len(s)
      BY <2>4, JoinIs
    <3>. QED
      BY <2>4, <3>1, <3>2
  <2>6. \/ UNCHANGED down
        \/ Len(down[cur]) + m <= Window /\ down' = [down EXCEPT ![cur] = down[cur] \o s]
    BY <1>4, <2>2, <2>3 DEF Send
  <2>7. WireTypes'
    BY <1>4, <2>1, <2>5, <2>6 DEF Send, WireTypes
  <2>8. ServerTypes' /\ ClientTypes'
    BY <1>4, <2>4 DEF Send, ServerTypes, ClientTypes, client
  <2>. QED
    BY <2>7, <2>8
<1>6. CASE RecvFails
  BY <1>6 DEF RecvFails, ServerTypes, WireTypes, ClientTypes, client
<1>5. CASE SendFails \/ ReadFails \/ HandlerReturns
  <2>1. /\ UNCHANGED <<buffer, client, backlog, up, down, hungup, cut>> /\ spc = "send" /\ cur \in Conns
        /\ closed' \subseteq Conns
    BY <1>5 DEF SendFails, ReadFails, HandlerReturns, Abort, ServerTypes, WireTypes
  <2>2. out' \in Seq(Cells)
    BY <1>5, EmptyIs DEF SendFails, ReadFails, HandlerReturns, Abort, ServerTypes
  <2>3. ServerTypes'
    BY <1>5, <2>1, <2>2, GetFileAssumption DEF SendFails, ReadFails, HandlerReturns, Abort, ServerTypes
  <2>4. WireTypes' /\ ClientTypes'
    BY <2>1 DEF WireTypes, ClientTypes, client
  <2>. QED
    BY <2>3, <2>4
<1>. QED
  BY <1>1, <1>2, <1>3, <1>4, <1>5, <1>6 DEF ServerStep, ReadRequest

\* What a client reads is taken from its connection, and typed.
LEMMA ReadIs ==
    ASSUME WireTypes, NEW k \in Conns, NEW n \in Nat, n <= Len(down[k]),
           down' = [down EXCEPT ![k] = SubSeq(@, n + 1, Len(@))]
    PROVE  /\ down[k] \in Seq(Cells) /\ n \in 0..Len(down[k])
           /\ down' \in [Conns -> Seq(Cells)] /\ Len(down'[k]) = Len(down[k]) - n
           /\ \A i \in 1..Len(down[k]) - n : down'[k][i] = down[k][n + i]
           /\ \A j \in Conns : Len(down'[j]) <= Window
<1>1. PICK s \in Seq(Cells) : s = down[k]
  BY DEF WireTypes
<1>2. Len(s) \in Nat /\ n \in 0..Len(s) /\ Len(s) <= Window
  BY <1>1, RangeIs DEF WireTypes
<1>3. PICK t \in Seq(Cells) : t = SubSeq(s, n + 1, Len(s))
  BY <1>2, CutIs
<1>4. Len(t) = Len(s) - n /\ \A i \in 1..Len(s) - n : t[i] = s[n + i]
  BY <1>2, <1>3, CutIs
<1>5. down' = [down EXCEPT ![k] = t]
  BY <1>1, <1>3
<1>6. \A j \in Conns : Len(down'[j]) <= Window
  BY <1>2, <1>4, <1>5, GetFileAssumption DEF WireTypes
<1>. QED
  BY <1>1, <1>2, <1>4, <1>5, <1>6 DEF WireTypes

\* An index past the first a of the a + n first is a plus an index of n.
LEMMA Behind ==
    ASSUME NEW a \in Nat, NEW n \in Nat, NEW l \in Nat, n <= l,
           NEW i \in 1..a + n, i \notin 1..a
    PROVE  i - a \in 1..n /\ i - a \in 1..l /\ a + (i - a) = i
  OBVIOUS

\* Part of what it could read, from the fourth cell or from the first.
LEMMA PartIs ==
    ASSUME NEW s \in Seq(Cells), NEW m \in {1, 4}, NEW n \in Nat, n <= Len(s)
    PROVE  /\ SubSeq(s, m, n) \in Seq(Cells)
           /\ n + 1 >= m => Len(SubSeq(s, m, n)) = n + 1 - m
           /\ n + 1 >= m => \A i \in 1..n + 1 - m : SubSeq(s, m, n)[i] = s[i + m - 1]
<1>1. Len(s) \in Nat /\ \A i \in 1..Len(s) : s[i] \in Cells
  BY RangeIs
<1>2. \A i \in m..n : s[i] \in Cells
  BY <1>1
<1>3. /\ SubSeq(s, m, n) \in Seq(Cells)
      /\ Len(SubSeq(s, m, n)) = IF m <= n THEN n - m + 1 ELSE 0
      /\ \A i \in 1..n - m + 1 : SubSeq(s, m, n)[i] = s[m + i - 1]
  BY <1>2, SubSeqProperties
<1>4. n - m + 1 = n + 1 - m /\ \A i \in 1..n + 1 - m : m + i - 1 = i + m - 1
  OBVIOUS
<1>. QED
  BY <1>3, <1>4

\* A request that ends, one way or another, leaves a client typed.
LEMMA ReturnTypes ==
    ASSUME ClientTypes, NEW c \in Clients, NEW s \in {"unset", "OK", "ERROR", "INVALID"},
           NEW len \in Numbers, NEW w \in Seq(Cells), NEW r \in {"ok", "fail"},
           Return(c, s, len, w, r), cut' \in [Clients -> SUBSET {"request", "header"}],
           cpc[c] # "idle"
    PROVE  ClientTypes'
<1>1. /\ turn' \in [Clients -> Nat] /\ \A d \in Clients : turn'[d] \in 1..Requests[d]
  <2>1. Requests[c] \in Nat /\ turn[c] \in Nat /\ turn[c] \in 1..Requests[c]
    BY GetFileAssumption DEF ClientTypes
  <2>2. PICK m \in 1..Requests[c] : turn' = [turn EXCEPT ![c] = m]
    <3>1. CASE turn[c] = Requests[c]
      BY <2>1, <3>1 DEF Return
    <3>2. CASE turn[c] # Requests[c]
      <4>1. turn[c] + 1 \in 1..Requests[c]
        BY <2>1, <3>2
      <4>. QED
        BY <3>2, <4>1 DEF Return
    <3>. QED
      BY <3>1, <3>2
  <2>3. m \in Nat
    BY <2>1
  <2>. QED
    BY <2>2, <2>3 DEF ClientTypes
<1>2. /\ cpc' \in [Clients -> {"idle", "connect", "header", "reply", "body", "done", "crashed"}]
      /\ path' = path /\ \A d \in Clients : cpc'[d] # "idle" => cpc[d] # "idle"
  BY DEF ClientTypes, Return
<1>. QED
  BY <1>1, <1>2 DEF ClientTypes, Return

\* A process that dies too.
LEMMA CrashTypes ==
    ASSUME ClientTypes, NEW c \in Clients, cpc' = [cpc EXCEPT ![c] = "crashed"], cpc[c] # "idle",
           UNCHANGED <<turn, path, status, filelen, written, ret>>,
           cut' \in [Clients -> SUBSET {"request", "header"}]
    PROVE  ClientTypes'
  BY DEF ClientTypes

\* A client keeps the types.
LEMMA ClientKeepsTypes ==
    ASSUME Typed, NEW c \in Clients, Unread(c), ClientStep(c)
    PROVE  Typed'
<1>. USE DEF Typed
<1>0. UNCHANGED <<server, closed>> /\ Cur(c) \in Conns /\ 0 \in Numbers /\ << >> \in Seq(Cells)
  BY ClientFrame, CurIs, EmptyIs DEF Numbers
<1>1. ServerTypes'
  BY <1>0 DEF server, ServerTypes
<1>2. hungup' \subseteq Conns
  BY <1>0, ClientFrame DEF WireTypes
<1>3. CASE Begin(c)
  <2>1. WireTypes'
    BY <1>3 DEF Begin, WireTypes, server
  <2>2. ClientTypes'
    <3>1. PICK p \in Paths : path' = [path EXCEPT ![c] = p]
      BY <1>3, GetFileAssumption DEF Begin
    <3>. QED
      BY <1>0, <1>3, <3>1 DEF Begin, ClientTypes
  <2>. QED
    BY <1>1, <2>1, <2>2
<1>4. CASE Connect(c)
  <2>1. Append(backlog, Cur(c)) \in Seq(Conns) /\ Len(Append(backlog, Cur(c))) = Len(backlog) + 1
    BY <1>0, AppendIs DEF WireTypes
  <2>2. WireTypes'
    BY <1>4, <2>1, RangeIs, GetFileAssumption DEF Connect, WireTypes
  <2>3. ClientTypes'
    BY <1>4 DEF Connect, ClientTypes
  <2>. QED
    BY <1>1, <2>2, <2>3
<1>5. CASE HeaderFuncUnset(c)
  BY <1>1, <1>5 DEF HeaderFuncUnset, WireTypes, ClientTypes
<1>6. CASE SendRequest(c)
  <2>1. PICK p \in Paths : p = path[c]
    BY <1>6 DEF SendRequest, ClientTypes
  <2>2. PICK q : q = <<"GETFILE GET", p.dir, p.name>>
    OBVIOUS
  <2>3. q \in Seq(Pieces) /\ Len(q) = 3 /\ up' = [up EXCEPT ![Cur(c)] = q]
    <3>1. q \in Seq(Pieces) /\ Len(q) = 3
      BY <2>2, RequestIs
    <3>2. up' = [up EXCEPT ![Cur(c)] = q]
      BY <1>6, <2>1, <2>2 DEF SendRequest, Request
    <3>. QED
      BY <3>1, <3>2
  <2>4. WireTypes'
    <3>1. UNCHANGED <<backlog, down, closed, hungup>>
      BY <1>6 DEF SendRequest
    <3>2. up' \in [Conns -> Seq(Pieces)]
      BY <2>3 DEF WireTypes
    <3>3. ASSUME NEW k \in Conns
          PROVE  Len(up'[k]) <= 3
      <4>1. up'[k] = q \/ up'[k] = up[k]
        BY <2>3 DEF WireTypes
      <4>2. Len(q) <= 3 /\ Len(up[k]) <= 3
        BY <2>3 DEF WireTypes
      <4>. QED
        BY <4>1, <4>2
    <3>. QED
      BY <3>1, <3>2, <3>3 DEF WireTypes
  <2>5. ClientTypes'
    BY <1>6 DEF SendRequest, ClientTypes
  <2>. QED
    BY <1>1, <2>4, <2>5
<1>7. CASE RequestFails(c)
  <2>1. WireTypes' /\ UNCHANGED cut
    BY <1>7 DEF RequestFails, Quiet, WireTypes
  <2>2. ClientTypes'
    BY <1>0, <1>7, <2>1, ReturnTypes, CrashTypes DEF RequestFails, ClientTypes
  <2>. QED
    BY <1>1, <2>1, <2>2
<1>8. CASE NoReply(c)
  <2>1. WireTypes' /\ UNCHANGED cut
    BY <1>8 DEF NoReply, Quiet, WireTypes
  <2>2. ClientTypes'
    <3>1. PICK s \in {"INVALID", "unset"} : Return(c, s, 0, << >>, "fail")
      BY <1>8 DEF NoReply
    <3>. QED
      <4>1. cpc[c] # "idle" /\ cut' \in [Clients -> SUBSET {"request", "header"}]
        BY <1>8, <2>1 DEF NoReply, ClientTypes
      <4>2. s \in {"unset", "OK", "ERROR", "INVALID"} /\ "fail" \in {"ok", "fail"}
        OBVIOUS
      <4>. QED
        BY <1>0, <3>1, <4>1, <4>2, ReturnTypes
  <2>. QED
    BY <1>1, <2>1, <2>2
<1>9. ASSUME NEW n \in 1..RecvBuf,
             ParseInvalid(c, n) \/ ParseTorn(c, n) \/ ParseShort(c, n) \/ ParseLong(c, n)
      PROVE  Typed'
  <2>1. FirstRecv(c, n) /\ cpc[c] = "reply"
    BY <1>9 DEF ParseInvalid, ParseTorn, ParseShort, ParseLong, FirstRecv
  <2>2. n \in Nat /\ n <= Len(down[Cur(c)]) /\ down' = [down EXCEPT ![Cur(c)] = SubSeq(@, n + 1, Len(@))]
    BY <2>1, GetFileAssumption DEF FirstRecv
  <2>3. WireTypes'
    BY <1>0, <2>1, <2>2, ReadIs DEF FirstRecv, Quiet, WireTypes
  <2>4. cut' \in [Clients -> SUBSET {"request", "header"}]
    BY <2>1 DEF FirstRecv, ClientTypes
  <2>5. PICK s \in Seq(Cells) : s = down[Cur(c)]
    BY <1>0 DEF WireTypes
  <2>6. n >= 2 => s[2].n \in Numbers
    <3>1. n >= 2 => s[2] \in Cells
      BY <2>2, <2>5, RangeIs
    <3>. QED
      BY <3>1 DEF Cells
  <2>7. SubSeq(s, 4, n) \in Seq(Cells)
    BY <2>2, <2>5, PartIs
  <2>8. <<Cell("data", None, 0)>> \in Seq(Cells)
    BY <1>0 DEF Cell, Cells, Kinds
  <2>9. CASE ParseInvalid(c, n)
    <3>1. ClientTypes'
      BY <1>0, <2>1, <2>4, <2>9, ReturnTypes DEF ParseInvalid
    <3>. QED
      BY <1>1, <2>3, <3>1
  <2>10. CASE ParseTorn(c, n)
    <3>1. ClientTypes'
      <4>1. CASE cpc' = [cpc EXCEPT ![c] = "crashed"] /\ UNCHANGED <<turn, path, status, filelen, written, ret>>
        BY <2>1, <2>4, <4>1, CrashTypes
      <4>2. ASSUME NEW len \in Numbers, NEW r \in {"ok", "fail"},
                   Return(c, "OK", len, <<Cell("data", None, 0)>>, r)
            PROVE  ClientTypes'
        BY <2>1, <2>4, <2>8, <4>2, ReturnTypes
      <4>3. n = 2 /\ s[2].n \in Numbers
        BY <2>6, <2>10 DEF ParseTorn
      <4>. QED
        BY <2>5, <2>10, <4>1, <4>2, <4>3 DEF ParseTorn
    <3>. QED
      BY <1>1, <2>3, <3>1
  <2>11. CASE ParseShort(c, n)
    <3>1. ClientTypes'
      <4>1. ASSUME NEW len \in Numbers, NEW w \in Seq(Cells), NEW r \in {"ok", "fail"},
                   Return(c, "OK", len, w, r)
            PROVE  ClientTypes'
        BY <2>1, <2>4, <4>1, ReturnTypes
      <4>2. n >= 3 /\ s[2].n \in Numbers
        BY <2>2, <2>6, <2>11 DEF ParseShort
      <4>. QED
        BY <1>0, <2>5, <2>7, <2>11, <4>1, <4>2 DEF ParseShort
    <3>. QED
      BY <1>1, <2>3, <3>1
  <2>12. CASE ParseLong(c, n)
    <3>1. ClientTypes'
      BY <2>1, <2>4, <2>5, <2>6, <2>7, <2>12 DEF ParseLong, ClientTypes
    <3>. QED
      BY <1>1, <2>3, <3>1
  <2>. QED
    BY <1>9, <2>9, <2>10, <2>11, <2>12
<1>10. CASE RecvBody(c)
  <2>1. PICK n \in 1..RecvBuf :
           /\ n <= Len(down[Cur(c)])
           /\ written' = [written EXCEPT ![c] = @ \o SubSeq(down[Cur(c)], 1, n)]
           /\ down' = [down EXCEPT ![Cur(c)] = SubSeq(@, n + 1, Len(@))]
    BY <1>10 DEF RecvBody
  <2>2. n \in Nat
    BY GetFileAssumption
  <2>3. WireTypes'
    BY <1>0, <1>10, <2>1, <2>2, ReadIs DEF RecvBody, Quiet, WireTypes
  <2>4. PICK s \in Seq(Cells) : s = down[Cur(c)]
    BY <1>0 DEF WireTypes
  <2>5. PICK t \in Seq(Cells) : t = SubSeq(s, 1, n)
    BY <2>1, <2>2, <2>4, PartIs
  <2>6. PICK u \in Seq(Cells) : u = written[c]
    BY DEF ClientTypes
  <2>7. u \o t \in Seq(Cells)
    BY JoinIs
  <2>8. ClientTypes'
    BY <1>10, <2>1, <2>4, <2>5, <2>6, <2>7 DEF RecvBody, ClientTypes
  <2>. QED
    BY <1>1, <2>3, <2>8
<1>11. CASE EndBody(c) \/ BodyReset(c)
  <2>1. WireTypes' /\ UNCHANGED cut /\ cpc[c] = "body"
    BY <1>2, <1>11 DEF EndBody, BodyReset, Quiet, WireTypes
  <2>2. written[c] \in Seq(Cells) /\ filelen[c] \in Numbers
    BY DEF ClientTypes
  <2>3. ClientTypes'
    BY <1>11, <2>1, <2>2, ReturnTypes DEF EndBody, BodyReset, ClientTypes
  <2>. QED
    BY <1>1, <2>1, <2>3
<1>. QED
  BY <1>3, <1>4, <1>5, <1>6, <1>7, <1>8, <1>9, <1>10, <1>11 DEF ClientStep, Perform

(***************************************************************************)
(* Where the connections are.                                              *)
(***************************************************************************)
\* The server takes them from the queue and answers each once.
LEMMA ServerPlaces ==
    ASSUME Typed, Placed, Sending, ServerStep, Typed'
    PROVE  Placed'
<1>. USE DEF Typed
<1>0. UNCHANGED <<client, hungup>> /\ \A k \in Conns : Used(k)' <=> Used(k)
  BY ServerFrame DEF client, Used
<1>a. \A c \in Clients : Cur(c)' = Cur(c) /\ Request(c)' = Request(c) /\ Cur(c) \in Conns
  BY <1>0, CurIs DEF client, Cur, Request
<1>b. \A k \in Conns : k[1] \in Clients
  BY ConnIs
<1>c. ASSUME UNCHANGED <<backlog, up, down, closed>>, cur' \in {cur, None}, ~(spc' = "recv" /\ cur' = cur),
             ~(spc' = "send" /\ cur' = cur /\ spc # "send"), spc # "dead"
      PROVE  Placed'
  <2>1. \A k \in Conns : (Waiting(k)' => Waiting(k)) /\ (Serves(k)' => Serves(k)) /\ k # None
    BY <1>c, GetFileAssumption DEF Waiting, Serves
  <2>2. Unused' /\ InLine'
    BY <1>0, <1>c, <2>1, RangeIs DEF Placed, Unused, InLine, WireTypes
  <2>3. Unanswered'
    BY <1>0, <1>a, <1>b, <1>c, <2>1 DEF Placed, Unanswered, client
  <2>4. \A c \in Clients : Unread(c)'
    BY <1>0, <1>a, <1>c, <2>1 DEF Placed, Unread, client
  <2>. QED
    BY <2>2, <2>3, <2>4 DEF Placed
<1>d. None \notin Range(backlog)
  BY RangeIs, GetFileAssumption DEF WireTypes
<1>1. CASE Start \/ HandlerReturns \/ RecvFails
  BY <1>1, <1>c DEF Start, HandlerReturns, RecvFails, ServerTypes
<1>2. CASE Accept
  <2>1. /\ backlog \in Seq(Conns) /\ Head(backlog) \in Range(backlog) /\ Head(backlog) \in Conns
        /\ Range(Tail(backlog)) \subseteq Range(backlog) /\ IsInjective(Tail(backlog))
        /\ Head(backlog) \notin Range(Tail(backlog))
    BY <1>2, TailIs DEF Accept, WireTypes, Placed, InLine
  <2>2. /\ cur' = Head(backlog) /\ backlog' = Tail(backlog) /\ spc = "accept" /\ spc' = "recv"
        /\ UNCHANGED <<up, down, closed>>
    BY <1>2 DEF Accept
  <2>3. \A k \in Conns : (Waiting(k)' => Waiting(k)) /\ ~Serves(k)'
    BY <2>1, <2>2 DEF Waiting, Serves
  <2>4. Unused' /\ InLine'
    BY <1>0, <2>1, <2>2 DEF Placed, Unused, InLine
  <2>5. Unanswered'
    BY <1>0, <1>a, <1>b, <2>2, <2>3 DEF Placed, Unanswered, client
  <2>6. \A c \in Clients : Unread(c)'
    BY <1>0, <1>a, <2>2, <2>3 DEF Placed, Unread, client
  <2>. QED
    BY <2>4, <2>5, <2>6 DEF Placed
<1>3. ASSUME NEW n \in 0..3, DieOfRequest(n) \/ RefuseRequest(n) \/ HandleRequest(n)
      PROVE  Placed'
  <2>0. Receives(n) /\ UNCHANGED backlog
    BY <1>3 DEF DieOfRequest, RefuseRequest, HandleRequest, Receives
  <2>1. /\ spc = "recv" /\ cur \in Conns /\ down[cur] = << >>
        /\ \A k \in Conns : k # cur => up'[k] = up[k]
        /\ n = 0 => up[cur] = << >> /\ up'[cur] = << >> /\ ClientGone(cur)
        /\ n # 0 => cur = Cur(cur[1]) /\ cpc[cur[1]] = "reply"
    BY <2>0, ReceivesIs DEF Placed
  <2>2. /\ spc' # "recv" /\ spc' # "start" /\ cur' \in {cur, None}
        /\ \A k \in Conns : k # cur => down'[k] = down[k] /\ (k \in closed' => k \in closed)
        /\ spc' # "dead" \/ (spc' = "dead" /\ UNCHANGED <<down, closed, cur>>)
        /\ spc' = "send" => UNCHANGED <<down, closed, cur>>
        /\ down' = down \/ spc' = "accept"
    BY <1>3, <2>1 DEF DieOfRequest, RefuseRequest, HandleRequest, WireTypes
  <2>3. cur \notin Range(backlog) /\ Used(cur) /\ cur # None
    BY <2>1, GetFileAssumption DEF Placed, InLine, Unused
  <2>4. \A k \in Conns : Waiting(k)' => Waiting(k) /\ k # cur
    BY <2>0, <2>2, <2>3 DEF Waiting
  <2>5. Unused' /\ InLine'
    <3>1. ASSUME NEW k \in Conns, ~Used(k)'
          PROVE  /\ k \notin Range(backlog)' /\ k # cur' /\ up'[k] = << >> /\ down'[k] = << >>
                 /\ k \notin closed' /\ k \notin hungup'
      <4>1. /\ k # cur /\ k # None /\ k \notin Range(backlog) /\ up[k] = << >> /\ down[k] = << >>
            /\ k \notin closed /\ k \notin hungup
        BY <1>0, <3>1, GetFileAssumption DEF Placed, Unused
      <4>. QED
        BY <1>0, <2>0, <2>1, <2>2, <2>3, <4>1
    <3>2. InLine'
      BY <1>d, <1>0, <2>0, <2>1, <2>2, <2>3 DEF Placed, InLine
    <3>. QED
      BY <3>1, <3>2 DEF Unused
  <2>6. Unanswered'
    BY <1>0, <1>a, <1>b, <2>1, <2>2, <2>4 DEF Placed, Unanswered, client
  <2>7. \A c \in Clients : Unread(c)'
    <3>. SUFFICES ASSUME NEW c \in Clients PROVE Unread(c)'
      OBVIOUS
    <3>1. cpc[c] = "header" => cur # Cur(c)
      BY <1>b, <2>1, CurIs DEF Placed, Unread, ClientGone
    <3>2. Serves(Cur(c))' => cur = Cur(c)
      BY <1>a, <2>2, <2>3, GetFileAssumption DEF Serves
    <3>. QED
      BY <1>0, <1>a, <2>1, <2>2, <3>1, <3>2 DEF Placed, Unread, client
  <2>. QED
    BY <2>5, <2>6, <2>7 DEF Placed
<1>4. CASE Send \/ SendFails \/ ReadFails
  <2>1. /\ spc = "send" /\ cur \in Conns /\ UNCHANGED <<backlog, up>>
        /\ cur' \in {cur, None} /\ spc' \in {"send", "accept", "dead"}
        /\ \A k \in Conns : k # cur => down'[k] = down[k] /\ (k \in closed' => k \in closed)
    BY <1>4 DEF Send, SendFails, ReadFails, Abort, ServerTypes, WireTypes
  <2>2. cur \notin Range(backlog) /\ Used(cur) /\ cur # None
    BY <2>1, GetFileAssumption DEF Placed, InLine, Unused
  <2>3. \A k \in Conns : (Waiting(k)' => Waiting(k) /\ k # cur) /\ (Serves(k)' => Serves(k))
    BY <2>1, <2>2, GetFileAssumption DEF Waiting, Serves
  <2>4. Unused' /\ InLine'
    <3>1. ASSUME NEW k \in Conns, ~Used(k)'
          PROVE  /\ k \notin Range(backlog)' /\ k # cur' /\ up'[k] = << >> /\ down'[k] = << >>
                 /\ k \notin closed' /\ k \notin hungup'
      <4>1. /\ k # cur /\ k # None /\ k \notin Range(backlog) /\ up[k] = << >> /\ down[k] = << >>
            /\ k \notin closed /\ k \notin hungup
        BY <1>0, <3>1, GetFileAssumption DEF Placed, Unused
      <4>. QED
        BY <1>0, <2>1, <2>2, <4>1
    <3>2. InLine'
      BY <1>d, <1>0, <2>1, <2>2 DEF Placed, InLine
    <3>. QED
      BY <3>1, <3>2 DEF Unused
  <2>5. Unanswered'
    BY <1>0, <1>a, <1>b, <2>1, <2>3 DEF Placed, Unanswered, client
  <2>6. \A c \in Clients : Unread(c)'
    <3>. SUFFICES ASSUME NEW c \in Clients PROVE Unread(c)'
      OBVIOUS
    <3>1. cpc[c] = "header" => cur # Cur(c)
      BY <2>1 DEF Placed, Unread, Serves
    <3>. QED
      BY <1>0, <1>a, <2>1, <2>3, <3>1 DEF Placed, Unread, client
  <2>. QED
    BY <2>4, <2>5, <2>6 DEF Placed
<1>. QED
  BY <1>1, <1>2, <1>3, <1>4 DEF ServerStep, ReadRequest

\* How a client moves: it begins, it connects, it goes on with its request, or it
\* ends it; and it ends only one that was answered or that cannot be.
Goes(c) ==
    /\ turn' = turn /\ path' = path /\ cpc[c] \in {"header", "reply", "body"}
    /\ cpc'[c] \in {"reply", "body", "done", "crashed"}
Ends(c) ==
    /\ turn'[c] = turn[c] + 1 /\ path' = path /\ cpc[c] \in {"header", "reply", "body"}
    /\ cpc'[c] = "idle"
LEMMA ClientMoves ==
    ASSUME Typed, NEW c \in Clients, ClientStep(c)
    PROVE  /\ \/ Begin(c) /\ cpc'[c] = "connect"
              \/ Connect(c) /\ cpc'[c] = "header"
              \/ Goes(c) \/ Ends(c)
           /\ cpc[c] = "reply" => down[Cur(c)] # << >> \/ ServerGone(Cur(c))
           /\ cpc[c] = "header" \/ down[Cur(c)] = << >> => down' = down
           /\ cpc'[c] \in {"reply", "body"} => hungup' = hungup
           /\ \/ up' = up /\ cpc'[c] # "reply"
              \/ /\ cpc[c] = "header" /\ cpc'[c] = "reply" /\ turn' = turn /\ path' = path
                 /\ up' = [up EXCEPT ![Cur(c)] = Request(c)] /\ UNCHANGED <<down, cut>>
<1>. USE DEF Typed, ClientTypes
<1>0. ASSUME NEW s, NEW len, NEW w, NEW r, Return(c, s, len, w, r),
             cpc[c] \in {"header", "reply", "body"}
      PROVE  (Goes(c) \/ Ends(c)) /\ cpc'[c] # "reply"
  BY <1>0 DEF Return, Goes, Ends
<1>1. CASE Begin(c)
  BY <1>1 DEF Begin
<1>2. CASE Connect(c)
  BY <1>2 DEF Connect
<1>3. CASE HeaderFuncUnset(c)
  BY <1>3 DEF HeaderFuncUnset, Goes
<1>4. CASE SendRequest(c)
  BY <1>4 DEF SendRequest, Goes, Request
<1>5. CASE RequestFails(c)
  BY <1>0, <1>5 DEF RequestFails, Quiet, Goes
<1>6. CASE NoReply(c)
  BY <1>0, <1>6 DEF NoReply, Quiet
<1>7. ASSUME NEW n \in 1..RecvBuf,
             ParseInvalid(c, n) \/ ParseTorn(c, n) \/ ParseShort(c, n) \/ ParseLong(c, n)
      PROVE  /\ cpc[c] = "reply" /\ down[Cur(c)] # << >> /\ UNCHANGED <<up, hungup>> /\ cpc'[c] # "reply"
             /\ Goes(c) \/ Ends(c)
  <2>1. cpc[c] = "reply" /\ n <= Len(down[Cur(c)]) /\ UNCHANGED <<up, hungup>> /\ n >= 1 /\ n \in Nat
    BY <1>7, GetFileAssumption DEF ParseInvalid, ParseTorn, ParseShort, ParseLong, FirstRecv, Quiet
  <2>2. down[Cur(c)] # << >>
    BY <2>1, EmptyIs
  <2>3. CASE ParseInvalid(c, n)
    BY <1>0, <2>1, <2>2, <2>3 DEF ParseInvalid
  <2>4. CASE ParseTorn(c, n)
    BY <1>0, <2>1, <2>2, <2>4 DEF ParseTorn, Goes
  <2>5. CASE ParseShort(c, n)
    BY <1>0, <2>1, <2>2, <2>5 DEF ParseShort
  <2>6. CASE ParseLong(c, n)
    BY <2>1, <2>2, <2>6 DEF ParseLong, Goes
  <2>. QED
    BY <1>7, <2>3, <2>4, <2>5, <2>6
<1>8. CASE RecvBody(c)
  <2>1. PICK n \in 1..RecvBuf : n <= Len(down[Cur(c)])
    BY <1>8 DEF RecvBody
  <2>2. down[Cur(c)] # << >>
    BY <2>1, EmptyIs, GetFileAssumption
  <2>. QED
    BY <1>8, <2>2 DEF RecvBody, Quiet, Goes
<1>9. CASE EndBody(c)
  BY <1>0, <1>9 DEF EndBody, Quiet, Return
<1>10. CASE BodyReset(c)
  BY <1>0, <1>10 DEF BodyReset, Quiet
<1>. QED
  BY <1>1, <1>2, <1>3, <1>4, <1>5, <1>6, <1>7, <1>8, <1>9, <1>10 DEF ClientStep, Perform

\* A client makes one connection, sends one request on it, and leaves no request
\* behind that the server will still read.
LEMMA ClientPlaces ==
    ASSUME Typed, Placed, NEW c \in Clients, ClientStep(c), Typed'
    PROVE  Placed'
<1>. USE DEF Typed
<1>1. /\ UNCHANGED <<spc, cur, closed>>
      /\ \A d \in Clients : d # c => UNCHANGED <<cpc[d], turn[d], path[d]>>
      /\ \A k \in Conns : k # Cur(c) => UNCHANGED <<up[k], down[k]>>
      /\ hungup' = hungup \/ (hungup' = hungup \cup {Cur(c)} /\ cpc[c] = "body")
      /\ backlog' = backlog \/ (backlog' = Append(backlog, Cur(c)) /\ Connect(c))
  BY ClientFrame DEF server
<1>2. /\ Cur(c) \in Conns /\ Cur(c)[1] = c /\ Cur(c)[2] = turn[c] /\ turn[c] \in Nat
      /\ \A d \in Clients : d # c => Cur(d) # Cur(c) /\ Cur(d)' = Cur(d) /\ Cur(d) \in Conns
      /\ \A k \in Conns : k = Cur(c) <=> k[1] = c /\ k[2] = turn[c]
  BY <1>1, CurIs, ConnIs DEF ClientTypes, Cur
<1>3. \A k \in Conns : k[1] \in Clients /\ k[2] \in Nat
  BY ConnIs
<1>4. /\ \/ Begin(c) /\ cpc'[c] = "connect"
         \/ Connect(c) /\ cpc'[c] = "header"
         \/ Goes(c) \/ Ends(c)
      /\ cpc[c] = "reply" => down[Cur(c)] # << >> \/ ServerGone(Cur(c))
      /\ cpc[c] = "header" \/ down[Cur(c)] = << >> => down' = down
      /\ cpc'[c] \in {"reply", "body"} => hungup' = hungup
      /\ \/ up' = up /\ cpc'[c] # "reply"
         \/ /\ cpc[c] = "header" /\ cpc'[c] = "reply" /\ turn' = turn /\ path' = path
            /\ up' = [up EXCEPT ![Cur(c)] = Request(c)] /\ UNCHANGED <<down, cut>>
  BY ClientMoves
<1>5. CASE Connect(c)
  <2>1. /\ cpc[c] = "connect" /\ cpc' = [cpc EXCEPT ![c] = "header"]
        /\ backlog' = Append(backlog, Cur(c)) /\ UNCHANGED <<turn, path, up, down, hungup>>
    BY <1>5 DEF Connect
  <2>2. ~Used(Cur(c)) /\ Cur(c)' = Cur(c)
    BY <1>2, <2>1 DEF Used, Cur
  <2>3. /\ Cur(c) \notin Range(backlog) /\ Cur(c) # cur /\ up[Cur(c)] = << >> /\ down[Cur(c)] = << >>
        /\ Cur(c) \notin closed /\ Cur(c) \notin hungup
    BY <1>2, <2>2 DEF Placed, Unused
  <2>4. \A k \in Conns : ~Used(k)' => ~Used(k) /\ k # Cur(c)
    BY <1>1, <1>2, <1>3, <2>1 DEF Used, ClientTypes
  <2>5. Range(backlog') = Range(backlog) \cup {Cur(c)} /\ IsInjective(backlog')
    BY <1>2, <2>1, <2>3, AppendIs DEF WireTypes, Placed, InLine
  <2>6. Unused' /\ InLine'
    BY <1>1, <2>1, <2>3, <2>4, <2>5 DEF Placed, Unused, InLine
  <2>7. \A k \in Conns : Waiting(k)' => Waiting(k) \/ k = Cur(c)
    BY <1>1, <2>5 DEF Waiting
  <2>8. Unanswered'
    <3>1. ASSUME NEW k \in Conns, k # Cur(c), Waiting(k)'
          PROVE  /\ down'[k] = << >> /\ k \notin closed'
                 /\ spc' # "dead" /\ up'[k] # << >> =>
                       k = Cur(k[1])' /\ cpc'[k[1]] = "reply" /\ up'[k] = Request(k[1])'
      <4>1. /\ down[k] = << >> /\ k \notin closed
            /\ spc # "dead" /\ up[k] # << >> =>
                  k = Cur(k[1]) /\ cpc[k[1]] = "reply" /\ up[k] = Request(k[1])
        BY <2>7, <3>1 DEF Placed, Unanswered
      <4>. QED
        BY <1>1, <1>2, <1>3, <2>1, <4>1 DEF Request, Cur, ClientTypes
    <3>. QED
      BY <1>1, <2>1, <2>3, <3>1 DEF Unanswered
  <2>9. \A d \in Clients : Unread(d)'
    BY <1>1, <1>2, <2>1, <2>2, <2>3 DEF Placed, Unread, Serves, ClientTypes
  <2>. QED
    BY <2>6, <2>8, <2>9 DEF Placed
<1>6. CASE ~Connect(c)
  <2>1. UNCHANGED backlog /\ \A k \in Conns : (Waiting(k)' <=> Waiting(k)) /\ (Serves(k)' <=> Serves(k))
    BY <1>1, <1>6 DEF Waiting, Serves
  <2>2. \A k \in Conns : Used(k)' <=> Used(k)
    <3>. SUFFICES ASSUME NEW k \in Conns PROVE Used(k)' <=> Used(k)
      OBVIOUS
    <3>1. CASE k[1] # c
      BY <1>1, <1>3, <3>1 DEF Used
    <3>2. CASE k[1] = c /\ (Begin(c) \/ Goes(c))
      <4>1. turn' = turn /\ (cpc[c] = "idle" <=> cpc'[c] = "connect") /\ cpc[c] # "connect" /\ cpc'[c] # "idle"
        <5>1. CASE Begin(c)
          BY <5>1 DEF Begin, ClientTypes
        <5>2. CASE Goes(c)
          BY <5>2 DEF Goes
        <5>. QED
          BY <3>2, <5>1, <5>2
      <4>. QED
        BY <3>2, <4>1 DEF Used
    <3>3. CASE k[1] = c /\ Ends(c)
      <4>1. k[2] \in Nat /\ turn[c] \in Nat /\ turn'[c] = turn[c] + 1
        BY <1>2, <1>3, <3>3 DEF Ends
      <4>2. k[2] < turn[c] + 1 <=> k[2] < turn[c] \/ k[2] = turn[c]
        BY <4>1
      <4>. QED
        BY <3>3, <4>1, <4>2 DEF Used, Ends
    <3>. QED
      BY <1>4, <1>6, <3>1, <3>2, <3>3
  <2>3. cpc[c] \in {"header", "reply", "body"} \/ UNCHANGED <<up, down, hungup>>
    BY <1>4, <1>6 DEF Goes, Ends, Begin
  <2>4. Unused' /\ InLine'
    <3>1. ASSUME NEW k \in Conns, ~Used(k)'
          PROVE  /\ k \notin Range(backlog)' /\ k # cur' /\ up'[k] = << >> /\ down'[k] = << >>
                 /\ k \notin closed' /\ k \notin hungup'
      <4>1. /\ k # cur /\ k \notin Range(backlog) /\ up[k] = << >> /\ down[k] = << >>
            /\ k \notin closed /\ k \notin hungup
        BY <2>2, <3>1 DEF Placed, Unused
      <4>2. cpc[c] \in {"header", "reply", "body"} => k # Cur(c)
        BY <1>2, <2>2, <3>1 DEF Used
      <4>. QED
        BY <1>1, <2>1, <2>3, <4>1, <4>2
    <3>2. InLine'
      BY <1>1, <2>1 DEF Placed, InLine
    <3>. QED
      BY <3>1, <3>2 DEF Unused
  <2>5. Unanswered'
    <3>1. ASSUME NEW k \in Conns, Waiting(k)'
          PROVE  /\ down'[k] = << >> /\ k \notin closed'
                 /\ spc' # "dead" /\ up'[k] # << >> =>
                       k = Cur(k[1])' /\ cpc'[k[1]] = "reply" /\ up'[k] = Request(k[1])'
      <4>1. /\ down[k] = << >> /\ k \notin closed
            /\ spc # "dead" /\ up[k] # << >> =>
                  k = Cur(k[1]) /\ cpc[k[1]] = "reply" /\ up[k] = Request(k[1])
        BY <2>1, <3>1 DEF Placed, Unanswered
      <4>2. CASE k # Cur(c)
        <5>1. UNCHANGED <<up[k], down[k]>>
          BY <1>1, <4>2
        <5>2. up[k] # << >> /\ spc # "dead" => k[1] # c
          BY <4>1, <4>2
        <5>3. Request(k[1])' = Request(k[1]) \/ k[1] = c
          BY <1>1, <1>3 DEF Request
        <5>. QED
          BY <1>1, <1>2, <1>3, <4>1, <5>1, <5>2, <5>3
      <4>3. CASE k = Cur(c)
        <5>1. down' = down
          BY <1>4, <4>1, <4>3
        <5>2. CASE up' = up
          <6>1. ~(cpc[c] = "reply" /\ spc # "dead")
            BY <1>4, <4>1, <4>3 DEF ServerGone
          <6>. QED
            BY <1>1, <1>2, <4>1, <4>3, <5>1, <5>2, <6>1
        <5>3. CASE up' # up
          <6>1. Cur(c)' = Cur(c) /\ Request(c)' = Request(c) /\ up'[k] = Request(c)
            BY <1>4, <4>3, <5>3 DEF Cur, Request, WireTypes
          <6>. QED
            BY <1>1, <1>2, <1>4, <4>1, <4>3, <5>1, <5>3, <6>1
        <5>. QED
          BY <5>2, <5>3
      <4>. QED
        BY <4>2, <4>3
    <3>. QED
      BY <3>1 DEF Unanswered
  <2>6. \A d \in Clients : Unread(d)'
    <3>1. ASSUME NEW d \in Clients, d # c
          PROVE  Unread(d)'
      BY <1>1, <1>2, <2>1, <3>1 DEF Placed, Unread
    <3>2. Unread(c)'
      <4>1. cpc'[c] # "header"
        BY <1>4, <1>6 DEF Goes, Ends
      <4>2. cpc'[c] \in {"reply", "body"} => Cur(c)' = Cur(c) /\ cpc[c] \in {"header", "reply", "body"}
        BY <1>4, <1>6 DEF Goes, Ends, Cur
      <4>. QED
        BY <1>4, <4>1, <4>2 DEF Placed, Unread
    <3>. QED
      BY <3>1, <3>2
  <2>. QED
    BY <2>4, <2>5, <2>6 DEF Placed
<1>. QED
  BY <1>5, <1>6

(***************************************************************************)
(* What the handler sends and the clients have.                            *)
(***************************************************************************)
\* What a client may have asked for, in the server's eyes.
LEMMA AskedIs ==
    ASSUME ClientTypes, NEW c \in Clients, cpc[c] # "idle"
    PROVE  /\ Asked(c) \subseteq Named /\ path[c] \in Paths /\ path[c].dir \in Dirs
<1>1. PICK p \in Paths : p = path[c]
  BY DEF ClientTypes
<1>2. p.dir \in Dirs
  BY DEF Paths
<1>. QED
  BY <1>1, <1>2 DEF Asked, Named

\* A step of the server that is not about a client's connection.
LEMMA AnswersKept ==
    ASSUME Typed, NEW c \in Clients, InReply(c), InBody(c), UNCHANGED client,
           cut[c] \subseteq cut'[c], down'[Cur(c)] = down[Cur(c)],
           Waiting(Cur(c))' => Waiting(Cur(c)),
           Serves(Cur(c))' => Serves(Cur(c)) /\ UNCHANGED <<buffer, out>>,
           cpc[c] = "reply" /\ Cur(c) \in closed' => Cur(c) \in closed \/ down[Cur(c)] # << >>
    PROVE  InReply(c)' /\ InBody(c)'
<1>1. /\ Cur(c)' = Cur(c) /\ Asked(c) \subseteq Asked(c)'
      /\ UNCHANGED <<cpc, path, written, filelen>>
  BY DEF client, Cur, Asked
<1>2. ASSUME NEW p, Told(c, p)
      PROVE  Told(c, p)'
  BY <1>1, <1>2 DEF Told
<1>3. ASSUME NEW p, Got(c, p)
      PROVE  Got(c, p)'
  BY <1>1, <1>3 DEF Got
<1>4. ASSUME Refused(c)
      PROVE  Refused(c)'
  BY <1>1, <1>4 DEF Refused
<1>5. InReply(c)'
  <2>1. ASSUME cpc[c] = "reply"
        PROVE  Refused(c)' \/ \E p \in Asked(c)' : Told(c, p)'
    BY <1>1, <1>2, <1>4, <2>1 DEF InReply
  <2>. QED
    BY <1>1, <2>1 DEF InReply
<1>6. InBody(c)'
  <2>1. ASSUME cpc[c] = "body"
        PROVE  ~Waiting(Cur(c)) /\ \E p \in Asked(c)' : Got(c, p)'
    BY <1>1, <1>3, <2>1 DEF InBody
  <2>. QED
    BY <1>1, <2>1 DEF InBody
<1>. QED
  BY <1>5, <1>6

\* The server reads a request: it refuses it, or begins the response.
LEMMA ReceivesAnswers ==
    ASSUME Typed, Placed, Answers, NEW n \in 0..3,
           DieOfRequest(n) \/ RefuseRequest(n) \/ HandleRequest(n), Typed'
    PROVE  Answers'
<1>. USE DEF Typed
<1>0. Receives(n) /\ UNCHANGED <<leaked, client, backlog, hungup>>
  BY DEF DieOfRequest, RefuseRequest, HandleRequest, Receives
<1>1. /\ spc = "recv" /\ cur \in Conns /\ cur[1] \in Clients /\ down[cur] = << >>
      /\ buffer' \in Named /\ \A c \in Clients : cut[c] \subseteq cut'[c]
      /\ n = 0 => ClientGone(cur)
      /\ n # 0 => /\ cur = Cur(cur[1]) /\ cpc[cur[1]] = "reply"
                  /\ path[cur[1]] \in Paths
      /\ n \in {1, 2} => "request" \in cut'[cur[1]]
      /\ n = 3 => buffer' = path[cur[1]]
  BY <1>0, ReceivesIs DEF Placed
<1>2. Waiting(cur) /\ cur \notin closed /\ cur \notin Range(backlog) /\ cur # None
  BY <1>1, GetFileAssumption DEF Placed, Waiting, Unanswered, InLine
<1>3. /\ spc' # "recv" /\ cur' \in {cur, None}
      /\ \A k \in Conns : k # cur => down'[k] = down[k] /\ (k \in closed' => k \in closed)
      /\ spc' = "send" => HandleRequest(n)
  BY <1>1, <1>0 DEF DieOfRequest, RefuseRequest, HandleRequest, WireTypes
<1>4. Sending'
  <2>1. ASSUME HandleRequest(n)
        PROVE  Sending'
    <3>1. out' = Response(buffer') /\ ~Malformed
      BY <2>1 DEF HandleRequest
    <3>2. Length(buffer') \in Nat /\ Len(out') = Length(buffer') + 3 /\ buffer'.dir # Junk
      BY <1>1, <3>1, LengthIs, ResponseIs DEF Malformed
    <3>3. \A i \in 1..Len(out') : out'[i] = Response(buffer')[Length(buffer') + 3 - Len(out') + i]
      <4>1. \A i \in 1..Len(out') : Length(buffer') + 3 - Len(out') + i = i
        BY <3>2
      <4>. QED
        BY <3>1, <4>1
    <3>. QED
      BY <3>2, <3>3 DEF Sending, Length
  <2>. QED
    BY <1>3, <2>1 DEF Sending
<1>5. ASSUME NEW c \in Clients
      PROVE  InReply(c)' /\ InBody(c)' /\ Pending(c)'
  <2>1. Pending(c)'
    BY <1>0 DEF Answers, Pending, client
  <2>2. Cur(c) \in Conns /\ Cur(c)[1] = c /\ Cur(c) # None /\ Cur(c)' = Cur(c)
    BY <1>0, CurIs DEF client, Cur
  <2>3. ASSUME Cur(c) # cur \/ DieOfRequest(n)
        PROVE  InReply(c)' /\ InBody(c)'
    <3>1. /\ Waiting(Cur(c))' => Waiting(Cur(c))
          /\ ~Serves(Cur(c))'
      BY <1>0, <1>1, <1>3, <2>2, <2>3 DEF Waiting, Serves, DieOfRequest
    <3>2. down'[Cur(c)] = down[Cur(c)] /\ (Cur(c) \in closed' => Cur(c) \in closed)
      BY <1>3, <2>2, <2>3 DEF DieOfRequest
    <3>. QED
      BY <1>0, <1>1, <3>1, <3>2, AnswersKept DEF Answers
  <2>4. ASSUME Cur(c) = cur, ~DieOfRequest(n)
        PROVE  InReply(c)' /\ InBody(c)'
    <3>1. cpc'[c] = cpc[c] /\ cpc[c] # "body"
      BY <1>0, <1>2, <2>4 DEF Answers, InBody, client
    <3>2. InBody(c)'
      BY <3>1 DEF InBody
    <3>3. ASSUME cpc[c] = "reply"
          PROVE  InReply(c)'
      <4>1. n # 0
        BY <1>1, <2>2, <2>4, <3>3 DEF ClientGone, Placed, Unread
      <4>2. /\ path[c] \in Paths /\ path[c].dir \in Dirs /\ path' = path
            /\ "request" \in cut'[c] \/ buffer' = path[c]
        BY <1>0, <1>1, <2>2, <2>4, <3>3, <4>1, AskedIs DEF client
      <4>3. CASE RefuseRequest(n)
        <5>1. PICK m : m = Cell("INVALID", buffer', 0)
          OBVIOUS
        <5>2. m \in Cells /\ m.kind = "INVALID"
          BY <1>1, <5>1 DEF Cell, Cells, Kinds, Numbers
        <5>3. Append(<< >>, m)[1] = m /\ Len(Append(<< >>, m)) = 1
          BY <5>2
        <5>4. down' = [down EXCEPT ![cur] = Append(@, m)] /\ Malformed /\ spc' = "accept" /\ cur' = None
          BY <4>3, <5>1 DEF RefuseRequest
        <5>5. down'[Cur(c)] = Append(<< >>, m)
          BY <1>1, <2>4, <5>4 DEF WireTypes
        <5>6. path[c].dir = NoSlash \/ "request" \in cut'[c]
          BY <4>2, <5>4, GetFileAssumption DEF Malformed
        <5>7. ~Waiting(Cur(c))' /\ ~Serves(Cur(c))'
          BY <1>0, <1>2, <2>2, <2>4, <5>4 DEF Waiting, Serves
        <5>8. Refused(c)'
          BY <2>2, <4>2, <5>2, <5>3, <5>5, <5>6, <5>7 DEF Refused
        <5>9. down'[Cur(c)] # << >>
          BY <5>3, <5>5
        <5>. QED
          BY <2>2, <5>8, <5>9 DEF InReply
      <4>4. CASE HandleRequest(n)
        <5>1. out' = Response(buffer') /\ UNCHANGED <<down, closed>>
          BY <4>4 DEF HandleRequest
        <5>2. Length(buffer') \in Nat /\ Len(out') = Length(buffer') + 3
          BY <1>1, <5>1, LengthIs, ResponseIs
        <5>3. Len(down'[Cur(c)]) = 0
          BY <1>1, <2>4, <5>1, EmptyIs
        <5>4. PICK p : p = buffer'
          OBVIOUS
        <5>5. p \in Asked(c)'
          BY <1>1, <4>2, <5>4 DEF Asked
        <5>6. Told(c, p)'
          BY <2>2, <5>2, <5>3, <5>4 DEF Told, Length
        <5>. QED
          BY <1>2, <2>2, <2>4, <5>1, <5>5, <5>6 DEF InReply
      <4>. QED
        BY <2>4, <4>3, <4>4
    <3>. QED
      BY <3>1, <3>2, <3>3 DEF InReply
  <2>. QED
    BY <2>1, <2>3, <2>4
<1>. QED
  BY <1>4, <1>5 DEF Answers


\* The server sends a piece of the response.
LEMMA SendAnswers ==
    ASSUME Typed, Placed, Answers, Send, Typed'
    PROVE  Answers'
<1>. USE DEF Typed
<1>1. /\ spc = "send" /\ cur \in Conns /\ out # << >> /\ out \in Seq(Cells)
      /\ UNCHANGED <<spc, cur, buffer, client, backlog, closed, hungup, cut>>
      /\ out' = SubSeq(out, Piece + 1, Len(out))
  BY DEF Send, ServerTypes
<1>2. PICK m \in 1..Len(out) : m = Piece
  BY <1>1, PieceIs DEF Answers
<1>3. /\ Len(out) \in Nat /\ buffer \in Named /\ Length(buffer) \in Nat
      /\ Len(out) = Length(buffer) + 3 => m = 3
  BY <1>1, <1>2, PieceIs, LengthIs DEF Answers
<1>a. m \in 0..Len(out)
  BY <1>2, <1>3
<1>4. PICK t \in Seq(Cells) : t = SubSeq(out, 1, m)
  BY <1>1, <1>a, CutIs
<1>5. /\ Len(t) = m /\ \A i \in 1..m : t[i] = out[i]
      /\ Len(out') = Len(out) - m /\ \A i \in 1..Len(out) - m : out'[i] = out[m + i]
  BY <1>1, <1>2, <1>a, <1>4, CutIs
<1>6. /\ buffer.dir # Junk
      /\ Len(out) <= Length(buffer) \/ Len(out) = Length(buffer) + 3
      /\ \A i \in 1..Len(out) : out[i] = Response(buffer)[Length(buffer) + 3 - Len(out) + i]
  BY <1>1 DEF Answers, Sending
<1>7. Sending'
  <2>1. Len(out') <= Length(buffer)
    BY <1>2, <1>3, <1>5, <1>6
  <2>2. ASSUME NEW i \in 1..Len(out')
        PROVE  out'[i] = Response(buffer)[Length(buffer) + 3 - Len(out') + i]
    <3>1. m + i \in 1..Len(out) /\ i \in 1..Len(out) - m
      BY <1>3, <1>5, <2>2
    <3>2. Length(buffer) + 3 - Len(out) + (m + i) = Length(buffer) + 3 - Len(out') + i
      BY <1>3, <1>5, <2>2
    <3>3. out'[i] = Response(buffer)[Length(buffer) + 3 - Len(out) + (m + i)]
      BY <1>5, <1>6, <3>1
    <3>. QED
      BY <3>2, <3>3
  <2>. QED
    BY <1>1, <1>6, <2>1, <2>2 DEF Sending, Length
<1>8. ASSUME NEW c \in Clients
      PROVE  InReply(c)' /\ InBody(c)' /\ Pending(c)'
  <2>1. Pending(c)'
    BY <1>1 DEF Answers, Pending, client
  <2>2. Cur(c) \in Conns /\ Cur(c)[1] = c /\ Cur(c) # None /\ Cur(c)' = Cur(c) /\ Asked(c)' = Asked(c)
    BY <1>1, CurIs DEF client, Cur, Asked
  <2>3. CASE Cur(c) # cur
    <3>1. /\ Waiting(Cur(c))' => Waiting(Cur(c))
          /\ ~Serves(Cur(c))'
      BY <1>1, <2>2, <2>3 DEF Waiting, Serves
    <3>2. down'[Cur(c)] = down[Cur(c)]
      BY <2>2, <2>3 DEF Send, WireTypes
    <3>. QED
      BY <1>1, <2>1, <3>1, <3>2, AnswersKept DEF Answers
  <2>4. CASE Cur(c) = cur /\ cpc[c] \notin {"reply", "body"}
    BY <1>1, <2>1, <2>4 DEF InReply, InBody, client
  <2>5. CASE Cur(c) = cur /\ cpc[c] \in {"reply", "body"}
    <3>1. ~ClientGone(cur) /\ Serves(Cur(c)) /\ Cur(c) \notin hungup
      BY <1>1, <2>2, <2>5 DEF Placed, Unread, ClientGone, Serves
    <3>2. PICK s \in Seq(Cells) : s = down[Cur(c)]
      BY <2>2 DEF WireTypes
    <3>3. down' = [down EXCEPT ![cur] = s \o t]
      BY <1>2, <1>4, <2>5, <3>1, <3>2 DEF Send
    <3>4. PICK u \in Seq(Cells) : u = s \o t
      BY <1>4, JoinIs
    <3>5. /\ Len(u) = Len(s) + m /\ \A i \in 1..Len(s) : u[i] = s[i]
          /\ \A i \in 1..m : u[Len(s) + i] = out[i]
          /\ Len(s) \in Nat /\ m \in Nat /\ m >= 1 /\ m <= Len(out)
      BY <1>2, <1>3, <1>5, <3>4, JoinIs
    <3>6. down'[Cur(c)] = u /\ u # << >>
      <4>1. down'[Cur(c)] = u
        BY <2>2, <2>5, <3>3, <3>4 DEF WireTypes
      <4>. QED
        BY <3>5, <4>1, EmptyIs
    <3>7. \A i \in 1..Len(u) : i \notin 1..Len(s) => i - Len(s) \in 1..m /\ i - Len(s) \in 1..Len(out)
                                                  /\ Len(s) + (i - Len(s)) = i
      BY <3>5
    <3>8. ASSUME NEW p \in Asked(c), Told(c, p)
          PROVE  Told(c, p)'
      <4>1. p = buffer /\ Len(s) + Len(out) = Length(p) + 3 /\ \A i \in 1..Len(s) : s[i] = Response(p)[i]
        BY <3>1, <3>2, <3>8 DEF Told
      <4>2. ASSUME NEW i \in 1..Len(u)
            PROVE  u[i] = Response(p)[i]
        <5>1. CASE i \in 1..Len(s)
          BY <3>5, <4>1, <5>1
        <5>2. CASE i \notin 1..Len(s)
          <6>1. PICK j \in 1..m : j = i - Len(s) /\ j \in 1..Len(out) /\ Len(s) + j = i
            BY <3>7, <5>2
          <6>2. Length(buffer) + 3 - Len(out) + j = i
            BY <1>3, <3>5, <4>1, <6>1
          <6>3. u[i] = Response(buffer)[Length(buffer) + 3 - Len(out) + j]
            BY <1>6, <3>5, <6>1
          <6>. QED
            BY <4>1, <6>2, <6>3
        <5>. QED
          BY <5>1, <5>2
      <4>3. Len(u) <= Length(p) + 3 /\ Len(u) + Len(out') = Length(p) + 3
        BY <1>3, <1>5, <3>5, <4>1
      <4>. QED
        BY <1>1, <2>2, <3>6, <4>1, <4>2, <4>3 DEF Told, Length
    <3>9. ASSUME NEW p \in Asked(c), Got(c, p)
          PROVE  Got(c, p)'
      <4>1. /\ p = buffer /\ Len(written[c]) + Len(s) + Len(out) = Length(p)
            /\ \A i \in 1..Len(s) : s[i] = Cell("data", p, Len(written[c]) + i)
            /\ written[c] \in Seq(Cells)
        BY <3>1, <3>2, <3>9 DEF Got, ClientTypes
      <4>0. Len(written[c]) \in Nat
        BY <4>1, RangeIs
      <4>2. ASSUME NEW i \in 1..Len(u)
            PROVE  u[i] = Cell("data", p, Len(written[c]) + i)
        <5>1. CASE i \in 1..Len(s)
          BY <3>5, <4>1, <5>1
        <5>2. CASE i \notin 1..Len(s)
          <6>1. PICK j \in 1..m : j = i - Len(s) /\ j \in 1..Len(out) /\ Len(s) + j = i
            BY <3>7, <5>2
          <6>2. /\ Length(buffer) + 3 - Len(out) + j = Len(written[c]) + i + 3
                /\ Len(written[c]) + i \in 1..Length(p)
            <7>1. /\ j \in Nat /\ j >= 1 /\ j <= Len(out) /\ Len(s) + j = i
                  /\ Len(written[c]) + Len(s) + Len(out) = Length(buffer)
              BY <1>3, <4>1, <6>1
            <7>2. Length(p) = Length(buffer)
              BY <4>1
            <7>3. /\ Length(buffer) + 3 - Len(out) + j = Len(written[c]) + i + 3
                  /\ Len(written[c]) + i \in 1..Length(buffer)
              <8>1. Len(written[c]) \in Nat /\ Len(s) \in Nat /\ Len(out) \in Nat
                BY <1>3, <3>5, <4>0
              <8>2. PICK w \in Nat, d \in Nat, o \in Nat, a \in Nat :
                       w = Len(written[c]) /\ d = Len(s) /\ o = Len(out) /\ a = j
                BY <7>1, <8>1
              <8>3. a >= 1 /\ a <= o /\ i = d + a /\ Length(buffer) = w + d + o
                BY <7>1, <8>2
              <8>4. w + d + o + 3 - o + a = w + (d + a) + 3 /\ w + (d + a) \in 1..w + d + o
                BY <8>3
              <8>. QED
                BY <8>2, <8>3, <8>4
            <7>. QED
              BY <7>2, <7>3
          <6>3. u[i] = Response(buffer)[Length(buffer) + 3 - Len(out) + j]
            BY <1>6, <3>5, <6>1
          <6>4. Response(p)[Len(written[c]) + i + 3] = Cell("data", p, Len(written[c]) + i)
            BY <1>3, <4>1, <6>2, ResponseIs
          <6>. QED
            BY <4>1, <6>2, <6>3, <6>4
        <5>. QED
          BY <5>1, <5>2
      <4>3. /\ Len(written[c]) + Len(u) <= Length(p)
            /\ Len(written[c]) + Len(u) + Len(out') = Length(p)
        BY <1>3, <1>5, <3>5, <4>0, <4>1
      <4>4. filelen'[c] = Announced(Length(p)) /\ \A i \in 1..Len(written[c]) : written[c][i] = Cell("data", p, i)
        BY <1>1, <3>9 DEF Got, client
      <4>5. written' = written
        BY <1>1 DEF client
      <4>. QED
        BY <1>1, <2>2, <3>6, <4>1, <4>2, <4>3, <4>4, <4>5 DEF Got, Length
    <3>10. ~Refused(c) /\ UNCHANGED cpc
      BY <1>1, <3>1 DEF Refused, client
    <3>11. InReply(c)'
      BY <2>2, <3>6, <3>8, <3>10 DEF Answers, InReply
    <3>12. InBody(c)'
      <4>1. Waiting(Cur(c))' => Waiting(Cur(c))
        BY <1>1, <2>2 DEF Waiting
      <4>. QED
        BY <2>2, <3>9, <3>10, <4>1 DEF Answers, InBody
    <3>. QED
      BY <2>1, <3>11, <3>12
  <2>. QED
    BY <2>3, <2>4, <2>5
<1>. QED
  BY <1>7, <1>8 DEF Answers

\* Every step of the server keeps what the clients have of their files.
LEMMA ServerAnswers ==
    ASSUME Typed, Placed, Answers, ServerStep, Typed'
    PROVE  Answers'
<1>. USE DEF Typed
<1>1. ASSUME NEW c \in Clients, UNCHANGED <<client, cut, down>>, spc' # "send",
             Waiting(Cur(c))' => Waiting(Cur(c)),
             cpc[c] = "reply" /\ Cur(c) \in closed' => Cur(c) \in closed \/ down[Cur(c)] # << >>
      PROVE  InReply(c)' /\ InBody(c)' /\ Pending(c)'
  <2>1. ~Serves(Cur(c))' /\ Pending(c)'
    BY <1>1 DEF Serves, Answers, Pending, client
  <2>. QED
    BY <1>1, <2>1, AnswersKept DEF Answers
<1>2. CASE Start \/ HandlerReturns
  <2>1. UNCHANGED <<client, cut, down, closed, backlog>> /\ spc' # "send" /\ spc' # "recv"
    BY <1>2 DEF Start, HandlerReturns
  <2>2. \A c \in Clients : Waiting(Cur(c))' => Waiting(Cur(c))
    BY <2>1, CurIs DEF Waiting, Cur, client
  <2>. QED
    BY <1>1, <2>1, <2>2 DEF Answers, Sending
<1>3. CASE Accept
  <2>1. UNCHANGED <<client, cut, down, closed>> /\ spc' # "send"
    BY <1>3 DEF Accept
  <2>2. /\ Head(backlog) \in Range(backlog) /\ Range(Tail(backlog)) \subseteq Range(backlog)
        /\ cur' = Head(backlog) /\ backlog' = Tail(backlog)
    BY <1>3, TailIs DEF Accept, WireTypes
  <2>3. \A c \in Clients : Waiting(Cur(c))' => Waiting(Cur(c))
    BY <2>1, <2>2 DEF Waiting, Cur, client
  <2>. QED
    BY <1>1, <2>1, <2>3 DEF Answers, Sending
<1>4. ASSUME NEW n \in 0..3, DieOfRequest(n) \/ RefuseRequest(n) \/ HandleRequest(n)
      PROVE  Answers'
  BY <1>4, ReceivesAnswers
<1>7. CASE RecvFails
  <2>1. /\ UNCHANGED <<client, cut, down, closed, cur, backlog>> /\ spc' # "send" /\ spc' # "recv"
    BY <1>7 DEF RecvFails
  <2>2. \A c \in Clients : Waiting(Cur(c))' => Waiting(Cur(c))
    BY <2>1 DEF Waiting, Cur, client
  <2>. QED
    BY <1>1, <2>1, <2>2 DEF Answers, Sending
<1>5. CASE Send
  BY <1>5, SendAnswers
<1>6. CASE SendFails \/ ReadFails
  <2>1. /\ UNCHANGED <<buffer, client, backlog, up, down, hungup, cut>> /\ spc = "send" /\ cur \in Conns
        /\ spc' \in {"accept", "dead"} /\ out # << >> /\ closed' \subseteq closed \cup {cur}
    BY <1>6 DEF SendFails, ReadFails, Abort, ServerTypes
  <2>2. \A c \in Clients : Waiting(Cur(c))' => Waiting(Cur(c))
    BY <2>1 DEF Waiting, Cur, client
  <2>3. ASSUME NEW c \in Clients, cpc[c] = "reply", cur = Cur(c)
        PROVE  down[Cur(c)] # << >>
    <3>1. ~ClientGone(cur) /\ Serves(Cur(c)) /\ Cur(c)[1] = c
      BY <2>1, <2>3, CurIs DEF Placed, Unread, ClientGone, Serves
    <3>2. Len(out) <= Length(buffer) /\ Len(out) \in Nat /\ Length(buffer) \in Nat
      BY <1>6, <2>1, <3>1, PieceIs, LengthIs DEF SendFails, ReadFails, Answers
    <3>3. PICK p : Told(c, p)
      BY <2>3, <3>1 DEF Answers, InReply, Refused
    <3>4. Len(down[Cur(c)]) + Len(out) = Length(buffer) + 3
      BY <3>1, <3>3 DEF Told
    <3>. QED
      BY <3>2, <3>4, EmptyIs
  <2>. QED
    BY <1>1, <2>1, <2>2, <2>3 DEF Answers, Sending
<1>. QED
  BY <1>2, <1>3, <1>4, <1>5, <1>6, <1>7 DEF ServerStep, ReadRequest


\* A client that has the whole header has the announced length, and behind it
\* the first blocks of the file.
LEMMA HeaderIs ==
    ASSUME Typed, Answers, NEW c \in Clients, NEW n \in 1..RecvBuf, FirstRecv(c, n), n >= 3
    PROVE  \E p \in Asked(c) :
              /\ p \in Named /\ Told(c, p)
              /\ down[Cur(c)][2].n = Announced(Length(p))
              /\ SubSeq(down[Cur(c)], 4, n) \in Seq(Cells)
              /\ Len(SubSeq(down[Cur(c)], 4, n)) = n - 3 /\ n - 3 <= Length(p)
              /\ \A i \in 1..n - 3 : SubSeq(down[Cur(c)], 4, n)[i] = Cell("data", p, i)
<1>1. cpc[c] = "reply" /\ n \in Nat /\ Cur(c) \in Conns /\ n <= Len(down[Cur(c)])
  BY CurIs, GetFileAssumption DEF FirstRecv, Typed
<1>2. PICK s \in Seq(Cells) : s = down[Cur(c)]
  BY <1>1 DEF Typed, WireTypes
<1>3. Len(s) \in Nat /\ n <= Len(s)
  BY <1>1, <1>2, RangeIs
<1>4. PICK p \in Asked(c) : Told(c, p)
  <2>1. ~Refused(c)
    <3>1. ASSUME Refused(c)
          PROVE  FALSE
      <4>1. Len(s) = 1
        BY <1>2, <3>1 DEF Refused
      <4>. QED
        BY <1>1, <1>3, <4>1
    <3>. QED
      BY <3>1
  <2>. QED
    BY <1>1, <2>1 DEF Answers, InReply
<1>5. /\ p \in Named /\ Length(p) \in Nat
      /\ Len(s) <= Length(p) + 3 /\ \A i \in 1..Len(s) : s[i] = Response(p)[i]
  BY <1>1, <1>2, <1>4, AskedIs, LengthIs DEF Told, Typed
<1>6. s[2].n = Announced(Length(p))
  BY <1>3, <1>5, ResponseIs
<1>7. n - 3 <= Length(p)
  BY <1>3, <1>5
<1>8. PICK t \in Seq(Cells) : t = SubSeq(s, 4, n)
  BY <1>1, <1>3, PartIs
<1>9. Len(t) = n - 3 /\ \A i \in 1..n - 3 : t[i] = s[i + 3]
  <2>1. n + 1 >= 4 /\ n + 1 - 4 = n - 3 /\ \A i \in 1..n - 3 : i + 4 - 1 = i + 3
    BY <1>1
  <2>2. Len(t) = n + 1 - 4 /\ \A i \in 1..n + 1 - 4 : t[i] = s[i + 4 - 1]
    BY <1>1, <1>3, <1>8, <2>1, PartIs
  <2>. QED
    BY <2>1, <2>2
<1>10. ASSUME NEW i \in 1..n - 3
       PROVE  t[i] = Cell("data", p, i)
  <2>1. i + 3 \in 1..Len(s) /\ i \in 1..Length(p)
    BY <1>1, <1>3, <1>5, <1>7
  <2>2. s[i + 3] = Response(p)[i + 3] /\ Response(p)[i + 3] = Cell("data", p, i)
    BY <1>5, <2>1, ResponseIs
  <2>. QED
    BY <1>9, <2>2
<1>. QED
  BY <1>2, <1>4, <1>5, <1>6, <1>7, <1>8, <1>9, <1>10

\* A client that reads has the next cells.
LEMMA ClientAnswers ==
    ASSUME Typed, Placed, Answers, NEW c \in Clients, ClientStep(c), Typed'
    PROVE  Answers'
<1>. USE DEF Typed
<1>1. /\ UNCHANGED <<server, closed>>
      /\ \A d \in Clients : d # c =>
            UNCHANGED <<cpc[d], turn[d], path[d], status[d], filelen[d], written[d], ret[d], cut[d]>>
      /\ \A k \in Conns : k # Cur(c) => UNCHANGED <<up[k], down[k]>>
      /\ backlog' = backlog \/ (backlog' = Append(backlog, Cur(c)) /\ Connect(c))
  BY ClientFrame
<1>2. Cur(c) \in Conns /\ \A d \in Clients : d # c => Cur(d) # Cur(c) /\ Cur(d) \in Conns
  BY CurIs
<1>3. Sending'
  BY <1>1 DEF Answers, Sending, server, Length
<1>4. ASSUME NEW d \in Clients, d # c
      PROVE  InReply(d)' /\ InBody(d)' /\ Pending(d)'
  <2>1. /\ UNCHANGED <<cpc[d], path[d], status[d], filelen[d], written[d], ret[d], cut[d]>>
        /\ Cur(d)' = Cur(d) /\ down'[Cur(d)] = down[Cur(d)]
        /\ UNCHANGED <<closed, spc, cur, buffer, out>>
    BY <1>1, <1>2, <1>4 DEF Cur, server
  <2>2. Range(backlog') \subseteq Range(backlog) \cup {Cur(c)}
    <3>1. Range(Append(backlog, Cur(c))) = Range(backlog) \cup {Cur(c)}
      BY <1>2, AppendIs DEF WireTypes
    <3>. QED
      BY <1>1, <3>1
  <2>3. (Waiting(Cur(d))' => Waiting(Cur(d))) /\ (Serves(Cur(d))' <=> Serves(Cur(d)))
    BY <1>2, <1>4, <2>1, <2>2 DEF Waiting, Serves
  <2>4. Asked(d)' = Asked(d)
    BY <2>1 DEF Asked
  <2>5. Pending(d)'
    BY <1>4, <2>1 DEF Answers, Pending
  <2>6. ASSUME NEW p, Told(d, p)
        PROVE  Told(d, p)'
    BY <2>1, <2>3, <2>6 DEF Told
  <2>7. ASSUME NEW p, Got(d, p)
        PROVE  Got(d, p)'
    BY <2>1, <2>3, <2>7 DEF Got
  <2>8. Refused(d) => Refused(d)'
    BY <2>1, <2>3 DEF Refused
  <2>9. InReply(d)'
    BY <2>1, <2>4, <2>6, <2>8 DEF Answers, InReply
  <2>10. InBody(d)'
    BY <2>1, <2>3, <2>4, <2>7 DEF Answers, InBody
  <2>. QED
    BY <2>5, <2>9, <2>10
<1>5. CASE cpc'[c] \notin {"reply", "body"} /\ ~Begin(c) /\ ~Connect(c)
  <2>1. cpc'[c] \notin {"connect", "header"}
    BY <1>5, ClientMoves DEF Goes, Ends
  <2>2. InReply(c)' /\ InBody(c)' /\ Pending(c)'
    BY <1>5, <2>1 DEF InReply, InBody, Pending
  <2>. QED
    BY <1>3, <1>4, <2>2 DEF Answers
<1>6. CASE Begin(c) \/ Connect(c)
  <2>1. cpc'[c] \in {"connect", "header"} /\ status'[c] = "unset" /\ ret'[c] = "none"
    BY <1>6 DEF Begin, Connect, Answers, Pending, ClientTypes
  <2>2. InReply(c)' /\ InBody(c)' /\ Pending(c)'
    BY <2>1 DEF InReply, InBody, Pending
  <2>. QED
    BY <1>3, <1>4, <2>2 DEF Answers
<1>7. CASE SendRequest(c)
  <2>1. /\ cpc[c] = "header" /\ cpc'[c] = "reply"
        /\ UNCHANGED <<server, turn, path, status, filelen, written, ret, backlog, down, closed, hungup, cut>>
    BY <1>7 DEF SendRequest, ClientTypes
  <2>2. down[Cur(c)] = << >> /\ Cur(c) \notin closed /\ ~Serves(Cur(c))
    BY <2>1 DEF Placed, Unread
  <2>3. Cur(c)' = Cur(c) /\ ~Serves(Cur(c))' /\ Len(down[Cur(c)]) = 0
    BY <2>1, <2>2, EmptyIs DEF Cur, Serves, server
  <2>4. PICK p \in Paths : p = path[c]
    BY <2>1 DEF ClientTypes
  <2>5. p \in Asked(c)' /\ Length(p) \in Nat
    BY <2>1, <2>4, LengthIs DEF Asked, Paths, Named
  <2>6. Told(c, p)'
    BY <2>1, <2>3, <2>5 DEF Told, Length
  <2>7. InReply(c)' /\ InBody(c)' /\ Pending(c)'
    BY <2>1, <2>2, <2>3, <2>5, <2>6 DEF InReply, InBody, Pending, Answers
  <2>. QED
    BY <1>3, <1>4, <2>7 DEF Answers
<1>8. ASSUME NEW n \in 1..RecvBuf, ParseLong(c, n)
      PROVE  Answers'
  <2>1. /\ FirstRecv(c, n) /\ n >= 3 /\ cpc[c] = "reply" /\ cpc'[c] = "body"
        /\ n \in Nat /\ n <= Len(down[Cur(c)])
        /\ down' = [down EXCEPT ![Cur(c)] = SubSeq(@, n + 1, Len(@))]
        /\ UNCHANGED <<turn, path, ret, server, backlog, closed, cut>>
    BY <1>8, GetFileAssumption DEF ParseLong, FirstRecv, Quiet, ClientTypes
  <2>2. PICK p \in Asked(c) :
              /\ p \in Named /\ Told(c, p)
              /\ down[Cur(c)][2].n = Announced(Length(p))
              /\ SubSeq(down[Cur(c)], 4, n) \in Seq(Cells)
              /\ Len(SubSeq(down[Cur(c)], 4, n)) = n - 3 /\ n - 3 <= Length(p)
              /\ \A i \in 1..n - 3 : SubSeq(down[Cur(c)], 4, n)[i] = Cell("data", p, i)
    BY <2>1, HeaderIs
  <2>3. PICK t \in Seq(Cells) : t = SubSeq(down[Cur(c)], 4, n)
    BY <2>2
  <2>4. /\ status'[c] = "OK" /\ filelen'[c] = Announced(Length(p)) /\ written'[c] = t
        /\ Len(t) = n - 3 /\ \A i \in 1..n - 3 : t[i] = Cell("data", p, i)
    <3>1. status'[c] = "OK" /\ filelen'[c] = down[Cur(c)][2].n /\ written'[c] = SubSeq(down[Cur(c)], 4, n)
      BY <1>8 DEF ParseLong, ClientTypes
    <3>. QED
      BY <2>2, <2>3, <3>1
  <2>5. PICK s \in Seq(Cells) : s = down[Cur(c)]
    BY <1>2 DEF WireTypes
  <2>6. PICK u \in Seq(Cells) : u = down'[Cur(c)]
    BY <1>2 DEF WireTypes
  <2>7. /\ Len(s) \in Nat /\ Len(u) = Len(s) - n /\ \A i \in 1..Len(s) - n : u[i] = s[n + i]
        /\ n <= Len(s) /\ Length(p) \in Nat
    <3>1. /\ Len(down'[Cur(c)]) = Len(down[Cur(c)]) - n
          /\ \A i \in 1..Len(down[Cur(c)]) - n : down'[Cur(c)][i] = down[Cur(c)][n + i]
      BY <1>2, <2>1, <2>2, ReadIs
    <3>. QED
      BY <2>1, <2>5, <2>6, <3>1, RangeIs, LengthIs
  <2>8. /\ Len(s) <= Length(p) + 3 /\ \A i \in 1..Len(s) : s[i] = Response(p)[i]
        /\ Serves(Cur(c)) => p = buffer /\ Len(s) + Len(out) = Length(p) + 3
    BY <2>2, <2>5 DEF Told
  <2>9. ASSUME NEW i \in 1..Len(u)
        PROVE  u[i] = Cell("data", p, Len(t) + i)
    <3>1. i \in 1..Len(s) - n /\ n + i \in 1..Len(s) /\ Len(t) + i \in 1..Length(p) /\ n + i = Len(t) + i + 3
      BY <2>1, <2>4, <2>7, <2>8
    <3>2. u[i] = Response(p)[Len(t) + i + 3]
      BY <2>7, <2>8, <3>1
    <3>. QED
      BY <2>2, <3>1, <3>2, ResponseIs
  <2>10. Len(t) + Len(u) <= Length(p) /\ Len(t) + Len(u) = Len(s) - 3
    BY <2>1, <2>4, <2>7, <2>8
  <2>11. Cur(c)' = Cur(c) /\ (Serves(Cur(c))' => Serves(Cur(c))) /\ (Waiting(Cur(c))' => Waiting(Cur(c)))
    BY <2>1 DEF Cur, server, Serves, Waiting
  <2>12. Serves(Cur(c)) => p = buffer /\ Len(t) + Len(u) + Len(out) = Length(p)
    <3>1. Serves(Cur(c)) => Len(out) \in Nat
      BY RangeIs DEF ServerTypes
    <3>2. Len(t) \in Nat /\ Len(u) \in Nat
      BY RangeIs
    <3>3. ASSUME NEW a \in Nat, a = Len(out), Len(s) + a = Length(p) + 3
          PROVE  Len(t) + Len(u) + a = Length(p)
      <4>1. PICK x \in Nat, y \in Nat, d \in Nat, len \in Nat :
               x = Len(t) /\ y = Len(u) /\ d = Len(s) /\ len = Length(p)
        BY <2>7, <3>2
      <4>2. x + y = d - 3 /\ d + a = len + 3
        BY <2>10, <3>3, <4>1
      <4>3. x + y + a = len
        BY <4>2
      <4>. QED
        BY <4>1, <4>3
    <3>. QED
      BY <2>8, <3>1, <3>3
  <2>13. Got(c, p)'
    BY <2>1, <2>4, <2>6, <2>9, <2>10, <2>11, <2>12 DEF Got, Length, server
  <2>14. ~Waiting(Cur(c))
    <3>1. down[Cur(c)] # << >>
      BY <2>1, EmptyIs
    <3>. QED
      BY <1>2, <3>1 DEF Placed, Unanswered
  <2>15. p \in Asked(c)'
    BY <2>1, <2>2 DEF Asked
  <2>16. InReply(c)' /\ InBody(c)' /\ Pending(c)'
    BY <2>1, <2>4, <2>11, <2>13, <2>14, <2>15 DEF InReply, InBody, Pending, Answers
  <2>. QED
    BY <1>3, <1>4, <2>16 DEF Answers
<1>9. CASE RecvBody(c)
  <2>1. PICK n \in 1..RecvBuf :
           /\ n <= Len(down[Cur(c)])
           /\ written' = [written EXCEPT ![c] = @ \o SubSeq(down[Cur(c)], 1, n)]
           /\ down' = [down EXCEPT ![Cur(c)] = SubSeq(@, n + 1, Len(@))]
    BY <1>9 DEF RecvBody
  <2>2. n \in Nat /\ cpc[c] = "body" /\ UNCHANGED <<server, backlog, closed, cpc, turn, path, status, filelen, ret, cut>>
    BY <1>9, GetFileAssumption DEF RecvBody, Quiet
  <2>3. PICK p \in Asked(c) : Got(c, p)
    BY <2>2 DEF Answers, InBody
  <2>4. PICK s \in Seq(Cells) : s = down[Cur(c)]
    BY <1>2 DEF WireTypes
  <2>5. PICK t \in Seq(Cells) : t = SubSeq(s, 1, n)
    BY <2>1, <2>2, <2>4, PartIs
  <2>6. PICK w \in Seq(Cells) : w = written[c]
    BY DEF ClientTypes
  <2>7. PICK v \in Seq(Cells) : v = w \o t
    BY JoinIs
  <2>8. PICK u \in Seq(Cells) : u = down'[Cur(c)]
    BY <1>2 DEF WireTypes
  <2>9. written'[c] = v
    BY <2>1, <2>4, <2>5, <2>6, <2>7 DEF ClientTypes
  <2>10. /\ Len(s) \in Nat /\ Len(w) \in Nat /\ n <= Len(s) /\ Length(p) \in Nat
         /\ Len(u) = Len(s) - n /\ \A i \in 1..Len(s) - n : u[i] = s[n + i]
    <3>1. /\ Len(down'[Cur(c)]) = Len(down[Cur(c)]) - n
          /\ \A i \in 1..Len(down[Cur(c)]) - n : down'[Cur(c)][i] = down[Cur(c)][n + i]
      BY <1>2, <2>1, <2>2, ReadIs
    <3>. QED
      BY <2>1, <2>4, <2>8, <3>1, RangeIs, LengthIs
  <2>11. Len(t) = n /\ \A i \in 1..n : t[i] = s[i]
    <3>1. n + 1 >= 1 /\ n + 1 - 1 = n /\ \A i \in 1..n : i + 1 - 1 = i
      BY <2>2
    <3>2. Len(t) = n + 1 - 1 /\ \A i \in 1..n + 1 - 1 : t[i] = s[i + 1 - 1]
      BY <2>2, <2>5, <2>10, <3>1, PartIs
    <3>. QED
      BY <3>1, <3>2
  <2>12. /\ Len(v) = Len(w) + n /\ \A i \in 1..Len(w) : v[i] = w[i]
         /\ \A i \in 1..n : v[Len(w) + i] = s[i]
    BY <2>7, <2>11, JoinIs
  <2>13. /\ Len(w) + Len(s) <= Length(p) /\ filelen[c] = Announced(Length(p))
         /\ \A i \in 1..Len(w) : w[i] = Cell("data", p, i)
         /\ \A i \in 1..Len(s) : s[i] = Cell("data", p, Len(w) + i)
         /\ Serves(Cur(c)) => p = buffer /\ Len(w) + Len(s) + Len(out) = Length(p)
    BY <2>3, <2>4, <2>6 DEF Got
  <2>14. ASSUME NEW i \in 1..Len(v)
         PROVE  v[i] = Cell("data", p, i)
    <3>1. CASE i \in 1..Len(w)
      BY <2>12, <2>13, <3>1
    <3>2. CASE i \notin 1..Len(w)
      <4>0. PICK a \in Nat : a = Len(w)
        BY <2>10
      <4>1. PICK l \in Nat : l = Len(s)
        BY <2>10
      <4>2. n \in Nat /\ n <= l /\ i \in 1..a + n /\ i \notin 1..a
        BY <2>2, <2>10, <2>12, <2>14, <3>2, <4>0, <4>1
      <4>3. i - a \in 1..n /\ i - a \in 1..l /\ a + (i - a) = i
        BY <4>0, <4>1, <4>2, Behind
      <4>4. PICK j \in 1..n : j \in 1..Len(s) /\ Len(w) + j = i
        BY <4>0, <4>1, <4>3, Zenon
      <4>. QED
        BY <2>12, <2>13, <4>4
    <3>. QED
      BY <3>1, <3>2
  <2>15. ASSUME NEW i \in 1..Len(u)
         PROVE  u[i] = Cell("data", p, Len(v) + i)
    <3>1. i \in 1..Len(s) - n /\ n + i \in 1..Len(s) /\ Len(w) + (n + i) = Len(v) + i
      BY <2>2, <2>10, <2>12
    <3>2. u[i] = Cell("data", p, Len(w) + (n + i))
      BY <2>10, <2>13, <3>1
    <3>. QED
      BY <3>1, <3>2
  <2>16. Len(v) + Len(u) = Len(w) + Len(s)
    BY <2>2, <2>10, <2>12
  <2>17. Cur(c)' = Cur(c) /\ (Serves(Cur(c))' => Serves(Cur(c))) /\ (Waiting(Cur(c))' => Waiting(Cur(c)))
    BY <2>2 DEF Cur, server, Serves, Waiting
  <2>18. Got(c, p)'
    BY <2>2, <2>8, <2>9, <2>13, <2>14, <2>15, <2>16, <2>17 DEF Got, Length, server
  <2>19. p \in Asked(c)'
    BY <2>2, <2>3 DEF Asked
  <2>20. InReply(c)' /\ InBody(c)' /\ Pending(c)'
    BY <2>2, <2>17, <2>18, <2>19 DEF InReply, InBody, Pending, Answers
  <2>. QED
    BY <1>3, <1>4, <2>20 DEF Answers
<1>10. cpc'[c] \in {"reply", "body"} =>
          \/ Begin(c) \/ Connect(c) \/ SendRequest(c) \/ RecvBody(c)
          \/ \E n \in 1..RecvBuf : ParseLong(c, n)
  <2>1. ASSUME NEW x, NEW len, NEW w, NEW r, Return(c, x, len, w, r)
        PROVE  cpc'[c] \notin {"reply", "body"}
    BY <2>1 DEF Return, ClientTypes
  <2>2. ASSUME cpc' = [cpc EXCEPT ![c] = "crashed"]
        PROVE  cpc'[c] \notin {"reply", "body"}
    BY <2>2 DEF ClientTypes
  <2>3. ASSUME HeaderFuncUnset(c) \/ RequestFails(c) \/ NoReply(c) \/ EndBody(c) \/ BodyReset(c)
        PROVE  cpc'[c] \notin {"reply", "body"}
    BY <2>1, <2>2, <2>3 DEF HeaderFuncUnset, RequestFails, NoReply, EndBody, BodyReset
  <2>4. ASSUME NEW n \in 1..RecvBuf, ParseInvalid(c, n) \/ ParseTorn(c, n) \/ ParseShort(c, n)
        PROVE  cpc'[c] \notin {"reply", "body"}
    BY <2>1, <2>2, <2>4 DEF ParseInvalid, ParseTorn, ParseShort
  <2>. QED
    BY <2>3, <2>4 DEF ClientStep, Perform
<1>. QED
  BY <1>5, <1>6, <1>7, <1>8, <1>9, <1>10


(***************************************************************************)
(* The files that are kept, and the answers that are blamed.               *)
(***************************************************************************)
\* Blocks of a file, as many as were announced of it, are the file, or its
\* beginning when the header had no room for the length.
LEMMA WholeIs ==
    ASSUME NEW p \in Named, NEW w \in Seq(Cells), Len(w) <= Length(p),
           Length(p) < DigitsLimit => Length(p) <= Len(w), \A i \in 1..Len(w) : w[i] = Cell("data", p, i)
    PROVE  IsFileOf(w, p)
<1>1. PICK b \in Seq(Cells) : b = Content(p)
  BY BlocksAre
<1>2. Len(b) = Length(p) /\ \A i \in 1..Length(p) : b[i] = Cell("data", p, i)
  BY <1>1, BlocksAre
<1>3. Length(p) \in Nat /\ Len(w) \in Nat
  BY LengthIs, RangeIs
<1>4. CASE Length(p) < DigitsLimit
  <2>1. Len(w) = Len(b)
    BY <1>2, <1>3, <1>4
  <2>2. \A i \in 1..Len(w) : w[i] = b[i]
    BY <1>2, <2>1
  <2>3. w = b
    BY <2>1, <2>2, SeqEqual
  <2>4. p \in DOMAIN Size => w = Blocks(p)
    BY <1>1, <2>3, BlocksAre
  <2>5. p \notin DOMAIN Size => w = << >>
    BY <1>2, <2>1, RangeIs DEF Length
  <2>. QED
    BY <2>4, <2>5 DEF IsFileOf
<1>5. CASE Length(p) >= DigitsLimit
  <2>1. p \in DOMAIN Size /\ Size[p] >= DigitsLimit
    BY <1>5, LengthIs
  <2>2. Len(w) \in 0..Len(b) /\ Len(w) \in Nat /\ Len(w) <= Len(b)
    BY <1>2, <1>3
  <2>3. PICK t \in Seq(Cells) : t = SubSeq(b, 1, Len(w))
    BY <2>2, CutIs
  <2>4. Len(t) = Len(w) /\ \A i \in 1..Len(w) : t[i] = b[i]
    BY <2>2, <2>3, CutIs
  <2>5. \A i \in 1..Len(w) : i \in 1..Length(p)
    BY <1>3
  <2>6. w = t
    BY <1>2, <2>4, <2>5, SeqEqual
  <2>7. SubSeq(w, 1, Len(w)) = w
    BY SubSeqFull
  <2>8. IsPrefix(w, b)
    BY <2>2, <2>3, <2>6, <2>7 DEF IsPrefix
  <2>. QED
    BY <1>1, <2>1, <2>8, BlocksAre DEF IsFileOf
<1>. QED
  BY <1>3, <1>4, <1>5, GetFileAssumption

\* KeptIsWhole, of one client.
Whole(c) ==
    Kept(c) /\ "header" \notin cut[c] =>
        \E p \in Asked(c) : IsFileOf(written[c], p)

LEMMA WholesAre == KeptIsWhole <=> \A c \in Clients : Whole(c)
  BY DEF KeptIsWhole, Whole, Asked, Named

\* A short file that is kept came whole behind its header,
LEMMA ShortIsWhole ==
    ASSUME Typed, Answers, NEW c \in Clients, NEW n \in 1..RecvBuf, ParseShort(c, n)
    PROVE  Whole(c)'
<1>1. /\ FirstRecv(c, n) /\ n >= 3 /\ n \in Nat
      /\ cut'[c] = cut[c]
  BY GetFileAssumption DEF ParseShort, FirstRecv, Typed, ClientTypes
<1>2. PICK p \in Asked(c) :
              /\ p \in Named /\ Told(c, p)
              /\ down[Cur(c)][2].n = Announced(Length(p))
              /\ SubSeq(down[Cur(c)], 4, n) \in Seq(Cells)
              /\ Len(SubSeq(down[Cur(c)], 4, n)) = n - 3 /\ n - 3 <= Length(p)
              /\ \A i \in 1..n - 3 : SubSeq(down[Cur(c)], 4, n)[i] = Cell("data", p, i)
  BY <1>1, HeaderIs
<1>3. PICK w \in Seq(Cells) : w = SubSeq(down[Cur(c)], 4, n)
  BY <1>2
<1>4. Len(w) = n - 3 /\ Len(w) <= Length(p) /\ \A i \in 1..Len(w) : w[i] = Cell("data", p, i)
  BY <1>2, <1>3
<1>5. CASE Announced(Length(p)) > n - 3
  <2>1. ret'[c] = "fail"
    BY <1>2, <1>5 DEF ParseShort, Return, Typed, ClientTypes
  <2>. QED
    BY <2>1 DEF Whole, Kept
<1>6. CASE ~(Announced(Length(p)) > n - 3)
  <2>1. path' = path /\ written'[c] = w
    BY <1>2, <1>3, <1>6 DEF ParseShort, Return, Typed, ClientTypes
  <2>2. p \in Asked(c)'
    BY <1>1, <2>1 DEF Asked
  <2>4. Length(p) < DigitsLimit => Length(p) <= Len(w)
    BY <1>1, <1>4, <1>6, LengthIs
  <2>5. IsFileOf(w, p)
    BY <1>2, <1>4, <2>4, WholeIs
  <2>. QED
    BY <2>1, <2>2, <2>5 DEF Whole, Kept, IsFileOf, Blocks
<1>. QED
  BY <1>5, <1>6

\* and a long one ended at the length that was announced.
LEMMA LongIsWhole ==
    ASSUME Typed, Answers, NEW c \in Clients, EndBody(c)
    PROVE  Whole(c)'
<1>1. /\ cpc[c] = "body" /\ cut' = cut /\ path' = path /\ written'[c] = written[c]
      /\ ret'[c] = "ok" => filelen[c] = Len(written[c])
  BY DEF EndBody, Return, Complete, Typed, ClientTypes
<1>2. PICK p \in Asked(c) : Got(c, p)
  BY <1>1 DEF Answers, InBody
<1>3. p \in Named /\ Length(p) \in Nat
  BY <1>1, <1>2, AskedIs, LengthIs DEF Typed
<1>4. PICK w \in Seq(Cells) : w = written[c]
  BY DEF Typed, ClientTypes
<1>5. Len(w) \in Nat /\ Len(w) <= Length(p) /\ \A i \in 1..Len(w) : w[i] = Cell("data", p, i)
  <2>1. Len(w) + Len(down[Cur(c)]) <= Length(p) /\ \A i \in 1..Len(w) : w[i] = Cell("data", p, i)
    BY <1>2, <1>4 DEF Got
  <2>2. Len(w) \in Nat /\ Len(down[Cur(c)]) \in Nat
    <3>1. PICK s \in Seq(Cells) : s = down[Cur(c)]
      BY CurIs DEF Typed, WireTypes
    <3>. QED
      BY <3>1, RangeIs
  <2>. QED
    BY <1>3, <2>1, <2>2
<1>6. ASSUME Kept(c)'
      PROVE  IsFileOf(w, p)
  <2>1. Announced(Length(p)) = Len(w)
    BY <1>1, <1>2, <1>4, <1>6 DEF Kept, Got
  <2>2. Length(p) < DigitsLimit => Length(p) <= Len(w)
    BY <1>5, <2>1, LengthIs
  <2>. QED
    BY <1>3, <1>5, <2>2, WholeIs
<1>7. p \in Asked(c)'
  BY <1>1, <1>2 DEF Asked
<1>. QED
  BY <1>1, <1>4, <1>6, <1>7 DEF Whole, IsFileOf, Blocks

\* A client keeps whole files.
LEMMA ClientKeepsWholes ==
    ASSUME Typed, Answers, KeptIsWhole, NEW c \in Clients, ClientStep(c)
    PROVE  KeptIsWhole'
<1>. USE DEF Typed
<1>1. ASSUME NEW d \in Clients, d # c
      PROVE  Whole(d)'
  <2>1. UNCHANGED <<path[d], status[d], written[d], ret[d], cut[d]>>
    BY <1>1, ClientFrame
  <2>2. Whole(d)
    BY WholesAre
  <2>3. Asked(d)' = Asked(d) /\ (Kept(d)' <=> Kept(d))
    BY <2>1 DEF Asked, Kept
  <2>. QED
    BY <2>1, <2>2, <2>3 DEF Whole, Blocks
<1>2. ret'[c] # "ok" => Whole(c)'
  BY DEF Whole, Kept
<1>3. ASSUME UNCHANGED ret[c], cpc[c] \in {"connect", "header", "reply", "body"}
      PROVE  ret'[c] # "ok"
  BY <1>3 DEF Answers, Pending
<1>4. ASSUME NEW x, NEW len, NEW w, Return(c, x, len, w, "fail")
      PROVE  ret'[c] # "ok"
  BY <1>4 DEF Return, ClientTypes
<1>5. ASSUME Begin(c)
      PROVE  ret'[c] # "ok"
  BY <1>5 DEF Begin, ClientTypes
<1>6. ASSUME Connect(c) \/ HeaderFuncUnset(c) \/ SendRequest(c) \/ RequestFails(c)
      PROVE  ret'[c] # "ok"
  BY <1>3, <1>4, <1>6 DEF Connect, HeaderFuncUnset, SendRequest, RequestFails
<1>7. ASSUME NoReply(c) \/ RecvBody(c) \/ BodyReset(c)
      PROVE  ret'[c] # "ok"
  BY <1>3, <1>4, <1>7 DEF NoReply, RecvBody, BodyReset
<1>8. ASSUME NEW n \in 1..RecvBuf, ParseInvalid(c, n) \/ ParseLong(c, n)
      PROVE  ret'[c] # "ok"
  BY <1>3, <1>4, <1>8 DEF ParseInvalid, ParseLong, FirstRecv
<1>9. ASSUME NEW n \in 1..RecvBuf, ParseTorn(c, n)
      PROVE  Whole(c)'
  BY <1>9 DEF ParseTorn, FirstRecv, Whole, ClientTypes
<1>10. Whole(c)'
  BY <1>2, <1>5, <1>6, <1>7, <1>8, <1>9, ShortIsWhole, LongIsWhole DEF ClientStep, Perform
<1>11. \A d \in Clients : Whole(d)'
  BY <1>1, <1>10
<1>. QED
  BY <1>11 DEF KeptIsWhole, Whole, Asked, Named


\* Only what a client sent, how it arrived, or a server that died is answered
\* or blamed INVALID.
LEMMA ClientBlames ==
    ASSUME Typed, Answers, InvalidHasCause, NEW c \in Clients, ClientStep(c)
    PROVE  InvalidHasCause'
<1>. USE DEF Typed
<1>1. ASSUME NEW d \in Clients, d # c, status'[d] = "INVALID"
      PROVE  (path[d].dir = NoSlash \/ cut[d] # {} \/ spc = "dead")'
  BY <1>1, ClientFrame DEF InvalidHasCause, server
<1>2. ASSUME UNCHANGED status[c], cpc[c] \in {"connect", "header", "reply", "body"}
      PROVE  status'[c] # "INVALID"
  BY <1>2 DEF Answers, Pending
<1>3. ASSUME NEW x \in {"unset", "OK", "ERROR"}, NEW len, NEW w, NEW r, Return(c, x, len, w, r)
      PROVE  status'[c] # "INVALID"
  BY <1>3 DEF Return, ClientTypes
<1>4. ASSUME Begin(c)
      PROVE  status'[c] # "INVALID"
  BY <1>4 DEF Begin, ClientTypes
<1>5. ASSUME Connect(c) \/ HeaderFuncUnset(c) \/ SendRequest(c) \/ RequestFails(c)
      PROVE  status'[c] # "INVALID"
  BY <1>2, <1>3, <1>5 DEF Connect, HeaderFuncUnset, SendRequest, RequestFails
<1>6. ASSUME RecvBody(c) \/ EndBody(c) \/ BodyReset(c)
      PROVE  status'[c] # "INVALID"
  <2>1. CASE RecvBody(c)
    BY <1>2, <2>1 DEF RecvBody
  <2>2. CASE EndBody(c) \/ BodyReset(c)
    BY <1>3, <2>2 DEF EndBody, BodyReset
  <2>. QED
    BY <1>6, <2>1, <2>2
<1>7. ASSUME NEW n \in 1..RecvBuf, ParseTorn(c, n) \/ ParseShort(c, n) \/ ParseLong(c, n)
      PROVE  status'[c] # "INVALID"
  <2>1. cpc[c] = "reply"
    BY <1>7 DEF ParseTorn, ParseShort, ParseLong, FirstRecv
  <2>2. CASE ParseTorn(c, n)
    BY <1>2, <1>3, <2>1, <2>2 DEF ParseTorn
  <2>3. CASE ParseShort(c, n)
    BY <1>3, <2>3 DEF ParseShort
  <2>4. CASE ParseLong(c, n)
    BY <2>4 DEF ParseLong, ClientTypes
  <2>. QED
    BY <1>7, <2>2, <2>3, <2>4
<1>8. ASSUME NEW n \in 1..RecvBuf, ParseInvalid(c, n)
      PROVE  (path[c].dir = NoSlash \/ cut[c] # {})'
  <2>1. /\ FirstRecv(c, n) /\ cpc[c] = "reply" /\ path' = path /\ Cur(c) \in Conns
        /\ n \in Nat /\ n >= 1 /\ n <= Len(down[Cur(c)])
        /\ Head(down[Cur(c)]).kind = "INVALID" \/ n = 1
    BY <1>8, CurIs, GetFileAssumption DEF ParseInvalid, FirstRecv, Return
  <2>2. PICK s \in Seq(Cells) : s = down[Cur(c)]
    BY <2>1 DEF WireTypes
  <2>3. Len(s) \in Nat /\ s # << >> /\ Head(s) = s[1]
    BY <2>1, <2>2, EmptyIs, RangeIs, TailIs
  <2>4. CASE Head(s).kind # "INVALID"
    <3>1. n = 1 /\ n < 3
      BY <2>1, <2>2, <2>4
    <3>2. cut' = [cut EXCEPT ![c] = cut[c] \cup {"header"}]
      BY <2>1, <2>2, <2>4, <3>1 DEF FirstRecv
    <3>3. "header" \in cut'[c]
      BY <3>2 DEF ClientTypes
    <3>. QED
      BY <3>3
  <2>5. CASE Head(s).kind = "INVALID"
    <3>1. ASSUME NEW p \in Asked(c), Told(c, p)
          PROVE  FALSE
      <4>1. p \in Named /\ s[1] = Response(p)[1]
        BY <2>1, <2>2, <2>3, <3>1, AskedIs DEF Told
      <4>. QED
        BY <2>3, <2>5, <4>1, ResponseIs
    <3>2. Refused(c)
      BY <2>1, <3>1 DEF Answers, InReply
    <3>3. path[c].dir = NoSlash \/ "request" \in cut[c]
      BY <3>2 DEF Refused
    <3>4. cut[c] \subseteq cut'[c]
      BY <2>1 DEF FirstRecv, ClientTypes
    <3>. QED
      BY <2>1, <3>3, <3>4
  <2>. QED
    BY <2>4, <2>5
<1>9. ASSUME NoReply(c)
      PROVE  spc' = "dead"
  BY <1>9 DEF NoReply, Quiet, server, ServerGone, Answers, InReply
<1>10. status'[c] = "INVALID" => (path[c].dir = NoSlash \/ cut[c] # {} \/ spc = "dead")'
  BY <1>4, <1>5, <1>6, <1>7, <1>8, <1>9 DEF ClientStep, Perform
<1>. QED
  BY <1>1, <1>10 DEF InvalidHasCause

\* The server spoils neither.
LEMMA ServerSpoilsNothing ==
    ASSUME Typed, Unanswered, KeptIsWhole, InvalidHasCause, ServerStep
    PROVE  KeptIsWhole' /\ InvalidHasCause'
<1>. USE DEF Typed
<1>1. UNCHANGED client /\ spc # "dead"
  <2>1. spc # "dead"
    BY DEF ServerStep, Start, Accept, ReadRequest, RecvFails, DieOfRequest, RefuseRequest, HandleRequest,
           Receives, Send, SendFails, ReadFails, HandlerReturns
  <2>. QED
    BY <2>1, ServerFrame
<1>2. \A c \in Clients : cut[c] \subseteq cut'[c]
  <2>1. ASSUME NEW n \in 0..3, DieOfRequest(n) \/ RefuseRequest(n) \/ HandleRequest(n)
        PROVE  \A c \in Clients : cut[c] \subseteq cut'[c]
    <3>1. Receives(n)
      BY <2>1 DEF DieOfRequest, RefuseRequest, HandleRequest
    <3>. QED
      BY <3>1, ReceivesIs
  <2>2. CASE Start \/ Accept \/ RecvFails \/ Send \/ SendFails \/ ReadFails \/ HandlerReturns
    BY <2>2 DEF Start, Accept, RecvFails, Send, SendFails, ReadFails, HandlerReturns
  <2>. QED
    BY <2>1, <2>2 DEF ServerStep, ReadRequest
<1>3. ASSUME NEW c \in Clients
      PROVE  Whole(c)'
  <2>1. Whole(c) /\ (Kept(c)' <=> Kept(c)) /\ Asked(c) \subseteq Asked(c)' /\ written' = written
    BY <1>1, <1>2, WholesAre DEF client, Kept, Asked
  <2>. QED
    BY <1>2, <2>1 DEF Whole, IsFileOf, Blocks
<1>4. KeptIsWhole'
  BY <1>3 DEF KeptIsWhole, Whole, Asked, Named
<1>5. InvalidHasCause'
  BY <1>1, <1>2 DEF InvalidHasCause, client
<1>. QED
  BY <1>4, <1>5

\* The server dies of the client it serves,
LEMMA ServerDies ==
    ASSUME Typed, Unanswered, DiesOfItsClientOnly, ServerStep
    PROVE  DiesOfItsClientOnly'
<1>. USE DEF Typed
<1>1. ASSUME NEW n \in 0..3, DieOfRequest(n)
      PROVE  (ClientGone(cur) \/ up[cur] # << >>)'
  <2>1. Receives(n) /\ UNCHANGED <<client, hungup, cur>> /\ Junk \in {buffer'.dir, buffer'.name}
    BY <1>1 DEF DieOfRequest, Receives
  <2>2. n # 3
    <3>1. ASSUME n = 3
          PROVE  FALSE
      <4>1. buffer' \in Paths
        BY <2>1, <3>1, ReceivesIs
      <4>. QED
        BY <2>1, <4>1, GetFileAssumption DEF Paths
    <3>. QED
      BY <3>1
  <2>3. n = 0 => ClientGone(cur)'
    BY <2>1, ReceivesIs DEF ClientGone, client
  <2>4. n \in {1, 2} => up'[cur] # << >>
    BY <2>1, ReceivesIs
  <2>. QED
    BY <2>1, <2>2, <2>3, <2>4
<1>2. ASSUME RecvFails \/ SendFails, spc' = "dead"
      PROVE  ClientGone(cur)'
  BY <1>2 DEF RecvFails, SendFails, Abort, ClientGone, client
<1>3. CASE Start \/ Accept \/ Send \/ ReadFails \/ HandlerReturns
  BY <1>3 DEF Start, Accept, Send, ReadFails, Abort, HandlerReturns, DiesOfItsClientOnly
<1>4. ASSUME NEW n \in 0..3, RefuseRequest(n) \/ HandleRequest(n)
      PROVE  spc' # "dead"
  BY <1>4 DEF RefuseRequest, HandleRequest
<1>. QED
  BY <1>1, <1>2, <1>3, <1>4 DEF ServerStep, ReadRequest, DiesOfItsClientOnly

\* and no client steps back from that.
LEMMA ClientStaysCause ==
    ASSUME Typed, DiesOfItsClientOnly, NEW c \in Clients, ClientStep(c)
    PROVE  DiesOfItsClientOnly'
<1>. USE DEF Typed
<1>1. UNCHANGED <<spc, cur>> /\ hungup \subseteq hungup'
  BY ClientFrame DEF server
<1>2. SUFFICES ASSUME spc = "dead"
              PROVE  (ClientGone(cur) \/ up[cur] # << >>)'
  BY <1>1 DEF DiesOfItsClientOnly
<1>3. cur \in Conns /\ cur[1] \in Clients
  BY <1>2, ConnIs DEF ServerTypes
<1>4. CASE ClientGone(cur)
  <2>1. cpc[c] \notin {"done", "crashed"}
    BY ClientMoves DEF Goes, Ends, Begin, Connect
  <2>2. cur[1] # c => cpc'[cur[1]] = cpc[cur[1]]
    BY <1>3, ClientFrame
  <2>. QED
    BY <1>1, <1>4, <2>1, <2>2 DEF ClientGone
<1>5. CASE up[cur] # << >>
  <2>1. up' = up
    <3>1. ASSUME up' # up
          PROVE  SendRequest(c)
      <4>1. cpc'[c] = "reply" /\ cpc[c] = "header"
        BY <3>1, ClientMoves
      <4>2. ASSUME HeaderFuncUnset(c) \/ RequestFails(c)
            PROVE  cpc'[c] # "reply"
        BY <4>2 DEF HeaderFuncUnset, RequestFails, Return, ClientTypes
      <4>. QED
        BY <4>1, <4>2 DEF ClientStep, Perform, Begin, Connect, ParseInvalid, ParseTorn, ParseShort,
                          ParseLong, FirstRecv, NoReply, RecvBody, EndBody, BodyReset
    <3>2. ~SendRequest(c)
      BY <1>2 DEF SendRequest, ServerGone
    <3>. QED
      BY <3>1, <3>2
  <2>. QED
    BY <1>1, <1>5, <2>1
<1>. QED
  BY <1>2, <1>4, <1>5 DEF DiesOfItsClientOnly

(***************************************************************************)
(* The invariant, and the theorems.                                        *)
(***************************************************************************)
LEMMA InitState == Init => IInv
<1>. SUFFICES ASSUME Init PROVE IInv
  OBVIOUS
<1>. USE DEF Init
<1>1. ServerTypes /\ WireTypes
  BY EmptyIs, GetFileAssumption DEF ServerTypes, WireTypes, Named
<1>2. ClientTypes
  <2>1. \A c \in Clients : Requests[c] \in Nat \ {0}
    BY GetFileAssumption
  <2>2. \A c \in Clients : 1 \in 1..Requests[c]
    BY <2>1
  <2>3. 0 \in Numbers /\ << >> \in Seq(Cells)
    BY EmptyIs DEF Numbers
  <2>. QED
    BY <2>2, <2>3 DEF ClientTypes
<1>3. Placed
  <2>1. backlog = << >> /\ Range(backlog) = {} /\ IsInjective(backlog)
    BY EmptyIs
  <2>2. \A k \in Conns : k # cur
    BY GetFileAssumption
  <2>3. Unused /\ InLine
    BY <2>1, <2>2 DEF Unused, InLine
  <2>4. Unanswered
    BY <2>1 DEF Unanswered, Waiting
  <2>5. \A c \in Clients : Unread(c)
    BY DEF Unread
  <2>. QED
    BY <2>3, <2>4, <2>5 DEF Placed
<1>4. Answers
  BY DEF Answers, Sending, InReply, InBody, Pending
<1>5. KeptIsWhole /\ InvalidHasCause /\ DiesOfItsClientOnly
  BY DEF KeptIsWhole, Kept, InvalidHasCause, DiesOfItsClientOnly
<1>. QED
  BY <1>1, <1>2, <1>3, <1>4, <1>5 DEF IInv

LEMMA StutterKeeps == IInv /\ UNCHANGED vars => IInv'
<1>. SUFFICES ASSUME IInv, UNCHANGED vars PROVE IInv'
  OBVIOUS
<1>. USE DEF IInv, vars, server, client
<1>1. ServerTypes' /\ WireTypes' /\ ClientTypes'
  BY DEF ServerTypes, WireTypes, ClientTypes
<1>2. Placed'
  BY DEF Placed, Unused, InLine, Unanswered, Unread, Used, Waiting, Serves, Cur, Request
<1>3. Answers'
  <2>1. Sending'
    BY DEF Answers, Sending, Length
  <2>2. ASSUME NEW c \in Clients
        PROVE  InReply(c)' /\ InBody(c)' /\ Pending(c)'
    <3>1. Typed /\ InReply(c) /\ InBody(c) /\ Pending(c) /\ Cur(c)' = Cur(c)
      BY DEF Typed, Answers, Cur
    <3>2. Waiting(Cur(c))' => Waiting(Cur(c))
      BY <3>1 DEF Waiting
    <3>3. Serves(Cur(c))' => Serves(Cur(c))
      BY <3>1 DEF Serves
    <3>4. InReply(c)' /\ InBody(c)'
      BY <3>1, <3>2, <3>3, AnswersKept
    <3>. QED
      BY <3>1, <3>4 DEF Pending
  <2>. QED
    BY <2>1, <2>2 DEF Answers
<1>4. KeptIsWhole' /\ InvalidHasCause' /\ DiesOfItsClientOnly'
  BY DEF KeptIsWhole, IsFileOf, Kept, Blocks, InvalidHasCause, DiesOfItsClientOnly, ClientGone
<1>. QED
  BY <1>1, <1>2, <1>3, <1>4

LEMMA NextKeeps == IInv /\ [Next]_vars => IInv'
<1>. SUFFICES ASSUME IInv, [Next]_vars PROVE IInv'
  OBVIOUS
<1>1. Typed /\ Placed /\ Answers /\ KeptIsWhole /\ InvalidHasCause /\ DiesOfItsClientOnly
  BY DEF IInv, Typed
<1>2. Unanswered /\ Sending /\ \A c \in Clients : Unread(c)
  BY <1>1 DEF Placed, Answers
<1>3. CASE ServerStep
  <2>1. Typed'
    BY <1>1, <1>2, <1>3, ServerKeepsTypes
  <2>2. Placed' /\ Answers'
    BY <1>1, <1>2, <1>3, <2>1, ServerPlaces, ServerAnswers
  <2>3. KeptIsWhole' /\ InvalidHasCause' /\ DiesOfItsClientOnly'
    BY <1>1, <1>2, <1>3, ServerSpoilsNothing, ServerDies
  <2>. QED
    BY <2>1, <2>2, <2>3 DEF IInv, Typed
<1>4. ASSUME NEW c \in Clients, ClientStep(c)
      PROVE  IInv'
  <2>1. Typed'
    BY <1>1, <1>2, <1>4, ClientKeepsTypes
  <2>2. Placed' /\ Answers'
    BY <1>1, <1>4, <2>1, ClientPlaces, ClientAnswers
  <2>3. KeptIsWhole' /\ InvalidHasCause' /\ DiesOfItsClientOnly'
    BY <1>1, <1>4, ClientKeepsWholes, ClientBlames, ClientStaysCause
  <2>. QED
    BY <2>1, <2>2, <2>3 DEF IInv, Typed
<1>. QED
  BY <1>3, <1>4, StutterKeeps DEF Next, ClientStep

LEMMA Invariance == Spec => []IInv
  BY InitState, NextKeeps, PTL DEF Spec

\* Every variable of the programs has its type, for any number of clients and
\* requests: the accept queue stays within the listen backlog (gfserver.c),
\* no connection carries more than a request up or a window down, and the
\* server holds a connection exactly while it receives or sends.
THEOREM TypeCorrect == Spec => []TypeOK
<1>1. IInv => TypeOK
  <2>. SUFFICES ASSUME IInv PROVE TypeOK
    OBVIOUS
  <2>1. Range(backlog) \subseteq Conns
    BY RangeIs DEF IInv, WireTypes
  <2>. QED
    BY <2>1 DEF IInv, ServerTypes, WireTypes, ClientTypes, TypeOK, Named
<1>. QED
  BY <1>1, Invariance, PTL

\* A download that gfclient_download keeps (gfclient_download.c:158-171) is one
\* whole file of the server, of the path asked for unless the request came in
\* pieces, however the responses are cut, whoever hangs up and whichever read of
\* the handler fails.  Two exceptions are the code's: a length with more digits
\* than its header has room for (gfserver.c:110) makes a beginning of the file
\* pass for all of it, and a path without a file is kept as an empty one, with
\* status OK (gfclient.c:204-240), though gfclient.h:97 speaks of the status of
\* the response.
THEOREM KeptFilesAreWhole == Spec => []KeptIsWhole
<1>1. IInv => KeptIsWhole
  BY DEF IInv
<1>. QED
  BY <1>1, Invariance, PTL

\* INVALID is a client's own doing, or of how its bytes arrived, or of a server
\* that died: what an earlier client left in the buffer that gfserver.c never
\* clears (gfserver.c:266-326) spoils no request that arrives whole.
THEOREM InvalidsHaveCauses == Spec => []InvalidHasCause
<1>1. IInv => InvalidHasCause
  BY DEF IInv
<1>. QED
  BY <1>1, Invariance, PTL

\* A server that listens dies only of the client it serves, one that left before
\* its response was sent or whose request came in pieces: no other client, and no
\* earlier one, takes it down.
THEOREM DiesOfItsClient == Spec => []DiesOfItsClientOnly
<1>1. IInv => DiesOfItsClientOnly
  BY DEF IInv
<1>. QED
  BY <1>1, Invariance, PTL

===============================================================================
