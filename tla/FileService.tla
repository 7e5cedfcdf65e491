----------------------------- MODULE FileService -----------------------------
(***************************************************************************)
(* What a handler of the Getfile server promises a client, whatever serves *)
(* the files (gfserver.h:76-120 and the protocol of gios-spr-2018-pr1-     *)
(* master/Readme.md:206-222): the header tells the truth about the path,   *)
(* and what follows it is that file, in order, and nothing else.           *)
(***************************************************************************)
EXTENDS Naturals, Sequences

CONSTANTS
    Clients,  \* connections served at once
    Paths,    \* paths a client may ask for
    Cached,   \* the paths that name a file
    Size,     \* blocks of each of these files
    None      \* no path

VARIABLES
    ask,     \* the path of the request being served
    status,  \* the status of the header sent
    len,     \* the length in that header
    sent,    \* the blocks sent after it
    ret      \* how the handler returned

vars == <<ask, status, len, sent, ret>>

Init ==
    /\ ask = [c \in Clients |-> None]
    /\ status = [c \in Clients |-> "none"]
    /\ len = [c \in Clients |-> 0]
    /\ sent = [c \in Clients |-> << >>]
    /\ ret = [c \in Clients |-> "none"]

\* A handler runs for c, and has got as far as this header.
Serving(c, s) == ask[c] # None /\ ret[c] = "none" /\ status[c] = s

Ask(c, f) ==
    /\ ask[c] = None
    /\ ask' = [ask EXCEPT ![c] = f]
    /\ UNCHANGED <<status, len, sent, ret>>

\* The path names no file: the answer is the header alone.
Refuse(c) ==
    /\ Serving(c, "none")
    /\ ask[c] \notin Cached
    /\ status' = [status EXCEPT ![c] = "FILE_NOT_FOUND"]
    /\ ret' = [ret EXCEPT ![c] = "ok"]
    /\ UNCHANGED <<ask, len, sent>>

\* The header of a file, alone or with what the handler returns at once.
Announce(c) ==
    /\ Serving(c, "none")
    /\ ask[c] \in Cached
    /\ status' = [status EXCEPT ![c] = "OK"]
    /\ len' = [len EXCEPT ![c] = Size[ask[c]]]
    /\ \/ UNCHANGED ret
       \/ ret' = [ret EXCEPT ![c] = IF Size[ask[c]] = 0 THEN "ok" ELSE "fail"]
    /\ UNCHANGED <<ask, sent>>

\* More of the file.
Deliver(c) ==
    /\ Serving(c, "OK")
    /\ \E n \in Len(sent[c]) .. Size[ask[c]] :
          sent' = [sent EXCEPT ![c] = [i \in 1..n |-> ask[c]]]
    /\ UNCHANGED <<ask, status, len, ret>>

\* Success is reported of a whole file only; the rest is a broken connection.
Finish(c) ==
    /\ Serving(c, "OK")
    /\ \E r \in {"ok", "fail"} :
          /\ r = "ok" => Len(sent[c]) = Size[ask[c]]
          /\ ret' = [ret EXCEPT ![c] = r]
    /\ UNCHANGED <<ask, status, len, sent>>

Close(c) ==
    /\ ret[c] # "none"
    /\ ask' = [ask EXCEPT ![c] = None]
    /\ status' = [status EXCEPT ![c] = "none"]
    /\ len' = [len EXCEPT ![c] = 0]
    /\ sent' = [sent EXCEPT ![c] = << >>]
    /\ ret' = [ret EXCEPT ![c] = "none"]

Next ==
    \E c \in Clients :
        \/ \E f \in Paths : Ask(c, f)
        \/ Refuse(c) \/ Announce(c) \/ Deliver(c) \/ Finish(c) \/ Close(c)

Spec == Init /\ [][Next]_vars
===============================================================================
