----------------------------- MODULE MCGetFile -----------------------------
(* An instance of GetFile for TLC: in cells, a file that fits behind its    *)
(* header if no cut parts them, one that takes the loop, one whose length   *)
(* has too many digits, and a name with no file.                            *)
EXTENDS GetFile, TLC

CONSTANTS c1, c2, d, bad, fits, long, huge, absent

TwoClients == {c1, c2}
SomeDirs   == {d, bad}
SomeNames  == {fits, long, huge, absent}
In(dir, names) == [dir : {dir}, name : names]

Lengths  == (fits :> 1) @@ (long :> 4) @@ (huge :> 8)
SomeSize == [p \in In(d, DOMAIN Lengths) |-> Lengths[p.name]]

ThreeRequests == (c1 :> 2) @@ (c2 :> 1)
Workloads == (c1 :> In(d, {long}) \cup In(bad, {fits}))
          @@ (c2 :> In(d, {fits, huge, absent}))
=============================================================================
