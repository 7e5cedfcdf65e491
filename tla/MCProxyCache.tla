---------------------------- MODULE MCProxyCache ----------------------------
(* Instances of ProxyCache for TLC: an empty file, one shorter than a read *)
(* and one longer, and a path the cache does not have.                     *)
EXTENDS ProxyCache, TLC

CONSTANTS p1, p2, w1, w2, empty, short, long, absent

OneProxy   == {p1}
TwoProxies == {p1, p2}
TwoWorkers == {w1, w2}

SomeCached == {empty, short, long}
SomePaths  == SomeCached \cup {absent}
TwoFiles   == {short, long}
TwoPaths   == TwoFiles \cup {absent}

\* In blocks; none is past IntMax.
Sizes == (empty :> 0) @@ (short :> 1) @@ (long :> 3)
SizeOf(files) == [f \in files |-> Sizes[f]]
SomeSize == SizeOf(SomeCached)
TwoSize  == SizeOf(TwoFiles)
===============================================================================
