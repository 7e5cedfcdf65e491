-------------------------- MODULE MCCacheLifecycle --------------------------
(***************************************************************************)
(* A handler, a worker and three paths; the proxy gives the segment one    *)
(* cell, the largest file has two.  A list is empty, unsorted or of one.   *)
(***************************************************************************)
EXTENDS CacheLifecycle, TLC

MCLists == {<< >>, <<2>>, <<3, 1>>}
MCSize == [f \in Keys |-> f - 1]
=============================================================================
