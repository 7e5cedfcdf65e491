-------------------------- MODULE MCProxyHandlers --------------------------
(***************************************************************************)
(* Two threads with curl and one with files; a page of five cells, one     *)
(* without a length, and a path that is nowhere, for which the web server  *)
(* sends an error page of one cell.                                        *)
(***************************************************************************)
EXTENDS ProxyHandlers

CONSTANTS page, chunked, absent

MCPaths == {page, chunked, absent}
MCExists == {page, chunked}
MCKnown == {page, absent}
MCSize == [f \in MCPaths |-> IF f = page THEN 5 ELSE 1]
=============================================================================
