---------------------------- MODULE MCMinifyRpc ----------------------------
(***************************************************************************)
(* Two threads, two images, one of which may be missing and one not        *)
(* writable, and a server with two workers: a call that timed out, a later *)
(* one on the same connection and one of the other thread can be with the  *)
(* server together.                                                        *)
(***************************************************************************)
EXTENDS MinifyRpc

MCWorkload == <<1, 2>>
=============================================================================
