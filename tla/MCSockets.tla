----------------------------- MODULE MCSockets -----------------------------
(***************************************************************************)
(* A transfer client and two echo clients, whose messages have three bytes *)
(* and one; each may meet either server.  A file of three cells in chunks  *)
(* of two, and buffers that cut them.                                      *)
(***************************************************************************)
EXTENDS Sockets

CONSTANTS t1, e1, e2

OneTransfer       == {t1}
TwoEchoes         == {e1, e2}
EchoesAndTransfer == TwoEchoes \cup OneTransfer
TwoMessages       == (e1 :> 3) @@ (e2 :> 1)
=============================================================================
