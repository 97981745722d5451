----------------------------- MODULE MCSockets -----------------------------
(***************************************************************************)
(* Sockets with three sockets on the device, for TLC: one that listens and *)
(* two connections, or two that listen and one connection.                 *)
(***************************************************************************)
EXTENDS Sockets

MCDeviceSds == {0, 1, 7}
=============================================================================
