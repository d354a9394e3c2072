---------------------------- MODULE MCOcppjConn ----------------------------
(***************************************************************************)
(* Instances of OcppjConn for TLC.                                         *)
(***************************************************************************)
EXTENDS OcppjConn
=============================================================================
