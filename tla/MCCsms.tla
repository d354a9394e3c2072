------------------------------- MODULE MCCsms -------------------------------
(***************************************************************************)
(* Instances of Csms for TLC.                                              *)
(***************************************************************************)
EXTENDS Csms

CONSTANTS c1, c2, c3, s1

\* Every dial is the same station's.
OneStation == [c \in Conns |-> s1]
=============================================================================
