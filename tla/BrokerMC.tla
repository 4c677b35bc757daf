------------------------------ MODULE BrokerMC ------------------------------
(***************************************************************************)
(* Two agents and two threads for TLC.                                     *)
(***************************************************************************)
EXTENDS Broker

CONSTANTS a1, a2, t1, t2
=============================================================================
