------------------------------- MODULE MCBroker -------------------------------
(***************************************************************************)
(* Instances of Broker.                                                    *)
(***************************************************************************)
EXTENDS Broker
===============================================================================
