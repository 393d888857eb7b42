------------------------------ MODULE MCL3Agent ------------------------------
(* Two agents and a router with an interface and two gateways. *)
EXTENDS L3Agent
=============================================================================
