----------------------------- MODULE MCAccess ------------------------------
(* Instances of Access for TLC.                                             *)
EXTENDS Access, TLC

SomeConfigs ==
  {[on |-> TRUE, auth |-> TRUE, main |-> FALSE],
   [on |-> TRUE, auth |-> TRUE, main |-> TRUE],
   [on |-> TRUE, auth |-> FALSE, main |-> TRUE],
   [on |-> FALSE, auth |-> TRUE, main |-> TRUE]}
=============================================================================
