---------------------------- MODULE MCKeyManager ----------------------------
(* Instances of KeyManager for TLC.                                         *)
EXTENDS KeyManager
=============================================================================
