---------------------------- MODULE MCRegister ----------------------------
(* Instances of Register for TLC.                                          *)
EXTENDS Register
===========================================================================
