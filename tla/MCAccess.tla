------------------------------ MODULE MCAccess ------------------------------
(* Access for TLC.                                                         *)
EXTENDS Access
=============================================================================
