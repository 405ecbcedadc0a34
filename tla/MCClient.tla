------------------------------ MODULE MCClient ------------------------------
(* Clients for TLC.                                                        *)
EXTENDS ClientInv, TLC
=============================================================================
