------------------------------ MODULE MCT41Link ------------------------------
(***************************************************************************)
(* Instances of the SPI link for TLC.                                      *)
(***************************************************************************)
EXTENDS T41LinkProperties
=============================================================================
