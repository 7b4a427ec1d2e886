------------------------------- MODULE MCUart -------------------------------
(***************************************************************************)
(* Instances of the UART link for TLC.  Numbering and framing share no     *)
(* variable: each is explored while the other has not begun.               *)
(***************************************************************************)
EXTENDS UartProperties, CobsFraming

CONSTANTS s1, s2, s3, s4
Symmetric == Permutations(Sessions)

MCInit == Init /\ LineInit
MCNext == (LineInit /\ Next /\ UNCHANGED lineVars) \/ (Init /\ LineNext /\ UNCHANGED vars)
MCSpec == MCInit /\ [][MCNext]_<<vars, lineVars>>
=============================================================================
