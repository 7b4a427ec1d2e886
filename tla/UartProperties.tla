---------------------------- MODULE UartProperties ----------------------------
(***************************************************************************)
(* What the numbering of the UART link is meant to guarantee.              *)
(***************************************************************************)
EXTENDS UartSecure

\* No frame ever gets a number that an earlier frame had, also across resets, cut
\* short or failed reservations and changes of the key, as long as every boot
\* could read NVS.
NumbersFresh == [][sealed' # sealed => sealed' > sealed \/ blind]_vars

\* A boot costs no more than one window of numbers: reserving them neither loses
\* more at a reset nor sets aside again what is already reserved.
WindowPerBoot == stored <= count + boots * Window

\* The last Remembered sessions that were left.
RecentlyRetired == {s \in Sessions : age[s] \in 1..Remembered}

\* A frame is taken once, whatever frames of how many sessions are mixed, except
\* after its session has been forgotten over Remembered later ones.
TakenOnce ==
  [][<<session, rxSeq>>' # <<session, rxSeq>> /\ session' # NoSession
       /\ <<session, rxSeq>>' \in accepted
       => session' # session /\ session' \notin RecentlyRetired]_vars
=============================================================================
