------------------------ MODULE ServoOutputProperties ------------------------
(***************************************************************************)
(* What the way from a motion command to the servo chip is meant to        *)
(* guarantee.                                                              *)
(***************************************************************************)
EXTENDS ServoOutput

Quiet == serving = NoCommand /\ queue = <<>> /\ \A p \in Producers : pc[p] = "idle"

\* When the queue has been worked off, the chip does what was last asked of it: skipping
\* duplicates, merging neighbours, emptying a full queue and the shadow together never
\* let an older command of a class win over a newer one, as long as no write failed.
\* Two things are beyond it.  A full queue dropped the command (latest is "lost").  Or the
\* queue code, which has no lock, crossed it with another one ("crossed"): two tasks were
\* at work on its class at once, it went in while another task had the queue's content
\* in its hands, or the servo task got it before an older one that was there.
LatestWins ==
  Quiet /\ faults = 0 => \A c \in DOMAIN chip : latest[c] \in {chip[c]} \cup Gone

\* The operator has switched the motor off and leaves it at that.
LeftOff == ~motor /\ ~lock /\ pc["operator"] = "idle"

\* With the motor switched off for good the turret stops, whatever was decided, queued,
\* dropped or raced before; except where the last command of its class crossed another
\* one, and the stop that the turret repeats is taken for a duplicate ever after.
Misled == last = Stop /\ latest.turret = "crossed"
MotorOffStops == <>[](LeftOff /\ faults = 0) => <>[](chip.turret # "run" \/ Misled)

\* "Keep retrying on next cycle if I2C/PCA had a transient write failure": a stop
\* whose write failed reaches the chip in the end.
StopRetried == <>[]LeftOff => <>[](chip.turret # "run")
=============================================================================
