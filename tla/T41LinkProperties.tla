-------------------------- MODULE T41LinkProperties --------------------------
(***************************************************************************)
(* What the S3 side of the SPI link is meant to guarantee.                 *)
(***************************************************************************)
EXTENDS T41Link

\* The transmit buffer is not rewritten while the driver may be sending it:
\* queue_transaction runs only between two exchanges, although the interrupt
\* that ends an exchange and the task read and write the same flags.
BufferFree == pc \in {"build", "clear", "submit"} => bus = "idle"

\* A command goes over the wire at most 1 + kMaxCmdRetries times, also when the
\* Teensy rejects it, when answers get lost and when other frames come between.
SendBound == onWire <= 1 + MaxRetries

\* The Teensy hears commands in the order they were built: a retry never brings
\* back the targets of an older one.
InOrder == [][heard' >= heard]_vars

\* A command is given up on an answer only if the Teensy has received it: a late
\* answer to an earlier command does not count for the next one.
AnsweredWhenHeard ==
  [][pc = "rx" /\ pending.used /\ ~pending'.used => heard = pending.frame.seq]_vars

\* The frames, flags, acknowledgements and retries together are the channel that
\* CommandChannel describes: the Teensy hears snapshots of the cache, never one older
\* than it has heard, and each is given up only when it was heard or tried out.
Channel == INSTANCE CommandChannel WITH
  MaxSends <- 1 + MaxRetries, switch <- motor, open <- pending.used, sends <- onWire,
  command <- [seq |-> pending.frame.seq, motor |-> pending.frame.motor],
  heard <- [seq |-> heard, motor |-> peerMotor]
ChannelKept == Channel!Spec

\* An encoder reset is one-shot: no request puts it into two commands.
OneShot == carried <= asked

\* A motor switch that stays off is heard by the Teensy in the end, whatever
\* command was unanswered when it was switched.
MotorOffArrives == <>[](~motor) => <>[](~peerMotor)
=============================================================================
