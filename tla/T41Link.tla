------------------------------- MODULE T41Link -------------------------------
(***************************************************************************)
(* The SPI link from the ESP32-S3 to the Teensy 4.1: comm_spi_t41_task     *)
(* hands one transaction at a time to the SPI slave driver, the driver's   *)
(* interrupt on the other core hands back what the Teensy sent, and web    *)
(* and shell tasks change the command cache at any moment.                 *)
(*                                                                         *)
(* A COMMAND frame carries a snapshot of the cache and is kept until the   *)
(* Teensy acknowledges it; it is sent again when that takes too long, and  *)
(* given up after MaxRetries.  Frames from the Teensy that want an answer  *)
(* get it from a slot for one answer.                                      *)
(*                                                                         *)
(* The Teensy and the SPI driver are external.  The Teensy, master of the  *)
(* bus, may send anything in an exchange, but acknowledges only a command  *)
(* it has received.  Of the cached targets the model keeps the motor       *)
(* switch and the one-shot encoder reset.                                  *)
(*                                                                         *)
(* Definitions whose name starts with Bug are not part of the model: each  *)
(* is a wrong version of the definition below it, kept to show that a      *)
(* property notices the mistake.                                           *)
(***************************************************************************)
EXTENDS Naturals

CONSTANTS
  MaxRetries,   \* kMaxCmdRetries
  AckTimeout,   \* kAckTimeoutMs, in units of the model
  SeqCount,     \* number of sequence numbers, 2^32 in the code
  SeqWraps,     \* FALSE bounds a run to the first SeqCount frames
  PeerSeqs,     \* sequence numbers of the Teensy's own frames
  SlowTask,     \* an exchange may end at any point of the task's pass, not only
                \* while the task waits to be notified
  MaxAsked      \* bound: encoder resets asked for

ASSUME T41LinkAssumption ==
  /\ MaxRetries \in Nat /\ AckTimeout \in Nat \ {0} /\ MaxAsked \in Nat
  /\ SeqCount \in Nat \ {0, 1} /\ PeerSeqs \subseteq Nat
  /\ {SeqWraps, SlowTask} \subseteq BOOLEAN

VARIABLES
  pc,        \* where comm_spi_t41_task stands in spi_s3_service_comm
  motor,     \* g_cache_motor
  reset,     \* g_cache_reset
  txSeq,     \* g_next_tx_seq
  pending,   \* g_pending_control
  answer,    \* g_pending_ack_response, _is_nack and _target
  frame,     \* local_frame of queue_transaction
  done,      \* spi_transaction_done
  newData,   \* spi_new_data
  rx,        \* spi_rx_buf_safe
  tx,        \* spi_tx_buf
  bus,       \* the driver: "idle", or "queued" with a transaction to exchange
  heard,     \* Teensy: the last command it received, 0 at first
  peerMotor, \* Teensy: the motor switch of that command
  asked,     \* history: encoder resets asked for
  carried,   \* history: commands built that ask for an encoder reset
  onWire     \* history: exchanges that carried the pending command

cache == <<motor, reset, asked>>
driver == <<done, newData, rx, tx, bus>>
peer == <<heard, peerMotor>>
vars == <<pc, cache, txSeq, pending, answer, frame, driver, peer, carried, onWire>>

Seqs == 0 .. SeqCount - 1
Kinds == {"none", "ack", "nack", "command", "heartbeat"}
\* `seq' is the frame's own number in a command and the number it answers in
\* an ACK or NACK.
Frames == [kind : Kinds, seq : Seqs \cup PeerSeqs, motor : BOOLEAN, reset : BOOLEAN]
NoFrame == [kind |-> "none", seq |-> 0, motor |-> FALSE, reset |-> FALSE]
Pendings == [used : BOOLEAN, retries : 0..MaxRetries, age : 0..AckTimeout, frame : Frames]
\* "command": a COMMAND, or another frame that asks for an ACK; "fragment": a
\* BULK_FRAGMENT; "report": frames that want no answer; "noise": an empty frame
\* or one whose header or checksum is wrong.
PeerKinds == {"ack", "nack", "command", "fragment", "report", "noise"}
PeerFrames == [kind : PeerKinds, seq : Seqs \cup PeerSeqs]
Noise == [kind |-> "noise", seq |-> 0]
Answers == [kind : {"none", "ack", "nack"}, seq : Seqs \cup PeerSeqs]
NoAnswer == [kind |-> "none", seq |-> 0]

TypeOK ==
  /\ pc \in {"check", "rx", "poll", "build", "clear", "submit", "flag", "line"}
  /\ motor \in BOOLEAN /\ reset \in BOOLEAN /\ txSeq \in Seqs
  /\ pending \in Pendings
  /\ answer \in Answers /\ frame \in Frames
  /\ done \in BOOLEAN /\ newData \in BOOLEAN /\ rx \in PeerFrames /\ tx \in Frames
  /\ bus \in {"idle", "queued"} /\ heard \in Seqs /\ peerMotor \in BOOLEAN
  /\ asked \in Nat /\ carried \in Nat /\ onWire \in Nat

-----------------------------------------------------------------------------
\* spi_s3_service_comm: the received frame first.

At(label) == pc = label

CheckNewData ==
  /\ At("check")
  /\ pc' = IF newData THEN "rx" ELSE "poll"
  /\ newData' = FALSE
  /\ UNCHANGED <<cache, txSeq, pending, answer, frame, done, rx, tx, bus, peer,
                 carried, onWire>>

\* Takes any acknowledgement for the one awaited.
BugAwaited(f) == pending.used
Awaited(f) == pending.used /\ f.seq = pending.frame.seq

\* An ACK ends the wait; a NACK makes the next retry due at once.
\* Starts counting retries again.
BugSettled(f) ==
  IF ~Awaited(f) THEN pending
  ELSE IF f.kind = "ack" THEN [pending EXCEPT !.used = FALSE]
  ELSE [pending EXCEPT !.age = AckTimeout, !.retries = 0]
Settled(f) ==
  IF ~Awaited(f) THEN pending
  ELSE IF f.kind = "ack" \/ pending.retries >= MaxRetries
       THEN [pending EXCEPT !.used = FALSE]
       ELSE [pending EXCEPT !.age = AckTimeout]

\* handle_rx_frame.  A frame that arrives while it is read may come out torn.
ProcessRx ==
  /\ At("rx") /\ pc' = "poll"
  /\ \E f \in {rx} \cup (IF newData THEN {Noise} ELSE {}) :
       /\ pending' = IF f.kind \in {"ack", "nack"} THEN Settled(f) ELSE pending
       /\ \/ f.kind \in {"command", "fragment"} /\ answer' = [kind |-> "ack", seq |-> f.seq]
          \/ f.kind = "fragment" /\ answer' = [kind |-> "nack", seq |-> f.seq]
          \/ f.kind \notin {"command", "fragment"} /\ UNCHANGED answer
  /\ UNCHANGED <<cache, txSeq, frame, driver, peer, carried, onWire>>

Poll ==
  /\ At("poll")
  /\ pc' = IF done THEN "build" ELSE "line"
  /\ UNCHANGED <<cache, txSeq, pending, answer, frame, driver, peer, carried, onWire>>

-----------------------------------------------------------------------------
\* queue_transaction: an answer goes first, then a retry that is due, then a
\* new command; while a command is unanswered, a heartbeat.

NextSeq == (txSeq + 1) % SeqCount
MayEncode == SeqWraps \/ txSeq + 1 < SeqCount
Due == pending.age >= AckTimeout
Exhausted == Due /\ pending.retries >= MaxRetries

BuildAnswer ==
  /\ At("build") /\ answer # NoAnswer /\ MayEncode
  /\ txSeq' = NextSeq
  /\ frame' = [NoFrame EXCEPT !.kind = answer.kind, !.seq = answer.seq]
  /\ answer' = NoAnswer /\ pc' = "submit"
  /\ UNCHANGED <<cache, pending, driver, peer, carried, onWire>>

\* With the targets of now.
BugRetryFrame == [pending.frame EXCEPT !.motor = motor]
RetryFrame == pending.frame

\* Sends it again without limit.
BugBuildRetry ==
  /\ At("build") /\ answer = NoAnswer
  /\ pending.used /\ Due
  /\ pending' = [pending EXCEPT !.retries = @ + 1, !.age = 0]
  /\ frame' = RetryFrame /\ pc' = "submit"
  /\ UNCHANGED <<cache, txSeq, answer, driver, peer, carried, onWire>>

BuildRetry ==
  /\ At("build") /\ answer = NoAnswer
  /\ pending.used /\ Due /\ pending.retries < MaxRetries
  /\ pending' = [pending EXCEPT !.retries = @ + 1, !.age = 0]
  /\ frame' = RetryFrame /\ pc' = "submit"
  /\ UNCHANGED <<cache, txSeq, answer, driver, peer, carried, onWire>>

\* Keeps the frame of the command before.
BugPendingFor(f) == [used |-> TRUE, retries |-> 0, age |-> 0,
                     frame |-> IF pending.frame.kind = "none" THEN f ELSE pending.frame]
PendingFor(f) == [used |-> TRUE, retries |-> 0, age |-> 0, frame |-> f]

BuildCommand ==
  /\ At("build") /\ answer = NoAnswer /\ (pending.used => Exhausted) /\ MayEncode
  /\ txSeq' = NextSeq
  /\ frame' = [kind |-> "command", seq |-> NextSeq, motor |-> motor, reset |-> reset]
  /\ pending' = PendingFor(frame')
  /\ carried' = IF reset THEN carried + 1 ELSE carried
  /\ onWire' = 0 /\ pc' = "clear"
  /\ UNCHANGED <<cache, answer, driver, peer>>

\* The one-shot request is withdrawn after the cache was read.
BugClearReset ==
  /\ At("clear") /\ pc' = "submit"
  /\ UNCHANGED <<cache, txSeq, pending, answer, frame, driver, peer, carried, onWire>>

ClearReset ==
  /\ At("clear") /\ pc' = "submit" /\ reset' = FALSE
  /\ UNCHANGED <<motor, asked, txSeq, pending, answer, frame, driver, peer, carried,
                 onWire>>

BuildHeartbeat ==
  /\ At("build") /\ answer = NoAnswer /\ pending.used /\ ~Due /\ MayEncode
  /\ txSeq' = NextSeq
  /\ frame' = [NoFrame EXCEPT !.kind = "heartbeat"] /\ pc' = "submit"
  /\ UNCHANGED <<cache, pending, answer, driver, peer, carried, onWire>>

\* The frame goes to spi_tx_buf and to the driver, which refuses it while
\* another one is queued; the flag follows when the driver has taken it.
Submit ==
  /\ At("submit")
  /\ tx' = frame
  /\ pc' = IF bus = "idle" THEN "flag" ELSE "line"
  /\ bus' = "queued"
  /\ UNCHANGED <<cache, txSeq, pending, answer, frame, done, newData, rx, peer,
                 carried, onWire>>

\* Forgets the flag.
BugFlagBusy ==
  /\ At("flag") /\ pc' = "line"
  /\ UNCHANGED <<cache, txSeq, pending, answer, frame, driver, peer, carried, onWire>>

FlagBusy ==
  /\ At("flag") /\ pc' = "line" /\ done' = FALSE
  /\ UNCHANGED <<cache, txSeq, pending, answer, frame, newData, rx, tx, bus, peer,
                 carried, onWire>>

\* While the Teensy holds its reset line low, each pass asks for an encoder
\* reset and switches the motor off.
ResetLine ==
  /\ At("line") /\ pc' = "check"
  /\ \/ UNCHANGED cache
     \/ /\ asked < MaxAsked /\ asked' = asked + 1
        /\ reset' = TRUE /\ motor' = FALSE
  /\ UNCHANGED <<txSeq, pending, answer, frame, driver, peer, carried, onWire>>

Task ==
  \/ CheckNewData \/ ProcessRx \/ Poll \/ BuildAnswer \/ BuildRetry \/ BuildCommand
  \/ ClearReset \/ BuildHeartbeat \/ Submit \/ FlagBusy \/ ResetLine

-----------------------------------------------------------------------------
\* Other tasks: spi_s3_set_motor_power and spi_s3_set_reset_encoder.

SetMotor ==
  /\ motor' = ~motor
  /\ UNCHANGED <<pc, reset, asked, txSeq, pending, answer, frame, driver, peer,
                 carried, onWire>>

SetReset ==
  /\ asked < MaxAsked /\ asked' = asked + 1 /\ reset' = TRUE
  /\ UNCHANGED <<pc, motor, txSeq, pending, answer, frame, driver, peer, carried, onWire>>

\* 1 unit of time.
Tick ==
  /\ pending.used /\ ~Due
  /\ pending' = [pending EXCEPT !.age = @ + 1]
  /\ UNCHANGED <<pc, cache, txSeq, answer, frame, driver, peer, carried, onWire>>

\* What the Teensy can send.
PeerSends ==
  {Noise, [kind |-> "report", seq |-> 0]}
    \cup [kind : {"command", "fragment"}, seq : PeerSeqs]
    \cup [kind : {"ack", "nack"}, seq : {heard}]

\* One exchange of frames and spi_s3_post_trans_cb, on the other core.  What
\* the task sends arrives intact or not at all.
Exchange(f, intact) ==
  /\ bus = "queued" /\ (SlowTask \/ At("check"))
  /\ bus' = "idle" /\ rx' = f /\ newData' = TRUE /\ done' = TRUE
  /\ IF intact /\ tx.kind = "command"
     THEN heard' = tx.seq /\ peerMotor' = tx.motor
     ELSE UNCHANGED peer
  /\ onWire' = IF tx.kind = "command" /\ tx.seq = pending.frame.seq
               THEN onWire + 1 ELSE onWire
  /\ UNCHANGED <<pc, cache, txSeq, pending, answer, frame, tx, carried>>

\* The first transaction is queued by spi_slave_s3_init, in the main task.
Init ==
  /\ pc = "build" /\ motor = TRUE /\ reset = FALSE /\ txSeq = 0
  /\ pending = [used |-> FALSE, retries |-> 0, age |-> 0, frame |-> NoFrame]
  /\ answer = NoAnswer /\ frame = NoFrame
  /\ done = TRUE /\ newData = FALSE /\ rx = Noise /\ tx = NoFrame /\ bus = "idle"
  /\ heard = 0 /\ peerMotor = FALSE
  /\ asked = 0 /\ carried = 0 /\ onWire = 0

Next ==
  \/ Task \/ SetMotor \/ SetReset \/ Tick
  \/ \E f \in PeerSends, intact \in BOOLEAN : Exchange(f, intact)

Spec == Init /\ [][Next]_vars

\* The task wakes at every exchange and at least every 50 ms; time passes; and
\* the link is not dead: exchanges go on, again and again the Teensy sends
\* nothing that wants an answer, and a command sent again and again arrives.
Quiet(f) == f.kind \notin {"command", "fragment"}
FairSpec ==
  /\ Spec
  /\ WF_vars(Task) /\ WF_vars(Tick)
  /\ SF_vars(\E f \in PeerSends : Quiet(f) /\ Exchange(f, TRUE))
  /\ SF_vars(tx.kind = "command" /\ \E f \in PeerSends : Exchange(f, TRUE))
=============================================================================
