---------------------------- MODULE T41LinkProofs ----------------------------
(***************************************************************************)
(* Theorems about the S3 side of the SPI link, for any number of retries,  *)
(* any time-out, any range of sequence numbers and any frames of the       *)
(* Teensy, with the interrupt free to end an exchange at any point of the  *)
(* task's pass.                                                            *)
(***************************************************************************)
EXTENDS T41LinkProperties, TLAPS

USE T41LinkAssumption

LEMMA FramesTyped ==
  /\ NoFrame \in Frames /\ Noise \in PeerFrames /\ NoAnswer \in Answers /\ 0 \in Seqs
<1>1. 0 \in Seqs
  BY DEF Seqs
<1>2. QED
  BY <1>1 DEF NoFrame, Frames, Kinds, Noise, PeerFrames, PeerKinds, NoAnswer, Answers

LEMMA NextSeqTyped == ASSUME txSeq \in Seqs PROVE NextSeq \in Seqs
<1>1. txSeq + 1 \in Nat /\ SeqCount \in Nat \ {0}
  BY DEF Seqs
<1>2. (txSeq + 1) % SeqCount \in 0 .. SeqCount - 1
  BY <1>1
<1>3. QED
  BY <1>2 DEF NextSeq, Seqs

-----------------------------------------------------------------------------
\* TypeOK needs to know that a command is numbered by the S3 itself: the Teensy
\* acknowledges the number it heard.
Numbered == \A f \in {frame, tx, pending.frame} : f.kind = "command" => f.seq \in Seqs

\* The task builds a frame only when it has seen `done', and `done' outside the
\* gap between queueing and noting it means that no transaction is queued.
DoneMeansIdle == done /\ pc # "flag" => bus = "idle"

\* The pending command is on its way: built and not queued, or queued.
InFlight ==
  \/ pc \in {"clear", "submit"} /\ frame.kind = "command"
  \/ bus = "queued" /\ tx.kind = "command"

\* Each time it is built or built again pays for one exchange.
SendsPaid == onWire + (IF InFlight THEN 1 ELSE 0) <= 1 + pending.retries

\* A request still in the cache has not been carried, except by the command just
\* built.
ResetPaid == carried + (IF reset /\ pc # "clear" THEN 1 ELSE 0) <= asked

LinkInv ==
  TypeOK /\ Numbered /\ BufferFree /\ DoneMeansIdle /\ SendsPaid /\ ResetPaid

USE DEF At, RetryFrame

LEMMA PendingUpdated ==
  ASSUME NEW p \in Pendings, NEW r \in 0..MaxRetries, NEW a \in 0..AckTimeout
  PROVE  /\ [p EXCEPT !.retries = r, !.age = a] \in Pendings
         /\ [p EXCEPT !.retries = r, !.age = a].frame = p.frame
         /\ [p EXCEPT !.retries = r, !.age = a].retries = r
         /\ [p EXCEPT !.age = a] \in Pendings
         /\ [p EXCEPT !.age = a].frame = p.frame
         /\ [p EXCEPT !.age = a].retries = p.retries
BY DEF Pendings

LEMMA InitInv == Init => LinkInv
<1> SUFFICES ASSUME Init PROVE LinkInv
  OBVIOUS
<1>1. TypeOK
  <2>1. pending \in Pendings
    BY FramesTyped DEF Init, Pendings
  <2>2. QED
    BY <2>1, FramesTyped DEF Init, TypeOK
<1>2. Numbered
  BY DEF Init, Numbered, NoFrame
<1>3. ~InFlight
  BY DEF Init, InFlight
<1>4. BufferFree /\ DoneMeansIdle /\ SendsPaid /\ ResetPaid
  BY <1>3 DEF Init, BufferFree, DoneMeansIdle, SendsPaid, ResetPaid
<1>5. QED
  BY <1>1, <1>2, <1>4 DEF LinkInv

LEMMA CheckNewDataInv == LinkInv /\ CheckNewData => LinkInv'
<1> SUFFICES ASSUME LinkInv, CheckNewData PROVE LinkInv'
  OBVIOUS
<1> USE DEF LinkInv, CheckNewData, cache, peer
<1>1. TypeOK'
  BY DEF TypeOK
<1>2. Numbered' /\ BufferFree' /\ DoneMeansIdle' /\ ResetPaid'
  BY DEF Numbered, BufferFree, DoneMeansIdle, ResetPaid
<1>3. InFlight' <=> InFlight
  BY DEF InFlight
<1>4. SendsPaid'
  BY <1>3 DEF SendsPaid
<1>5. QED
  BY <1>1, <1>2, <1>4

LEMMA SettledTyped ==
  ASSUME LinkInv, NEW f \in PeerFrames
  PROVE  /\ Settled(f) \in Pendings
         /\ Settled(f).frame = pending.frame
         /\ Settled(f).retries = pending.retries
<1>1. pending \in Pendings
  BY DEF LinkInv, TypeOK
<1>2. /\ [pending EXCEPT !.used = FALSE] \in Pendings
      /\ [pending EXCEPT !.used = FALSE].frame = pending.frame
      /\ [pending EXCEPT !.used = FALSE].retries = pending.retries
  BY <1>1 DEF Pendings
<1>3. /\ [pending EXCEPT !.age = AckTimeout] \in Pendings
      /\ [pending EXCEPT !.age = AckTimeout].frame = pending.frame
      /\ [pending EXCEPT !.age = AckTimeout].retries = pending.retries
  BY <1>1 DEF Pendings
<1>4. Settled(f) \in {pending, [pending EXCEPT !.used = FALSE],
                      [pending EXCEPT !.age = AckTimeout]}
  BY DEF Settled
<1>5. QED
  BY <1>1, <1>2, <1>3, <1>4

LEMMA ProcessRxInv == LinkInv /\ ProcessRx => LinkInv'
<1> SUFFICES ASSUME LinkInv, ProcessRx PROVE LinkInv'
  OBVIOUS
<1> USE DEF LinkInv
<1>1. PICK f \in PeerFrames :
        /\ pending' = IF f.kind \in {"ack", "nack"} THEN Settled(f) ELSE pending
        /\ \/ f.kind \in {"command", "fragment"} /\ answer' = [kind |-> "ack", seq |-> f.seq]
           \/ f.kind = "fragment" /\ answer' = [kind |-> "nack", seq |-> f.seq]
           \/ f.kind \notin {"command", "fragment"} /\ UNCHANGED answer
  BY FramesTyped DEF ProcessRx, TypeOK
<1>2. answer' \in Answers
  BY <1>1 DEF TypeOK, Answers, PeerFrames
<1>3. /\ pending' \in Pendings
      /\ pending'.frame = pending.frame /\ pending'.retries = pending.retries
  BY <1>1, SettledTyped DEF TypeOK
<1>4. /\ pc = "rx" /\ pc' = "poll"
      /\ UNCHANGED <<motor, reset, asked, txSeq, frame, done, newData, rx, tx, bus,
                     heard, peerMotor, carried, onWire>>
  BY DEF ProcessRx, cache, driver, peer
<1>5. TypeOK'
  BY <1>2, <1>3, <1>4 DEF TypeOK
<1>6. Numbered' /\ BufferFree' /\ DoneMeansIdle' /\ ResetPaid'
  BY <1>3, <1>4 DEF Numbered, BufferFree, DoneMeansIdle, ResetPaid
<1>7. InFlight' <=> InFlight
  BY <1>4 DEF InFlight
<1>8. SendsPaid'
  BY <1>3, <1>4, <1>7 DEF SendsPaid
<1>9. QED
  BY <1>5, <1>6, <1>8

LEMMA PollInv == LinkInv /\ Poll => LinkInv'
<1> SUFFICES ASSUME LinkInv, Poll PROVE LinkInv'
  OBVIOUS
<1> USE DEF LinkInv, Poll, cache, peer, driver
<1>1. TypeOK'
  BY DEF TypeOK
<1>2. Numbered' /\ BufferFree' /\ DoneMeansIdle' /\ ResetPaid'
  BY DEF Numbered, BufferFree, DoneMeansIdle, ResetPaid
<1>3. InFlight' <=> InFlight
  BY DEF InFlight
<1>4. SendsPaid'
  BY <1>3 DEF SendsPaid
<1>5. QED
  BY <1>1, <1>2, <1>4

-----------------------------------------------------------------------------
\* Building a frame: no transaction is queued, so nothing is in flight before.

LEMMA BuildAnswerInv == LinkInv /\ BuildAnswer => LinkInv'
<1> SUFFICES ASSUME LinkInv, BuildAnswer PROVE LinkInv'
  OBVIOUS
<1> USE DEF LinkInv, BuildAnswer, cache, peer, driver
<1>1. frame' \in Frames /\ frame'.kind # "command"
  BY DEF TypeOK, Answers, NoFrame, Frames, Kinds
<1>2. TypeOK'
  BY <1>1, FramesTyped, NextSeqTyped DEF TypeOK
<1>3. Numbered' /\ BufferFree' /\ DoneMeansIdle' /\ ResetPaid'
  BY <1>1 DEF Numbered, BufferFree, DoneMeansIdle, ResetPaid
<1>4. ~InFlight /\ ~InFlight'
  BY <1>1 DEF InFlight, BufferFree
<1>5. SendsPaid'
  BY <1>4 DEF SendsPaid
<1>6. QED
  BY <1>2, <1>3, <1>5

LEMMA BuildRetryInv == LinkInv /\ BuildRetry => LinkInv'
<1> SUFFICES ASSUME LinkInv, BuildRetry PROVE LinkInv'
  OBVIOUS
<1> USE DEF LinkInv, BuildRetry, cache, peer, driver
<1>1. /\ pending' \in Pendings
      /\ pending'.frame = pending.frame /\ pending'.retries = pending.retries + 1
      /\ frame' \in Frames
  <2>1. pending \in Pendings /\ pending.retries + 1 \in 0..MaxRetries /\ 0 \in 0..AckTimeout
    BY DEF TypeOK, Pendings
  <2> DEFINE new == [pending EXCEPT !.retries = pending.retries + 1, !.age = 0]
  <2>2. frame' \in Frames
    BY <2>1 DEF Pendings
  <2>3. new \in Pendings /\ new.frame = pending.frame /\ new.retries = pending.retries + 1
    BY <2>1 DEF Pendings
  <2>4. pending' = new
    OBVIOUS
  <2>5. QED
    BY ONLY <2>2, <2>3, <2>4
<1>2. TypeOK'
  BY <1>1 DEF TypeOK
<1>3. Numbered'
  BY <1>1 DEF Numbered
<1>4. BufferFree' /\ DoneMeansIdle' /\ ResetPaid'
  BY DEF BufferFree, DoneMeansIdle, ResetPaid
<1>5. ~InFlight
  BY DEF InFlight, BufferFree
<1>6. onWire' \in Nat /\ pending.retries \in Nat /\ onWire' <= 1 + pending.retries
  BY <1>5 DEF SendsPaid, TypeOK, Pendings
<1>7. SendsPaid'
  BY <1>1, <1>6 DEF SendsPaid
<1>8. QED
  BY <1>2, <1>3, <1>4, <1>7

LEMMA BuildCommandInv == LinkInv /\ BuildCommand => LinkInv'
<1> SUFFICES ASSUME LinkInv, BuildCommand PROVE LinkInv'
  OBVIOUS
<1> USE DEF LinkInv
<1>1. /\ pc = "build" /\ pc' = "clear" /\ onWire' = 0
      /\ txSeq' = NextSeq
      /\ frame' = [kind |-> "command", seq |-> NextSeq, motor |-> motor, reset |-> reset]
      /\ pending' = [used |-> TRUE, retries |-> 0, age |-> 0, frame |-> frame']
      /\ carried' = IF reset THEN carried + 1 ELSE carried
      /\ UNCHANGED <<motor, reset, asked, answer, done, newData, rx, tx, bus, heard,
                     peerMotor>>
  BY DEF BuildCommand, PendingFor, cache, peer, driver
<1>2. NextSeq \in Seqs
  BY NextSeqTyped DEF TypeOK
<1>3. frame' \in Frames /\ frame'.seq \in Seqs
  BY <1>1, <1>2 DEF Frames, Kinds, TypeOK
<1>4. TypeOK'
  <2>1. pending' \in Pendings
    BY <1>1, <1>3 DEF Pendings
  <2>2. QED
    BY <1>1, <1>2, <1>3, <2>1 DEF TypeOK
<1>5. Numbered' /\ BufferFree' /\ DoneMeansIdle'
  BY <1>1, <1>3 DEF Numbered, BufferFree, DoneMeansIdle
<1>6. ResetPaid'
  BY <1>1 DEF ResetPaid, TypeOK
<1>7. SendsPaid'
  BY <1>1 DEF SendsPaid
<1>8. QED
  BY <1>4, <1>5, <1>6, <1>7

LEMMA ClearResetInv == LinkInv /\ ClearReset => LinkInv'
<1> SUFFICES ASSUME LinkInv, ClearReset PROVE LinkInv'
  OBVIOUS
<1> USE DEF LinkInv, ClearReset, peer, driver
<1>1. TypeOK'
  BY DEF TypeOK
<1>2. Numbered' /\ BufferFree' /\ DoneMeansIdle' /\ ResetPaid'
  BY DEF Numbered, BufferFree, DoneMeansIdle, ResetPaid, TypeOK
<1>3. InFlight' <=> InFlight
  BY DEF InFlight
<1>4. SendsPaid'
  BY <1>3 DEF SendsPaid
<1>5. QED
  BY <1>1, <1>2, <1>4

LEMMA BuildHeartbeatInv == LinkInv /\ BuildHeartbeat => LinkInv'
<1> SUFFICES ASSUME LinkInv, BuildHeartbeat PROVE LinkInv'
  OBVIOUS
<1> USE DEF LinkInv, BuildHeartbeat, cache, peer, driver
<1>1. frame' \in Frames /\ frame'.kind # "command"
  BY FramesTyped DEF NoFrame, Frames, Kinds
<1>2. TypeOK'
  BY <1>1, NextSeqTyped DEF TypeOK
<1>3. Numbered' /\ BufferFree' /\ DoneMeansIdle' /\ ResetPaid'
  BY <1>1 DEF Numbered, BufferFree, DoneMeansIdle, ResetPaid
<1>4. ~InFlight /\ ~InFlight'
  BY <1>1 DEF InFlight, BufferFree
<1>5. SendsPaid'
  BY <1>4 DEF SendsPaid
<1>6. QED
  BY <1>2, <1>3, <1>5

-----------------------------------------------------------------------------
\* Handing the frame to the driver, and the exchange.

LEMMA SubmitInv == LinkInv /\ Submit => LinkInv'
<1> SUFFICES ASSUME LinkInv, Submit PROVE LinkInv'
  OBVIOUS
<1> USE DEF LinkInv, Submit, cache, peer
<1>1. bus = "idle" /\ pc = "submit" /\ pc' = "flag"
  BY DEF BufferFree
<1>2. TypeOK'
  BY <1>1 DEF TypeOK
<1>3. Numbered' /\ BufferFree' /\ DoneMeansIdle' /\ ResetPaid'
  BY <1>1 DEF Numbered, BufferFree, DoneMeansIdle, ResetPaid
<1>4. InFlight' <=> InFlight
  BY <1>1 DEF InFlight
<1>5. SendsPaid'
  BY <1>4 DEF SendsPaid
<1>6. QED
  BY <1>2, <1>3, <1>5

LEMMA FlagBusyInv == LinkInv /\ FlagBusy => LinkInv'
<1> SUFFICES ASSUME LinkInv, FlagBusy PROVE LinkInv'
  OBVIOUS
<1> USE DEF LinkInv, FlagBusy, cache, peer
<1>1. TypeOK'
  BY DEF TypeOK
<1>2. Numbered' /\ BufferFree' /\ DoneMeansIdle' /\ ResetPaid'
  BY DEF Numbered, BufferFree, DoneMeansIdle, ResetPaid
<1>3. InFlight' <=> InFlight
  BY DEF InFlight
<1>4. SendsPaid'
  BY <1>3 DEF SendsPaid
<1>5. QED
  BY <1>1, <1>2, <1>4

LEMMA ExchangeInv ==
  ASSUME NEW f \in PeerSends, NEW intact \in BOOLEAN
  PROVE  LinkInv /\ Exchange(f, intact) => LinkInv'
<1> SUFFICES ASSUME LinkInv, Exchange(f, intact) PROVE LinkInv'
  OBVIOUS
<1> USE DEF LinkInv
<1>1. /\ bus = "queued" /\ bus' = "idle" /\ rx' = f /\ newData' = TRUE /\ done' = TRUE
      /\ UNCHANGED <<pc, motor, reset, asked, txSeq, pending, answer, frame, tx, carried>>
  BY DEF Exchange, cache
<1>2. pc \notin {"build", "clear", "submit"}
  BY <1>1 DEF BufferFree
<1>3. f \in PeerFrames
  <2>1. heard \in Seqs /\ 0 \in Seqs
    BY FramesTyped DEF TypeOK
  <2>2. QED
    BY <2>1, FramesTyped DEF PeerSends, PeerFrames, PeerKinds
<1>4. heard' \in Seqs /\ peerMotor' \in BOOLEAN
  <2>1. CASE intact /\ tx.kind = "command"
    BY <2>1 DEF Exchange, Numbered, TypeOK, Frames
  <2>2. CASE ~(intact /\ tx.kind = "command")
    BY <2>2 DEF Exchange, peer, TypeOK
  <2>3. QED
    BY <2>1, <2>2
<1>5. onWire' \in Nat /\ onWire' <= onWire + (IF tx.kind = "command" THEN 1 ELSE 0)
  BY DEF Exchange, TypeOK
<1>6. TypeOK'
  BY <1>1, <1>3, <1>4, <1>5 DEF TypeOK
<1>7. Numbered' /\ BufferFree' /\ DoneMeansIdle' /\ ResetPaid'
  BY <1>1 DEF Numbered, BufferFree, DoneMeansIdle, ResetPaid
<1>8. ~InFlight' /\ (InFlight <=> tx.kind = "command")
  BY <1>1, <1>2 DEF InFlight
<1>9. SendsPaid'
  <2>1. onWire' \in Nat /\ pending.retries \in Nat /\ onWire' <= 1 + pending.retries
    BY <1>5, <1>8 DEF SendsPaid, TypeOK, Pendings
  <2>2. QED
    BY <1>1, <1>8, <2>1 DEF SendsPaid
<1>10. QED
  BY <1>6, <1>7, <1>9

LEMMA TickInv == LinkInv /\ Tick => LinkInv'
<1> SUFFICES ASSUME LinkInv, Tick PROVE LinkInv'
  OBVIOUS
<1> USE DEF LinkInv, Tick, cache, peer, driver
<1>1. /\ pending' \in Pendings
      /\ pending'.frame = pending.frame /\ pending'.retries = pending.retries
  <2>1. pending \in Pendings /\ pending.age + 1 \in 0..AckTimeout
    BY DEF TypeOK, Pendings, Due
  <2> DEFINE new == [pending EXCEPT !.age = pending.age + 1]
  <2>2. new \in Pendings /\ new.frame = pending.frame /\ new.retries = pending.retries
    BY <2>1 DEF Pendings
  <2>3. pending' = new
    OBVIOUS
  <2>4. QED
    BY ONLY <2>2, <2>3
<1>2. TypeOK'
  BY <1>1 DEF TypeOK
<1>3. Numbered' /\ BufferFree' /\ DoneMeansIdle' /\ ResetPaid'
  BY <1>1 DEF Numbered, BufferFree, DoneMeansIdle, ResetPaid
<1>4. InFlight' <=> InFlight
  BY DEF InFlight
<1>5. SendsPaid'
  BY <1>1, <1>4 DEF SendsPaid
<1>6. QED
  BY <1>2, <1>3, <1>5

LEMMA CacheInv == LinkInv /\ (ResetLine \/ SetMotor \/ SetReset) => LinkInv'
<1> SUFFICES ASSUME LinkInv, ResetLine \/ SetMotor \/ SetReset PROVE LinkInv'
  OBVIOUS
<1> USE DEF LinkInv
<1>1. /\ UNCHANGED <<txSeq, pending, answer, frame, done, newData, rx, tx, bus, heard,
                     peerMotor, carried, onWire>>
      /\ pc' = pc \/ (pc = "line" /\ pc' = "check")
      /\ UNCHANGED <<reset, asked>> \/ (asked' = asked + 1 /\ reset' = TRUE)
  <2> USE DEF cache, driver, peer
  <2>1. CASE ResetLine
    BY <2>1 DEF ResetLine
  <2>2. CASE SetMotor
    BY <2>2 DEF SetMotor
  <2>3. CASE SetReset
    BY <2>3 DEF SetReset
  <2>4. QED
    BY <2>1, <2>2, <2>3
<1>2. TypeOK'
  <2>1. motor \in BOOLEAN
    BY DEF TypeOK
  <2>2. motor' \in {motor, ~motor, FALSE}
    BY DEF ResetLine, SetMotor, SetReset, cache
  <2>3. motor' \in BOOLEAN
    BY ONLY <2>1, <2>2, Zenon
  <2>4. reset' \in BOOLEAN /\ asked' \in Nat
    <3>1. CASE UNCHANGED <<reset, asked>>
      BY <3>1 DEF TypeOK
    <3>2. CASE asked' = asked + 1 /\ reset' = TRUE
      BY <3>2 DEF TypeOK
    <3>3. QED
      BY <1>1, <3>1, <3>2
  <2>5. QED
    BY <1>1, <2>3, <2>4 DEF TypeOK
<1>3. Numbered' /\ BufferFree' /\ DoneMeansIdle'
  BY <1>1 DEF Numbered, BufferFree, DoneMeansIdle
<1>4. ResetPaid'
  BY <1>1 DEF ResetPaid, TypeOK
<1>5. InFlight' <=> InFlight
  BY <1>1 DEF InFlight
<1>6. SendsPaid'
  BY <1>1, <1>5 DEF SendsPaid
<1>7. QED
  BY <1>2, <1>3, <1>4, <1>6

LEMMA StepInv == LinkInv /\ [Next]_vars => LinkInv'
<1>1. LinkInv /\ Task => LinkInv'
  BY CheckNewDataInv, ProcessRxInv, PollInv, BuildAnswerInv, BuildRetryInv,
     BuildCommandInv, ClearResetInv, BuildHeartbeatInv, SubmitInv, FlagBusyInv, CacheInv
     DEF Task
<1>2. LinkInv /\ UNCHANGED vars => LinkInv'
  <2> SUFFICES ASSUME LinkInv, UNCHANGED vars PROVE LinkInv'
    OBVIOUS
  <2> USE DEF LinkInv, vars, cache, driver, peer
  <2>1. TypeOK' /\ Numbered' /\ BufferFree' /\ DoneMeansIdle' /\ ResetPaid'
    BY DEF TypeOK, Numbered, BufferFree, DoneMeansIdle, ResetPaid
  <2>2. SendsPaid'
    BY DEF SendsPaid, InFlight
  <2>3. QED
    BY <2>1, <2>2
<1>3. QED
  BY <1>1, <1>2, CacheInv, TickInv, ExchangeInv DEF Next

LEMMA AlwaysLinkInv == Spec => []LinkInv
BY InitInv, StepInv, PTL DEF Spec

-----------------------------------------------------------------------------
\* Every variable keeps its type: retries never exceed kMaxCmdRetries and the
\* Teensy only hears commands under numbers of the S3.
THEOREM LinkTypeCorrect == Spec => []TypeOK
<1>1. LinkInv => TypeOK
  BY DEF LinkInv
<1>2. QED
  BY <1>1, AlwaysLinkInv, PTL

\* queue_transaction never rewrites the transmit buffer of a queued transaction,
\* wherever the interrupt strikes.
THEOREM BufferAlwaysFree == Spec => []BufferFree
<1>1. LinkInv => BufferFree
  BY DEF LinkInv
<1>2. QED
  BY <1>1, AlwaysLinkInv, PTL

\* A command is exchanged at most once more than kMaxCmdRetries.
THEOREM SendsBounded == Spec => []SendBound
<1>1. LinkInv => SendBound
  BY DEF LinkInv, SendsPaid, SendBound, TypeOK, Pendings
<1>2. QED
  BY <1>1, AlwaysLinkInv, PTL

\* No request for an encoder reset is carried by two commands.
THEOREM ResetOneShot == Spec => []OneShot
<1>1. LinkInv => OneShot
  BY DEF LinkInv, ResetPaid, OneShot, TypeOK
<1>2. QED
  BY <1>1, AlwaysLinkInv, PTL

-----------------------------------------------------------------------------
\* As long as the sequence numbers have not wrapped round, what is in flight is
\* the pending command itself, the last one built, and what the Teensy answers
\* is no newer than what it has heard.
OrderInv ==
  /\ heard <= pending.frame.seq /\ pending.frame.seq <= txSeq
  /\ pc \in {"clear", "submit"} /\ frame.kind = "command" => frame = pending.frame
  /\ bus = "queued" /\ tx.kind = "command" => tx = pending.frame
  /\ rx.kind \in {"ack", "nack"} => rx.seq <= heard

LEMMA NextSeqGrows ==
  ASSUME SeqWraps = FALSE, txSeq \in Seqs, MayEncode
  PROVE  txSeq <= NextSeq
<1>1. txSeq + 1 \in 0 .. SeqCount - 1
  BY DEF MayEncode, Seqs
<1>2. ASSUME NEW a \in Nat, NEW n \in Nat \ {0}, a < n PROVE a % n = a
  BY <1>2
<1>3. (txSeq + 1) % SeqCount = txSeq + 1
  BY <1>1, <1>2
<1>4. QED
  BY <1>1, <1>3 DEF NextSeq, Seqs

LEMMA Numbers ==
  ASSUME LinkInv
  PROVE  /\ heard \in Nat /\ txSeq \in Nat /\ pending.frame.seq \in Nat
         /\ rx.seq \in Nat
<1>1. Seqs \subseteq Nat /\ PeerSeqs \subseteq Nat
  BY DEF Seqs
<1>2. heard \in Seqs /\ txSeq \in Seqs /\ rx \in PeerFrames /\ pending.frame \in Frames
  BY DEF LinkInv, TypeOK, Pendings
<1>3. QED
  BY <1>1, <1>2 DEF Frames, PeerFrames

LEMMA OrderBuild ==
  ASSUME LinkInv, OrderInv, SeqWraps = FALSE,
         BuildAnswer \/ BuildRetry \/ BuildCommand \/ BuildHeartbeat
  PROVE  OrderInv' /\ heard' = heard
<1> USE DEF cache, driver, peer
<1>1. bus = "idle" /\ UNCHANGED <<heard, rx, tx, bus>>
  BY DEF BuildAnswer, BuildRetry, BuildCommand, BuildHeartbeat, LinkInv, BufferFree
<1>2. txSeq \in Seqs /\ pending \in Pendings /\ answer \in Answers
  BY DEF LinkInv, TypeOK
<1>3. NextSeq \in Seqs /\ Seqs \subseteq Nat
  BY <1>2, NextSeqTyped DEF Seqs
<1>4. CASE BuildAnswer
  <2>1. frame'.kind # "command" /\ txSeq' = NextSeq /\ pending' = pending
    BY <1>2, <1>4 DEF BuildAnswer, Answers, NoFrame
  <2>2. txSeq <= txSeq'
    BY <1>2, <1>4, <2>1, NextSeqGrows DEF BuildAnswer
  <2>3. QED
    BY <1>1, <1>3, <2>1, <2>2, Numbers DEF OrderInv
<1>5. CASE BuildHeartbeat
  <2>1. frame'.kind # "command" /\ txSeq' = NextSeq /\ pending' = pending
    BY <1>5 DEF BuildHeartbeat, NoFrame
  <2>2. txSeq <= txSeq'
    BY <1>2, <1>5, <2>1, NextSeqGrows DEF BuildHeartbeat
  <2>3. QED
    BY <1>1, <1>3, <2>1, <2>2, Numbers DEF OrderInv
<1>6. CASE BuildRetry
  <2>1. frame' = pending.frame /\ txSeq' = txSeq
    BY <1>6 DEF BuildRetry
  <2>2. pending'.frame = pending.frame
    BY <1>2, <1>6 DEF BuildRetry, Pendings
  <2>3. QED
    BY <1>1, <2>1, <2>2 DEF OrderInv
<1>7. CASE BuildCommand
  <2>1. /\ frame'.seq = NextSeq /\ txSeq' = NextSeq
        /\ pending'.frame = frame'
    BY <1>7 DEF BuildCommand, PendingFor
  <2>2. txSeq <= NextSeq
    BY <1>2, <1>7, NextSeqGrows DEF BuildCommand
  <2>3. QED
    BY <1>1, <1>3, <2>1, <2>2, Numbers DEF OrderInv
<1>8. QED
  BY <1>4, <1>5, <1>6, <1>7

LEMMA OrderExchange ==
  ASSUME LinkInv, OrderInv, NEW f \in PeerSends, NEW intact \in BOOLEAN,
         Exchange(f, intact)
  PROVE  OrderInv' /\ heard' >= heard
<1>1. /\ bus = "queued" /\ bus' = "idle" /\ rx' = f
      /\ pc \notin {"build", "clear", "submit"}
      /\ UNCHANGED <<pc, txSeq, pending, frame, tx>>
  BY DEF Exchange, LinkInv, BufferFree
<1>2. f.kind \in {"ack", "nack"} => f.seq = heard
  BY DEF PeerSends, Noise
<1>3. CASE intact /\ tx.kind = "command"
  <2>1. heard' = pending.frame.seq
    BY <1>1, <1>3 DEF Exchange, OrderInv
  <2>2. QED
    BY <1>1, <1>2, <2>1, Numbers DEF OrderInv
<1>4. CASE ~(intact /\ tx.kind = "command")
  <2>1. heard' = heard
    BY <1>4 DEF Exchange, peer
  <2>2. QED
    BY <1>1, <1>2, <2>1, Numbers DEF OrderInv
<1>5. QED
  BY <1>3, <1>4

LEMMA OrderRest ==
  ASSUME LinkInv, OrderInv,
         \/ CheckNewData \/ ProcessRx \/ Poll \/ ClearReset \/ Submit \/ FlagBusy
         \/ ResetLine \/ SetMotor \/ SetReset \/ Tick \/ UNCHANGED vars
  PROVE  OrderInv' /\ heard' = heard
<1> USE DEF cache, driver, peer
<1>1. CASE CheckNewData \/ Poll \/ FlagBusy \/ ResetLine
  <2>1. /\ pc' \notin {"clear", "submit"} 
        /\ UNCHANGED <<heard, txSeq, pending, frame, rx, tx, bus>>
    BY <1>1 DEF CheckNewData, Poll, FlagBusy, ResetLine
  <2>2. QED
    BY <2>1 DEF OrderInv
<1>2. CASE ClearReset \/ SetMotor \/ SetReset \/ UNCHANGED vars
  <2>1. /\ pc' = pc \/ (pc = "clear" /\ pc' = "submit")
        /\ UNCHANGED <<heard, txSeq, pending, frame, rx, tx, bus>>
    BY <1>2 DEF ClearReset, SetMotor, SetReset, vars
  <2>2. QED
    BY <2>1 DEF OrderInv
<1>3. CASE ProcessRx \/ Tick
  <2>1. /\ pc' = "poll" \/ pc' = pc
        /\ UNCHANGED <<heard, txSeq, frame, rx, tx, bus>>
    BY <1>3 DEF ProcessRx, Tick
  <2>2. pending'.frame = pending.frame
    <3>1. pending \in Pendings
      BY DEF LinkInv, TypeOK
    <3>2. CASE Tick
      BY <3>1, <3>2 DEF Tick, Pendings
    <3>3. CASE ProcessRx
      <4>1. PICK f \in PeerFrames :
              pending' = IF f.kind \in {"ack", "nack"} THEN Settled(f) ELSE pending
        BY <3>3, FramesTyped DEF ProcessRx, LinkInv, TypeOK
      <4>2. QED
        BY <4>1, SettledTyped
    <3>4. QED
      BY <1>3, <3>2, <3>3
  <2>3. QED
    BY <2>1, <2>2 DEF OrderInv
<1>4. CASE Submit
  <2>1. /\ pc = "submit" /\ pc' \notin {"clear", "submit"} /\ tx' = frame
        /\ UNCHANGED <<heard, txSeq, pending, frame, rx>>
    BY <1>4 DEF Submit
  <2>2. QED
    BY <2>1 DEF OrderInv
<1>5. QED
  BY <1>1, <1>2, <1>3, <1>4

LEMMA OrderStep ==
  ASSUME LinkInv, OrderInv, SeqWraps = FALSE, [Next]_vars
  PROVE  OrderInv' /\ heard' >= heard
<1>1. heard \in Nat
  BY Numbers
<1>2. CASE \E f \in PeerSends, intact \in BOOLEAN : Exchange(f, intact)
  BY <1>2, OrderExchange
<1>3. CASE BuildAnswer \/ BuildRetry \/ BuildCommand \/ BuildHeartbeat
  <2>1. OrderInv' /\ heard' = heard
    BY <1>3, OrderBuild
  <2>2. QED
    BY <1>1, <2>1
<1>4. CASE \/ CheckNewData \/ ProcessRx \/ Poll \/ ClearReset \/ Submit \/ FlagBusy
           \/ ResetLine \/ SetMotor \/ SetReset \/ Tick \/ UNCHANGED vars
  BY <1>1, <1>4, OrderRest
<1>5. QED
  BY <1>2, <1>3, <1>4 DEF Next, Task

LEMMA AlwaysOrderInv == ASSUME SeqWraps = FALSE PROVE Spec => [](LinkInv /\ OrderInv)
<1>1. Init => OrderInv
  BY DEF Init, OrderInv, NoFrame, Noise
<1>2. LinkInv /\ OrderInv /\ [Next]_vars => OrderInv'
  BY OrderStep
<1>3. QED
  BY <1>1, <1>2, InitInv, StepInv, PTL DEF Spec

\* The Teensy hears the commands in the order they were built.
THEOREM CommandsInOrder == ASSUME SeqWraps = FALSE PROVE Spec => InOrder
<1>1. LinkInv /\ OrderInv /\ [Next]_vars => [heard' >= heard]_vars
  BY OrderStep
<1>2. QED
  BY <1>1, AlwaysOrderInv, PTL DEF Spec, InOrder

\* A command counts as answered only when the Teensy has received that command.
THEOREM AnsweredOnlyWhenHeard ==
  ASSUME SeqWraps = FALSE PROVE Spec => AnsweredWhenHeard
<1>1. ASSUME LinkInv, OrderInv, [Next]_vars, pc = "rx", pending.used, ~pending'.used
      PROVE  heard = pending.frame.seq
  <2>1. ProcessRx
    <3>1. CASE Task
      BY <1>1, <3>1 DEF Task, CheckNewData, Poll, BuildAnswer, BuildRetry, BuildCommand,
         ClearReset, BuildHeartbeat, Submit, FlagBusy, ResetLine
    <3>2. CASE Tick
      <4>1. pending'.used = pending.used
        BY <1>1, <3>2 DEF Tick, LinkInv, TypeOK, Pendings
      <4>2. QED
        BY <1>1, <4>1
    <3>3. pending' = pending => FALSE
      BY <1>1
    <3>4. SetMotor \/ SetReset \/ UNCHANGED vars => pending' = pending
      BY DEF SetMotor, SetReset, vars
    <3>5. ASSUME NEW f, NEW intact, Exchange(f, intact) PROVE pending' = pending
      BY <3>5 DEF Exchange
    <3>6. QED
      BY <1>1, <3>1, <3>2, <3>3, <3>4, <3>5 DEF Next
  <2>2. PICK f \in {rx, Noise} :
          pending' = IF f.kind \in {"ack", "nack"} THEN Settled(f) ELSE pending
    BY <2>1 DEF ProcessRx
  <2>3. f.kind \in {"ack", "nack"} /\ Awaited(f)
    BY <1>1, <2>2 DEF Settled
  <2>4. f = rx
    BY <2>2, <2>3 DEF Noise
  <2>5. heard <= pending.frame.seq /\ pending.frame.seq = rx.seq /\ rx.seq <= heard
    BY <1>1, <2>3, <2>4 DEF OrderInv, Awaited
  <2>6. QED
    BY <1>1, <2>5, Numbers
<1>2. LinkInv /\ OrderInv /\ [Next]_vars
        => [pc = "rx" /\ pending.used /\ ~pending'.used => heard = pending.frame.seq]_vars
  BY <1>1
<1>3. QED
  BY <1>2, AlwaysOrderInv, PTL DEF Spec, AnsweredWhenHeard

-----------------------------------------------------------------------------
\* The link implements CommandChannel: every step of the task, of the interrupt and of
\* the tasks that set the cache is a step of the channel or leaves it as it is.

\* The count of exchanges is exact: a command that is given up was sent as often as
\* it may be.
SendsExact ==
  pending.used => onWire + (IF InFlight THEN 1 ELSE 0) = 1 + pending.retries

\* A number names one snapshot.
SameSnapshot == heard = pending.frame.seq => peerMotor = pending.frame.motor

Kept == SendsExact /\ SameSnapshot /\ (pending.used => pending.frame.kind = "command")
ChannelInv == LinkInv /\ OrderInv /\ Kept

USE T41LinkAssumption DEF At, RetryFrame, Channel!vars, Channel!NoCommand

\* What the channel sees.
Seen == <<motor, pending.frame, pending.used, onWire, heard, peerMotor>>

LEMMA Unseen == ASSUME UNCHANGED Seen PROVE UNCHANGED Channel!vars
BY DEF Seen

LEMMA NextSeqIsGreater ==
  ASSUME SeqWraps = FALSE, txSeq \in Seqs, MayEncode
  PROVE  NextSeq = txSeq + 1
<1>1. txSeq + 1 \in 0 .. SeqCount - 1
  BY DEF MayEncode, Seqs
<1>2. ASSUME NEW a \in Nat, NEW n \in Nat \ {0}, a < n PROVE a % n = a
  BY <1>2
<1>3. QED
  BY <1>1, <1>2 DEF NextSeq

-----------------------------------------------------------------------------
\* The steps that the channel does not see.

LEMMA HiddenSteps ==
  ASSUME ChannelInv,
         \/ CheckNewData \/ Poll \/ BuildAnswer \/ ClearReset \/ BuildHeartbeat
         \/ Submit \/ FlagBusy \/ SetReset \/ UNCHANGED vars
  PROVE  Kept' /\ UNCHANGED Seen
<1> USE DEF ChannelInv, Kept, cache, driver, peer
<1>1. UNCHANGED <<pending, motor, onWire, heard, peerMotor>>
  BY DEF CheckNewData, Poll, BuildAnswer, ClearReset, BuildHeartbeat, Submit, FlagBusy,
     SetReset, vars
<1>2. InFlight' <=> InFlight
  <2>1. CASE CheckNewData \/ Poll \/ ClearReset \/ FlagBusy \/ SetReset \/ UNCHANGED vars
    BY <2>1 DEF CheckNewData, Poll, ClearReset, FlagBusy, SetReset, vars, InFlight
  <2>2. CASE Submit
    BY <2>2 DEF Submit, InFlight, LinkInv, BufferFree
  <2>3. CASE BuildAnswer \/ BuildHeartbeat
    <3>1. bus = "idle" /\ pc = "build" /\ bus' = bus
      BY <2>3 DEF BuildAnswer, BuildHeartbeat, LinkInv, BufferFree
    <3>2. frame'.kind # "command"
      BY <2>3 DEF BuildAnswer, BuildHeartbeat, NoFrame, LinkInv, TypeOK, Answers
    <3>3. QED
      BY <3>1, <3>2 DEF InFlight
  <2>4. QED
    BY <2>1, <2>2, <2>3
<1>3. QED
  BY <1>1, <1>2 DEF SendsExact, SameSnapshot, Seen

LEMMA TickStep ==
  ASSUME ChannelInv, Tick
  PROVE  Kept' /\ UNCHANGED Seen
<1> USE DEF ChannelInv, Kept, cache, driver, peer
<1>1. /\ pending'.frame = pending.frame /\ pending'.used = pending.used
      /\ pending'.retries = pending.retries
  BY DEF Tick, LinkInv, TypeOK, Pendings
<1>2. UNCHANGED <<pc, frame, bus, tx, motor, onWire, heard, peerMotor>>
  BY DEF Tick
<1>3. QED
  BY <1>1, <1>2 DEF SendsExact, SameSnapshot, InFlight, Seen

-----------------------------------------------------------------------------
\* The steps of the channel.

LEMMA MotorStep ==
  ASSUME ChannelInv, ResetLine \/ SetMotor
  PROVE  Kept' /\ [Channel!Next]_(Channel!vars)
<1> USE DEF ChannelInv, Kept, cache, driver, peer
<1>1. /\ UNCHANGED <<pending, frame, bus, tx, onWire, heard, peerMotor>>
      /\ pc' = pc \/ (pc = "line" /\ pc' = "check")
  BY DEF ResetLine, SetMotor
<1>2. Kept'
  BY <1>1 DEF SendsExact, SameSnapshot, InFlight
<1>3. motor' = motor \/ motor' = ~motor
  <2>1. motor \in BOOLEAN /\ motor' \in {motor, ~motor, FALSE}
    BY DEF ResetLine, SetMotor, LinkInv, TypeOK
  <2>2. QED
    BY <2>1
<1>4. QED
  BY <1>1, <1>2, <1>3 DEF Channel!Next, Channel!Switch

LEMMA AnswerStep ==
  ASSUME ChannelInv, ProcessRx
  PROVE  Kept' /\ [Channel!Next]_(Channel!vars)
<1> USE DEF ChannelInv, Kept, cache, driver, peer
<1>1. PICK f \in {rx, Noise} :
        pending' = IF f.kind \in {"ack", "nack"} THEN Settled(f) ELSE pending
  BY DEF ProcessRx
<1>2. f \in PeerFrames
  BY FramesTyped DEF LinkInv, TypeOK
<1>3. /\ pending'.frame = pending.frame /\ pending'.retries = pending.retries
      /\ UNCHANGED <<motor, frame, bus, tx, onWire, heard, peerMotor>>
      /\ pc = "rx" /\ pc' = "poll"
  BY <1>1, <1>2, SettledTyped DEF ProcessRx
<1>4. InFlight' <=> InFlight
  BY <1>3 DEF InFlight
<1>5. pending'.used \in {pending.used, FALSE}
  <2>1. pending \in Pendings
    BY DEF LinkInv, TypeOK
  <2>2. QED
    BY <1>1, <2>1 DEF Settled, Pendings
<1>6. Kept'
  BY <1>3, <1>4, <1>5 DEF SendsExact, SameSnapshot, LinkInv, TypeOK, Pendings
<1>7. CASE pending'.used = pending.used
  BY <1>3, <1>6, <1>7, Unseen DEF Seen
<1>8. CASE pending'.used # pending.used
  <2>1. f.kind \in {"ack", "nack"} /\ Awaited(f)
    BY <1>1, <1>8 DEF Settled
  <2>2. f = rx
    BY <2>1 DEF Noise
  <2>3. heard = pending.frame.seq
    <3>1. heard <= pending.frame.seq /\ pending.frame.seq = rx.seq /\ rx.seq <= heard
      BY <2>1, <2>2 DEF OrderInv, Awaited
    <3>2. QED
      BY <3>1, Numbers
  <2>4. QED
    BY <1>3, <1>5, <1>6, <1>8, <2>1, <2>3
       DEF Channel!Next, Channel!Answered, Awaited, SameSnapshot
<1>9. QED
  BY <1>7, <1>8

LEMMA RetryStep ==
  ASSUME ChannelInv, BuildRetry
  PROVE  Kept' /\ UNCHANGED Seen
<1> USE DEF ChannelInv, Kept, cache, driver, peer
<1>1. /\ pending'.frame = pending.frame /\ pending'.used /\ pending.used
      /\ pending'.used = pending.used
      /\ pending'.retries = pending.retries + 1
  BY DEF BuildRetry, LinkInv, TypeOK, Pendings
<1>2. /\ pc = "build" /\ bus = "idle" /\ pc' = "submit" /\ frame' = pending.frame
      /\ UNCHANGED <<bus, tx, motor, onWire, heard, peerMotor>>
  BY DEF BuildRetry, LinkInv, BufferFree
<1>3. ~InFlight
  BY <1>2 DEF InFlight
<1>4. InFlight'
  BY <1>1, <1>2 DEF InFlight
<1>5. QED
  BY <1>1, <1>2, <1>3, <1>4 DEF SendsExact, SameSnapshot, Seen, LinkInv, TypeOK,
     Pendings

LEMMA IssueStep ==
  ASSUME ChannelInv, SeqWraps = FALSE, BuildCommand
  PROVE  Kept' /\ [Channel!Next]_(Channel!vars)
<1> USE DEF ChannelInv, Kept, cache, driver, peer
<1>1. /\ pc = "build" /\ bus = "idle" /\ pc' = "clear" /\ UNCHANGED bus
      /\ pending.used => Exhausted
      /\ frame' = [kind |-> "command", seq |-> NextSeq, motor |-> motor, reset |-> reset]
      /\ pending' = [used |-> TRUE, retries |-> 0, age |-> 0, frame |-> frame']
      /\ onWire' = 0 /\ UNCHANGED <<motor, heard, peerMotor>>
  BY DEF BuildCommand, PendingFor, LinkInv, BufferFree
<1>2. NextSeq > pending.frame.seq /\ NextSeq > heard
  <2>1. NextSeq = txSeq + 1
    BY NextSeqIsGreater DEF BuildCommand, LinkInv, TypeOK
  <2>2. QED
    BY <2>1, Numbers DEF OrderInv
<1>3. ~InFlight /\ InFlight'
  BY <1>1 DEF InFlight
<1>4. pending.used => onWire = 1 + MaxRetries
  <2>1. Exhausted => pending.retries = MaxRetries
    BY DEF Exhausted, LinkInv, TypeOK, Pendings
  <2>2. QED
    BY <1>1, <1>3, <2>1 DEF SendsExact, LinkInv, TypeOK, Pendings
<1>5. Kept'
  BY <1>1, <1>2, <1>3, Numbers DEF SendsExact, SameSnapshot
<1>6. Channel!Issue
  BY <1>1, <1>2, <1>4 DEF Channel!Issue
<1>7. QED
  BY <1>5, <1>6 DEF Channel!Next

LEMMA SendStep ==
  ASSUME ChannelInv, NEW f \in PeerSends, NEW intact \in BOOLEAN, Exchange(f, intact)
  PROVE  Kept' /\ [Channel!Next]_(Channel!vars)
<1> USE DEF ChannelInv, Kept, cache, driver, peer
<1>1. /\ bus = "queued" /\ bus' = "idle" /\ pc \notin {"build", "clear", "submit"}
      /\ UNCHANGED <<pc, motor, pending, frame, tx>>
  BY DEF Exchange, LinkInv, BufferFree
<1>2. ~InFlight' /\ (InFlight <=> tx.kind = "command")
  BY <1>1 DEF InFlight
<1>3. CASE tx.kind = "command"
  <2>1. tx = pending.frame
    BY <1>1, <1>3 DEF OrderInv
  <2>2. /\ onWire' = onWire + 1
        /\ \/ heard' = pending.frame.seq /\ peerMotor' = pending.frame.motor
           \/ UNCHANGED <<heard, peerMotor>>
    BY <1>3, <2>1 DEF Exchange
  <2>3. onWire < 1 + MaxRetries /\ onWire \in Nat /\ pending.retries \in Nat
    BY <1>2, <1>3 DEF LinkInv, SendsPaid, TypeOK, Pendings
  <2>4. Kept'
    BY <1>1, <1>2, <1>3, <2>2, <2>3 DEF SendsExact, SameSnapshot
  <2>5. Channel!Send
    BY <1>1, <2>2, <2>3 DEF Channel!Send
  <2>6. QED
    BY <2>4, <2>5 DEF Channel!Next
<1>4. CASE tx.kind # "command"
  <2>1. UNCHANGED <<onWire, heard, peerMotor>>
    BY <1>4 DEF Exchange
  <2>2. Kept'
    BY <1>1, <1>2, <1>4, <2>1 DEF SendsExact, SameSnapshot
  <2>3. QED
    BY <1>1, <2>1, <2>2, Unseen DEF Seen
<1>5. QED
  BY <1>3, <1>4

-----------------------------------------------------------------------------

HIDE DEF Channel!vars

LEMMA ChannelStep ==
  ASSUME ChannelInv, SeqWraps = FALSE, [Next]_vars
  PROVE  Kept' /\ [Channel!Next]_(Channel!vars)
<1>1. CASE \/ CheckNewData \/ Poll \/ BuildAnswer \/ ClearReset \/ BuildHeartbeat
           \/ Submit \/ FlagBusy \/ SetReset \/ UNCHANGED vars
  BY <1>1, HiddenSteps, Unseen
<1>2. CASE Tick \/ BuildRetry
  BY <1>2, TickStep, RetryStep, Unseen
<1>3. CASE ResetLine \/ SetMotor \/ ProcessRx \/ BuildCommand
  BY <1>3, MotorStep, AnswerStep, IssueStep
<1>4. CASE \E f \in PeerSends, intact \in BOOLEAN : Exchange(f, intact)
  BY <1>4, SendStep
<1>5. QED
  BY <1>1, <1>2, <1>3, <1>4 DEF Next, Task

\* The link, with its buffers, flags, retries and races, is the channel: as long as
\* the sequence numbers have not wrapped round.
THEOREM ChannelImplemented == ASSUME SeqWraps = FALSE PROVE Spec => ChannelKept
<1>1. Init => Kept /\ Channel!Init
  <2> SUFFICES ASSUME Init PROVE Kept /\ Channel!Init
    OBVIOUS
  <2>1. /\ pending.used = FALSE /\ pending.frame.seq = 0 /\ pending.frame.motor = FALSE
        /\ motor = TRUE /\ heard = 0 /\ peerMotor = FALSE /\ onWire = 0
    BY DEF Init, NoFrame
  <2>2. Kept
    BY <2>1 DEF Kept, SendsExact, SameSnapshot
  <2>3. Channel!Init
    BY <2>1 DEF Channel!Init
  <2>4. QED
    BY <2>2, <2>3
<1>2. LinkInv /\ OrderInv /\ Kept /\ [Next]_vars => Kept' /\ [Channel!Next]_(Channel!vars)
  BY ChannelStep DEF ChannelInv
<1>3. QED
  BY <1>1, <1>2, AlwaysOrderInv, PTL DEF Spec, ChannelKept, Channel!Spec
=============================================================================
