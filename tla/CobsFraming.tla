----------------------------- MODULE CobsFraming -----------------------------
(***************************************************************************)
(* Framing on the UART between the S3 and the Teensy: COBS_Encode and      *)
(* COBS_Decode, and process_uart1_input, which cuts the received bytes at  *)
(* the delimiter 0 and drops what does not fit or decode.                  *)
(*                                                                         *)
(* MaxCode is 255 and FrameCap 1536 in the code.                           *)
(*                                                                         *)
(* Definitions whose name starts with Bug are not part of the model: each  *)
(* is a wrong version of the definition below it, kept to show that a      *)
(* property notices the mistake.                                           *)
(***************************************************************************)
EXTENDS Naturals, Sequences, SequencesExt

CONSTANTS
  MaxCode,  \* the code of a group that is as long as a group can be
  FrameCap, \* kT41CobsFrameBufferSize
  Bytes,    \* bytes of the messages and the noise that are tried
  MaxMsg    \* bound: length of the messages

ASSUME CobsAssumption ==
  /\ MaxCode \in Nat /\ MaxCode > 1 /\ FrameCap \in Nat \ {0}
  /\ Bytes \subseteq Nat /\ MaxMsg \in Nat

VARIABLES
  sent,      \* the message that is sent, or was sent last
  line,      \* the bytes of its frame that have not arrived
  buf,       \* g_cobs_frame_buf_t41
  truncated, \* g_cobs_frame_truncated_t41
  taken,     \* what the last byte made process_uart1_input take out
  clean      \* history: since the last delimiter only bytes of this frame came, and
             \* all of them

lineVars == <<sent, line, buf, truncated, taken, clean>>

-----------------------------------------------------------------------------

\* A group: its code, which is its length and one more, and its bytes.
Group(block) == <<Len(block) + 1>> \o block

\* COBS_Encode.  A 0 ends a group and is not sent; a full group ends by itself.
\* A full group waits for the next byte before it ends.
BugEncodeByte(enc, b) ==
  IF b = 0 \/ Len(enc.block) + 1 = MaxCode
  THEN [out |-> enc.out \o Group(enc.block), block |-> IF b = 0 THEN <<>> ELSE <<b>>]
  ELSE [enc EXCEPT !.block = Append(@, b)]
EncodeByte(enc, b) ==
  IF b = 0 THEN [out |-> enc.out \o Group(enc.block), block |-> <<>>]
  ELSE IF Len(enc.block) + 2 = MaxCode
       THEN [out |-> enc.out \o Group(Append(enc.block, b)), block |-> <<>>]
       ELSE [enc EXCEPT !.block = Append(@, b)]

Encode(msg) ==
  LET enc[i \in 0..Len(msg)] ==
        IF i = 0 THEN [out |-> <<>>, block |-> <<>>] ELSE EncodeByte(enc[i - 1], msg[i])
      last == enc[Len(msg)]
  IN  last.out \o Group(last.block)

\* COBS_Decode.  After a group comes a 0, unless the group is full or the last.
Undecodable == [ok |-> FALSE, msg |-> <<>>]

Decode(frame) ==
  LET from[i \in 1 .. Len(frame) + 1] ==
        IF i > Len(frame) THEN [ok |-> TRUE, msg |-> <<>>]
        ELSE LET next == i + frame[i]
             IN  IF frame[i] = 0 \/ next > Len(frame) + 1 \/ ~from[next].ok THEN Undecodable
                 ELSE [ok |-> TRUE,
                       msg |-> SubSeq(frame, i + 1, next - 1)
                                 \o (IF frame[i] # MaxCode /\ next <= Len(frame) THEN <<0>> ELSE <<>>)
                                 \o from[next].msg]
  IN  from[1]

\* write_cobs_payload
Framed(msg) == Encode(msg) \o <<0>>

-----------------------------------------------------------------------------
\* process_uart1_input.  The rest of a frame that is too long is dropped with it.
Store(b) ==
  IF Len(buf) < FrameCap THEN buf' = Append(buf, b) /\ UNCHANGED truncated
  ELSE truncated' = TRUE /\ UNCHANGED buf

Taken == IF buf # <<>> /\ ~truncated /\ Decode(buf).ok THEN <<Decode(buf).msg>> ELSE <<>>

\* The mark that a frame was too long stays.
BugReceive(b) ==
  IF b # 0 THEN Store(b) /\ taken' = <<>>
  ELSE buf' = <<>> /\ UNCHANGED truncated /\ taken' = Taken
Receive(b) ==
  IF b # 0 THEN Store(b) /\ taken' = <<>>
  ELSE buf' = <<>> /\ truncated' = FALSE /\ taken' = Taken

-----------------------------------------------------------------------------
\* The line: frames are sent one after the other; bytes of them may be lost, and
\* others come in between.

Messages == BoundedSeq(Bytes, MaxMsg)

Send(m) ==
  /\ line = <<>> /\ sent' = m /\ line' = Framed(m)
  /\ UNCHANGED <<buf, truncated, taken, clean>>

Arrive ==
  /\ line # <<>> /\ line' = Tail(line) /\ Receive(Head(line))
  /\ clean' = (clean \/ line = <<0>>) /\ UNCHANGED sent

Lose ==
  /\ line # <<>> /\ line' = Tail(line) /\ clean' = FALSE /\ taken' = <<>>
  /\ UNCHANGED <<sent, buf, truncated>>

Noise(b) ==
  /\ Receive(b) /\ clean' = (b = 0 /\ line = <<>>) /\ UNCHANGED <<sent, line>>

LineInit ==
  /\ sent = <<>> /\ line = <<>> /\ buf = <<>> /\ truncated = FALSE /\ taken = <<>>
  /\ clean = TRUE

LineNext ==
  \/ \E m \in Messages : Send(m)
  \/ Arrive \/ Lose
  \/ \E b \in Bytes : Noise(b)

LineSpec == LineInit /\ [][LineNext]_lineVars

-----------------------------------------------------------------------------
\* All of the frame but its delimiter has arrived, after a delimiter and undisturbed.
Whole == clean /\ line = <<0>> /\ Len(Encode(sent)) <= FrameCap

\* What a frame carries is what was sent, also for messages that end in 0 or in a
\* group that is just full.
RoundTrip == Whole => Decode(buf) = [ok |-> TRUE, msg |-> sent]

\* Whatever noise, half a frame or a frame too long for the buffer came before a
\* delimiter, the frame after it is taken as it was sent.
Resynchronises == [][Whole /\ line' = <<>> /\ clean' => taken' = <<sent>>]_lineVars
=============================================================================
