------------------------------ MODULE UartSecure ------------------------------
(***************************************************************************)
(* The numbered frames of the UART link between the S3 and the Teensy.     *)
(* The S3 numbers what it sends and keeps in NVS a number that no frame    *)
(* has passed, so that numbers go on after a reset; of what it receives it *)
(* takes only numbers that rise, session by session, a session being one   *)
(* run of the Teensy.                                                      *)
(*                                                                         *)
(* seal, open and the shell's uart-crypto command run one at a time under  *)
(* the mutex of uart_secure.  A reset of the S3 comes between any two      *)
(* writes of NVS and memory.  Encryption is left out: a frame that does    *)
(* not verify is not in the model, and the random numbers for the nonces    *)
(* are there.                                                              *)
(*                                                                         *)
(* The Teensy is external: any frame of any of its sessions may arrive at  *)
(* any time, late, again, or not at all.                                   *)
(*                                                                         *)
(* Definitions whose name starts with Bug are not part of the model: each  *)
(* is a wrong version of the definition below it, kept to show that a      *)
(* property notices the mistake.                                           *)
(***************************************************************************)
EXTENDS Naturals, Sequences

CONSTANTS
  Window,      \* kTxSequenceReserveWindow
  Margin,      \* kTxSequenceReserveMargin
  MaxSeq,      \* UINT32_MAX
  Remembered,  \* kRememberedRxSessions
  Sessions,    \* sessions of the Teensy
  NoSession,
  PeerSeqs,    \* numbers of the Teensy's frames
  MaxBoots,    \* bound: runs of the S3
  MaxFaults    \* bound: NVS operations that fail

ASSUME UartSecureAssumption ==
  /\ {Window, MaxSeq, Remembered} \subseteq Nat \ {0}
  /\ {Margin, MaxBoots, MaxFaults} \subseteq Nat /\ PeerSeqs \subseteq Nat \ {0}
  /\ NoSession \notin Sessions

VARIABLES
  stored,   \* "next_tx_seq" in NVS
  keyed,    \* "enabled" and "psk" in NVS
  pc,       \* "off", "load", "ready", or "use" inside seal
  enabled,  \* g_enabled and g_key_loaded
  seq,      \* g_tx_sequence
  limit,    \* g_tx_sequence_reservation_limit
  session,  \* g_rx_session_salt, NoSession if not valid
  rxSeq,    \* g_rx_sequence
  seen,     \* g_seen_rx_sessions
  sealed,   \* history: the number of the last frame sent
  count,    \* history: numbers used
  accepted, \* history: frames taken since the replay state was last reset, a session
            \* that comes back after it was forgotten counting afresh
  age,      \* history: of each session how many were left since it was, itself
            \* included; 0 if it was not left since then
  blind,    \* history: some boot could not read NVS
  boots, faults

nvs == <<stored, keyed>>
tx == <<enabled, seq, limit>>
rx == <<session, rxSeq, seen>>
rxHistory == <<accepted, age>>
vars == <<nvs, pc, tx, rx, sealed, count, rxHistory, blind, boots, faults>>

Numbers == 0..MaxSeq
Frames == Sessions \X PeerSeqs

TypeOK ==
  /\ stored \in Numbers /\ keyed \in BOOLEAN
  /\ pc \in {"off", "load", "ready", "use"} /\ enabled \in BOOLEAN
  /\ seq \in Numbers /\ limit \in Numbers
  /\ session \in Sessions \cup {NoSession} /\ rxSeq \in Nat
  /\ seen \in Seq(Sessions) /\ Len(seen) <= Remembered
  /\ sealed \in Numbers /\ count \in Nat
  /\ accepted \subseteq Frames /\ age \in [Sessions -> Nat]
  /\ blind \in BOOLEAN /\ boots \in Nat /\ faults \in Nat

-----------------------------------------------------------------------------
\* Numbers of frames that are sent.

\* Without the test for the end of the numbers.
BugReservationLimit == (seq + Window) % (MaxSeq + 1)
\* A window on top of what is already reserved.
BugReservationTop == IF stored + Window > MaxSeq THEN MaxSeq ELSE stored + Window
ReservationLimit == IF seq + Window > MaxSeq THEN MaxSeq ELSE seq + Window

FaultOccurs == faults < MaxFaults /\ faults' = faults + 1

\* reserve_tx_sequences: a write that fails may be durable all the same.
Reserve(ok) ==
  IF ok THEN stored' = ReservationLimit /\ limit' = ReservationLimit /\ UNCHANGED faults
  ELSE FaultOccurs /\ stored' \in {stored, ReservationLimit} /\ UNCHANGED limit

\* load_config, first its reading.  Without the number it counts from 0; if NVS does
\* not open, nothing is reserved either.
Load ==
  /\ pc = "off" /\ limit' = 0
  /\ \/ pc' = "load" /\ seq' = stored /\ enabled' = keyed /\ UNCHANGED <<blind, faults>>
     \/ pc' = "load" /\ seq' = stored /\ enabled' = FALSE /\ UNCHANGED blind /\ FaultOccurs
     \/ pc' = "load" /\ seq' = 0 /\ enabled' = keyed /\ blind' = TRUE /\ FaultOccurs
     \/ pc' = "ready" /\ seq' = 0 /\ enabled' = FALSE /\ blind' = TRUE /\ FaultOccurs
  /\ UNCHANGED <<nvs, rx, sealed, count, rxHistory, boots>>

LoadReserve ==
  /\ pc = "load" /\ pc' = "ready"
  /\ \E ok \in BOOLEAN : Reserve(ok)
  /\ UNCHANGED <<keyed, enabled, seq, rx, sealed, count, rxHistory, blind, boots>>

\* ensure_sequence: more numbers are reserved when those left run short.
Short == limit <= seq \/ limit - seq <= Margin

Seal ==
  /\ pc = "ready" /\ enabled /\ seq < MaxSeq
  /\ IF Short
     THEN \E ok \in BOOLEAN : Reserve(ok) /\ pc' = IF ok THEN "use" ELSE "ready"
     ELSE pc' = "use" /\ UNCHANGED <<stored, limit, faults>>
  /\ UNCHANGED <<keyed, enabled, seq, rx, sealed, count, rxHistory, blind, boots>>

\* The frame gets its number; if it is then not encrypted, the number is lost.
Use ==
  /\ pc = "use" /\ pc' = "ready"
  /\ seq' = seq + 1 /\ count' = count + 1
  /\ \/ sealed' = seq' /\ UNCHANGED faults
     \/ UNCHANGED sealed /\ FaultOccurs
  /\ UNCHANGED <<nvs, enabled, limit, rx, rxHistory, blind, boots>>

-----------------------------------------------------------------------------
\* Numbers of frames that are received.

ResetReplay ==
  /\ session' = NoSession /\ rxSeq' = 0 /\ seen' = <<>>
  /\ accepted' = {} /\ age' = [s \in Sessions |-> 0]

\* Without making room.
BugRememberAll(s) == <<s>> \o seen
\* Makes room by forgetting the newest.
BugRemember(s) ==
  IF Len(seen) < Remembered THEN Append(seen, s) ELSE [seen EXCEPT ![1] = s]
Remember(s) ==
  <<s>> \o (IF Len(seen) < Remembered THEN seen ELSE SubSeq(seen, 1, Remembered - 1))

\* The ages when s is left.
Older(r, s) == age[r] > 0 /\ (age[s] = 0 \/ age[r] < age[s])
Left(s) ==
  [r \in Sessions |-> IF r = s THEN 1 ELSE IF Older(r, s) THEN age[r] + 1 ELSE age[r]]

\* open and accept_sequence.  What is not newer, or of a session that was left, is
\* dropped.
OpenNew(f) ==
  /\ f[1] # session /\ f[1] \notin {seen[i] : i \in DOMAIN seen}
  /\ session' = f[1] /\ rxSeq' = f[2]
  /\ seen' = IF session = NoSession THEN seen ELSE Remember(session)
  /\ age' = IF session = NoSession THEN age ELSE Left(session)

OpenNext(f) ==
  /\ f[1] = session /\ f[2] > rxSeq
  /\ rxSeq' = f[2] /\ UNCHANGED <<session, seen, age>>

Open(f) ==
  /\ pc = "ready" /\ enabled
  /\ OpenNew(f) \/ OpenNext(f)
  /\ accepted' = {g \in accepted : g[1] # f[1] \/ session = f[1]} \cup {f}
  /\ UNCHANGED <<nvs, pc, tx, sealed, count, blind, boots, faults>>

\* enable_with_psk_hex: frames under the old key no longer verify.
Kept == IF limit > seq THEN limit ELSE stored
Enable ==
  /\ pc = "ready" /\ enabled' = TRUE /\ ResetReplay
  /\ \/ keyed' = TRUE /\ stored' = Kept /\ UNCHANGED faults
     \/ FaultOccurs /\ keyed' \in {keyed, TRUE} /\ stored' \in {stored, Kept}
  /\ UNCHANGED <<pc, seq, limit, sealed, count, blind, boots>>

-----------------------------------------------------------------------------

\* A reset of the S3, at any point.
Crash ==
  /\ pc # "off" /\ boots < MaxBoots /\ boots' = boots + 1
  /\ pc' = "off" /\ enabled' = FALSE /\ seq' = 0 /\ limit' = 0
  /\ ResetReplay
  /\ UNCHANGED <<nvs, sealed, count, blind, faults>>

Init ==
  /\ stored = 0 /\ keyed = FALSE /\ pc = "off" /\ enabled = FALSE /\ seq = 0 /\ limit = 0
  /\ session = NoSession /\ rxSeq = 0 /\ seen = <<>>
  /\ sealed = 0 /\ count = 0 /\ accepted = {} /\ age = [s \in Sessions |-> 0]
  /\ blind = FALSE /\ boots = 1 /\ faults = 0

Next ==
  \/ Load \/ LoadReserve \/ Seal \/ Use \/ Enable \/ Crash
  \/ \E f \in Frames : Open(f)

Spec == Init /\ [][Next]_vars
=============================================================================
