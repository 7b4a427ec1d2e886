------------------------------ MODULE UartProofs ------------------------------
(***************************************************************************)
(* Theorems about the UART link.  Numbering: for any window, margin and    *)
(* range of numbers, any sessions and frames of the Teensy, any number of  *)
(* resets and of failing NVS operations.  Framing: for messages, groups    *)
(* and a buffer of any length, and any noise and loss.                     *)
(***************************************************************************)
EXTENDS UartProperties, CobsFraming, SequenceTheorems, WellFoundedInduction, TLAPS

USE UartSecureAssumption

-----------------------------------------------------------------------------
\* What the helpers return.

\* The number reserved lies a window ahead, or is the last one.
LEMMA ReservationBounds ==
  ASSUME seq \in Numbers
  PROVE  /\ ReservationLimit \in Numbers
         /\ ReservationLimit >= seq /\ ReservationLimit <= seq + Window
         /\ seq < MaxSeq => ReservationLimit > seq
         /\ \A n \in Numbers : n <= seq + Window => n <= ReservationLimit
<1>1. /\ seq \in Nat /\ MaxSeq \in Nat /\ seq <= MaxSeq
      /\ Window \in Nat /\ Window > 0
  BY DEF Numbers
<1>2. CASE seq + Window > MaxSeq
  BY <1>1, <1>2 DEF Numbers, ReservationLimit
<1>3. CASE ~(seq + Window > MaxSeq)
  BY <1>1, <1>3 DEF Numbers, ReservationLimit
<1>4. QED
  BY <1>2, <1>3

\* The session just left comes first, the others move up by one, and what has
\* no more room is the one that has waited longest.
LEMMA RememberShifts ==
  ASSUME seen \in Seq(Sessions), Len(seen) <= Remembered, NEW s \in Sessions
  PROVE  /\ Remember(s) \in Seq(Sessions) /\ Len(Remember(s)) <= Remembered
         /\ Len(Remember(s)) > 0 /\ Remember(s)[1] = s
         /\ \A i \in 1..Len(seen) :
              i < Remembered => i + 1 \in 1..Len(Remember(s)) /\ Remember(s)[i + 1] = seen[i]
<1>1. Remembered \in Nat /\ Remembered > 0 /\ Len(seen) \in Nat
  BY LenProperties
<1> DEFINE old == IF Len(seen) < Remembered THEN seen ELSE SubSeq(seen, 1, Remembered - 1)
<1>2. /\ old \in Seq(Sessions) /\ Len(old) <= Remembered - 1
      /\ \A i \in 1..Len(seen) : i < Remembered => i \in 1..Len(old) /\ old[i] = seen[i]
  <2>1. CASE Len(seen) < Remembered
    BY <1>1, <2>1
  <2>2. CASE ~(Len(seen) < Remembered)
    <3>1. Len(seen) = Remembered
      BY <1>1, <2>2
    <3>2. \A i \in 1..Remembered - 1 : seen[i] \in Sessions
      BY <1>1, <3>1, ElementOfSeq
    <3>3. /\ SubSeq(seen, 1, Remembered - 1) \in Seq(Sessions)
          /\ Len(SubSeq(seen, 1, Remembered - 1)) = Remembered - 1
          /\ \A i \in 1..Remembered - 1 : SubSeq(seen, 1, Remembered - 1)[i] = seen[i]
      BY <1>1, <3>1, <3>2, SubSeqProperties
    <3>4. QED
      BY <1>1, <2>2, <3>1, <3>3
  <2>3. QED
    BY <2>1, <2>2
<1>3. <<s>> \in Seq(Sessions) /\ Len(<<s>>) = 1 /\ <<s>>[1] = s
  OBVIOUS
<1>4. Remember(s) = <<s>> \o old
  BY DEF Remember
<1>5. /\ Remember(s) \in Seq(Sessions) /\ Len(Remember(s)) = 1 + Len(old)
      /\ \A i \in 1..1 + Len(old) :
           Remember(s)[i] = IF i <= 1 THEN <<s>>[i] ELSE old[i - 1]
  <2> HIDE DEF old
  <2>1. QED
    BY <1>2, <1>3, <1>4, ConcatProperties
<1>6. Len(old) \in Nat
  <2> HIDE DEF old
  <2>1. QED
    BY <1>2, LenProperties
<1>7. ASSUME NEW i \in 1..Len(seen), i < Remembered
      PROVE  i + 1 \in 1..Len(Remember(s)) /\ Remember(s)[i + 1] = seen[i]
  <2> HIDE DEF old
  <2>1. i \in Nat /\ i \in 1..Len(old) /\ old[i] = seen[i]
    BY <1>1, <1>2, <1>7
  <2>2. i + 1 \in 1..1 + Len(old) /\ ~(i + 1 <= 1) /\ (i + 1) - 1 = i
    BY <1>6, <2>1
  <2>3. QED
    BY <1>5, <2>1, <2>2
<1>8. QED
  <2> HIDE DEF old
  <2>1. Remember(s)[1] = s
    BY <1>3, <1>5, <1>6
  <2>2. QED
    BY <1>1, <1>2, <1>5, <1>6, <1>7, <2>1

-----------------------------------------------------------------------------
\* TypeOK is inductive once it is known that a number is given only where one is
\* left.
Room == pc = "use" => seq < MaxSeq

UartTypeInv == TypeOK /\ Room

LEMMA UartTypeInit == Init => UartTypeInv
<1> SUFFICES ASSUME Init PROVE UartTypeInv
  OBVIOUS
<1>1. 0 \in Numbers /\ [s \in Sessions |-> 0] \in [Sessions -> Nat]
  BY DEF Numbers
<1>2. <<>> \in Seq(Sessions) /\ Len(<<>>) <= Remembered
  BY EmptySeq
<1>3. QED
  BY <1>1, <1>2 DEF Init, UartTypeInv, TypeOK, Room

LEMMA LeftTyped ==
  ASSUME age \in [Sessions -> Nat], NEW s \in Sessions PROVE Left(s) \in [Sessions -> Nat]
  BY DEF Left

\* What a reservation leaves well-typed.
LEMMA ReserveTyped ==
  ASSUME TypeOK, NEW ok \in BOOLEAN, Reserve(ok)
  PROVE  stored' \in Numbers /\ limit' \in Numbers /\ faults' \in Nat
  BY ReservationBounds DEF TypeOK, Reserve, FaultOccurs

LEMMA ResetReplayTyped ==
  ASSUME ResetReplay
  PROVE  /\ session' \in Sessions \cup {NoSession} /\ rxSeq' \in Nat
         /\ seen' \in Seq(Sessions) /\ Len(seen') <= Remembered
         /\ accepted' \subseteq Frames /\ age' \in [Sessions -> Nat]
  BY EmptySeq DEF ResetReplay

LEMMA OpenTyped ==
  ASSUME TypeOK, NEW f \in Frames, Open(f)
  PROVE  /\ session' \in Sessions \cup {NoSession} /\ rxSeq' \in Nat
         /\ seen' \in Seq(Sessions) /\ Len(seen') <= Remembered
         /\ accepted' \subseteq Frames /\ age' \in [Sessions -> Nat]
<1>1. f[1] \in Sessions /\ f[2] \in Nat
  BY DEF Frames
<1>2. accepted' \subseteq Frames
  BY DEF Open, TypeOK
<1>3. CASE OpenNew(f) /\ session = NoSession
  BY <1>1, <1>2, <1>3 DEF OpenNew, TypeOK
<1>4. CASE OpenNew(f) /\ session # NoSession
  <2>1. session \in Sessions
    BY <1>4 DEF TypeOK
  <2>2. seen' = Remember(session) /\ age' = Left(session)
    BY <1>4 DEF OpenNew
  <2>3. seen' \in Seq(Sessions) /\ Len(seen') <= Remembered
    BY <2>1, <2>2, RememberShifts DEF TypeOK
  <2>4. age' \in [Sessions -> Nat]
    BY <2>1, <2>2, LeftTyped DEF TypeOK
  <2>5. QED
    BY <1>1, <1>2, <1>4, <2>3, <2>4 DEF OpenNew
<1>5. CASE OpenNext(f)
  BY <1>1, <1>2, <1>5 DEF OpenNext, TypeOK
<1>6. QED
  BY <1>3, <1>4, <1>5 DEF Open

LEMMA UartTypeStep == UartTypeInv /\ [Next]_vars => UartTypeInv'
<1> SUFFICES ASSUME TypeOK, Room, [Next]_vars PROVE UartTypeInv'
  BY DEF UartTypeInv
<1> USE DEF UartTypeInv, Room
<1>1. CASE Load
  <2>1. seq' \in Numbers /\ limit' \in Numbers /\ faults' \in Nat
    BY <1>1 DEF Load, TypeOK, FaultOccurs, Numbers
  <2>2. enabled' \in BOOLEAN /\ blind' \in BOOLEAN
    BY <1>1 DEF Load, TypeOK
  <2>3. pc' \in {"load", "ready"}
    BY <1>1 DEF Load
  <2>4. QED
    BY <1>1, <2>1, <2>2, <2>3 DEF Load, TypeOK, nvs, rx, rxHistory
<1>2. CASE LoadReserve
  BY <1>2, ReserveTyped DEF LoadReserve, TypeOK, rx, rxHistory
<1>3. CASE Seal
  <2>1. /\ stored' \in Numbers /\ limit' \in Numbers /\ faults' \in Nat
        /\ pc' \in {"use", "ready"}
    BY <1>3, ReserveTyped DEF Seal, TypeOK
  <2>2. QED
    BY <1>3, <2>1 DEF Seal, TypeOK, rx, rxHistory
<1>4. CASE Use
  <2>1. seq + 1 \in Numbers
    BY <1>4 DEF Use, TypeOK, Numbers
  <2>2. QED
    BY <1>4, <2>1 DEF Use, TypeOK, FaultOccurs, nvs, rx, rxHistory
<1>5. CASE Enable
  <2>1. Kept \in Numbers
    BY DEF Kept, TypeOK
  <2>2. stored' \in Numbers /\ faults' \in Nat
    <3>1. stored' \in {stored, Kept} /\ (UNCHANGED faults \/ faults' = faults + 1)
      BY <1>5 DEF Enable, FaultOccurs
    <3>2. stored \in Numbers /\ faults \in Nat
      BY DEF TypeOK
    <3>3. QED
      BY <2>1, <3>1, <3>2
  <2>3. keyed' \in BOOLEAN
    BY <1>5 DEF Enable, TypeOK
  <2>4. QED
    BY <1>5, <2>2, <2>3, ResetReplayTyped DEF Enable, TypeOK
<1>6. CASE Crash
  <2>1. 0 \in Numbers
    BY DEF Numbers
  <2>2. boots' \in Nat
    BY <1>6 DEF Crash, TypeOK
  <2>3. QED
    BY <1>6, <2>1, <2>2, ResetReplayTyped DEF Crash, TypeOK, nvs
<1>7. CASE \E f \in Frames : Open(f)
  BY <1>7, OpenTyped DEF Open, TypeOK, nvs, tx
<1>8. CASE UNCHANGED vars
  BY <1>8 DEF vars, nvs, tx, rx, rxHistory, TypeOK
<1>9. QED
  BY <1>1, <1>2, <1>3, <1>4, <1>5, <1>6, <1>7, <1>8 DEF Next

\* Every reachable state of the numbering is well-typed: no number passes
\* UINT32_MAX, and no more sessions are remembered than there is room for.
THEOREM UartTypeCorrect == Spec => []TypeOK
<1>1. Spec => []UartTypeInv
  BY UartTypeInit, UartTypeStep, PTL DEF Spec
<1>2. UartTypeInv => TypeOK
  BY DEF UartTypeInv
<1>3. QED
  BY <1>1, <1>2, PTL

-----------------------------------------------------------------------------
\* Numbers of frames that are sent.

\* Nothing reserved lies beyond what NVS says, nor further than a window ahead.
LimitStored == limit <= stored /\ limit <= seq + Window

\* A frame is numbered only within the reservation.
WithinLimit == pc = "use" => seq < limit

\* Unless a boot could not read it, NVS is ahead of every frame sent, and so are the
\* numbers of the run that has read it.
StoredAhead == ~blind => sealed <= stored /\ (pc # "off" => sealed <= seq)

\* Before a run has reserved anything its window is not yet spent.
WindowSpent ==
  stored <= count + boots * Window
    /\ (IF pc = "off" THEN stored ELSE seq) + Window <= count + boots * Window

NumbersInv == UartTypeInv /\ LimitStored /\ WithinLimit /\ StoredAhead /\ WindowSpent

USE DEF Numbers

\* The windows of several boots add up.
LEMMA WindowTimes ==
  \A n \in Nat : n * Window \in Nat /\ (n + 1) * Window = n * Window + Window
BY UartSecureAssumption

LEMMA NumbersInit == Init => NumbersInv
<1> SUFFICES ASSUME Init PROVE NumbersInv
  OBVIOUS
<1>1. 0 + Window <= 0 + 1 * Window /\ 0 <= Window
  OBVIOUS
<1>2. QED
  BY <1>1, UartTypeInit
     DEF Init, NumbersInv, LimitStored, WithinLimit, StoredAhead, WindowSpent

\* A reservation, whether it is reported as done or not.
LEMMA ReserveKeeps ==
  ASSUME NumbersInv, pc # "off", NEW ok \in BOOLEAN, Reserve(ok),
         UNCHANGED <<seq, sealed, count, blind, boots>>, pc' # "off",
         pc' = "use" => ok /\ seq < MaxSeq
  PROVE  LimitStored' /\ WithinLimit' /\ StoredAhead' /\ WindowSpent'
<1> USE DEF NumbersInv, UartTypeInv, TypeOK, LimitStored, WithinLimit, StoredAhead, WindowSpent
<1> DEFINE spent == count + boots * Window
<1>1. spent \in Nat /\ spent' = spent
  OBVIOUS
<1>2. /\ ReservationLimit \in Nat /\ ReservationLimit >= seq
      /\ ReservationLimit <= seq + Window /\ limit <= ReservationLimit
      /\ seq < MaxSeq => ReservationLimit > seq
  BY ReservationBounds
<1>3. /\ stored' \in {stored, ReservationLimit} /\ limit' \in {limit, ReservationLimit}
      /\ ok => stored' = ReservationLimit /\ limit' = ReservationLimit
      /\ ~ok => limit' = limit
  BY DEF Reserve
<1>4. {seq, stored, limit, sealed, Window} \subseteq Nat
  OBVIOUS
<1>5. LimitStored'
  BY <1>2, <1>3, <1>4
<1>6. WithinLimit'
  BY <1>2, <1>3, <1>4
<1>7. StoredAhead'
  BY <1>2, <1>3, <1>4
<1>8. WindowSpent'
  <2>1. stored <= spent /\ seq + Window <= spent
    OBVIOUS
  <2>2. stored' <= spent /\ seq' + Window <= spent
    <3> HIDE DEF spent, WindowSpent, NumbersInv
    <3>1. seq' = seq
      OBVIOUS
    <3>2. QED
      BY <1>1, <1>2, <1>3, <1>4, <2>1, <3>1
  <2>3. QED
    BY <1>1, <2>2
<1>9. QED
  BY <1>5, <1>6, <1>7, <1>8

LEMMA NumbersStep == NumbersInv /\ [Next]_vars => NumbersInv'
<1> SUFFICES ASSUME NumbersInv, [Next]_vars PROVE NumbersInv'
  OBVIOUS
<1>1. UartTypeInv'
  BY UartTypeStep DEF NumbersInv
<1>2. LimitStored' /\ WithinLimit' /\ StoredAhead' /\ WindowSpent'
  <2> USE DEF NumbersInv, UartTypeInv, TypeOK, LimitStored, WithinLimit, StoredAhead
  <2> DEFINE spent == count + boots * Window
  <2>1. /\ spent \in Nat /\ stored <= spent
        /\ (IF pc = "off" THEN stored ELSE seq) + Window <= spent
        /\ {seq, stored, limit, sealed, count, boots, Window} \subseteq Nat
    BY DEF WindowSpent
  <2>0. /\ limit <= stored /\ limit <= seq + Window /\ (pc = "use" => seq < limit)
        /\ ~blind => sealed <= stored /\ (pc # "off" => sealed <= seq)
        /\ {seq, stored, limit, sealed, Window} \subseteq Nat
    BY <2>1
  <2>2. CASE Load
    <3>1. /\ pc = "off" /\ limit' = 0 /\ pc' # "use" /\ pc' # "off"
          /\ seq' \in {0, stored} /\ (~blind' => ~blind /\ seq' = stored)
          /\ UNCHANGED <<stored, sealed, count, boots>>
      BY <2>2 DEF Load, nvs
    <3>2. LimitStored' /\ WithinLimit' /\ StoredAhead'
      <4> HIDE DEF NumbersInv, spent
      <4>1. QED
        BY <2>0, <3>1
    <3>3. WindowSpent'
      <4>1. spent' = spent
        BY <3>1
      <4>2. stored' <= spent /\ seq' + Window <= spent
        <5> HIDE DEF spent
        <5>1. QED
          BY <2>1, <3>1
      <4>3. QED
        BY <3>1, <4>1, <4>2 DEF WindowSpent
    <3>4. QED
      BY <3>2, <3>3
  <2>3. CASE LoadReserve
    <3>1. PICK ok \in BOOLEAN : Reserve(ok)
      BY <2>3 DEF LoadReserve
    <3>2. QED
      BY <2>3, <3>1, ReserveKeeps DEF LoadReserve
  <2>4. CASE Seal
    <3>1. CASE Short
      <4>1. PICK ok \in BOOLEAN : Reserve(ok) /\ pc' = IF ok THEN "use" ELSE "ready"
        BY <2>4, <3>1 DEF Seal
      <4>2. QED
        BY <2>4, <4>1, ReserveKeeps DEF Seal
    <3>2. CASE ~Short
      <4>1. pc = "ready" /\ pc' = "use"
        BY <2>4, <3>2 DEF Seal
      <4>2. seq < limit
        BY <2>1, <3>2 DEF Short
      <4>3. UNCHANGED <<stored, limit, seq, sealed, count, blind, boots>>
        BY <2>4, <3>2 DEF Seal
      <4>4. QED
        BY <4>1, <4>2, <4>3 DEF WindowSpent
    <3>3. QED
      BY <3>1, <3>2
  <2>5. CASE Use
    <3>1. /\ pc = "use" /\ pc' = "ready" /\ seq' = seq + 1 /\ count' = count + 1
          /\ sealed' \in {sealed, seq + 1} /\ UNCHANGED <<stored, limit, blind, boots>>
      BY <2>5 DEF Use, nvs
    <3>2. LimitStored' /\ WithinLimit' /\ StoredAhead'
      <4>1. limit <= stored /\ limit <= seq + Window /\ seq < limit
        BY <3>1
      <4>2. LimitStored' /\ WithinLimit'
        <5>1. limit' <= stored' /\ limit' <= seq' + Window
          <6> HIDE DEF NumbersInv, TypeOK, UartTypeInv
          <6>1. limit' = limit /\ stored' = stored /\ seq' = seq + 1
            BY <3>1
          <6>2. {limit, seq, Window} \subseteq Nat
            BY <2>1
          <6>3. QED
            BY <4>1, <6>1, <6>2
        <5>2. pc' # "use"
          BY <3>1
        <5>3. QED
          BY <5>1, <5>2
      <4>3. ASSUME ~blind' PROVE sealed' <= stored' /\ sealed' <= seq'
        <5>1. sealed <= seq /\ sealed \in Nat
          BY <3>1, <4>3
        <5>2. QED
          BY <2>1, <3>1, <4>1, <5>1
      <4>4. QED
        BY <4>2, <4>3
    <3>3. WindowSpent'
      <4>1. spent' = spent + 1
        <5>1. boots * Window \in Nat
          <6> HIDE DEF NumbersInv, spent
          <6>1. QED
            BY <2>1, WindowTimes
        <5>2. \A x \in Nat : (count + 1) + x = (count + x) + 1
          BY <2>1
        <5> HIDE DEF NumbersInv
        <5>3. count' + boots' * Window = (count + 1) + boots * Window
          BY <3>1
        <5>4. QED
          BY <5>1, <5>2, <5>3
      <4>2. stored' <= spent + 1 /\ seq' + Window <= spent + 1
        <5> HIDE DEF spent
        <5>1. QED
          BY <2>1, <3>1
      <4>3. QED
        BY <3>1, <4>1, <4>2 DEF WindowSpent
    <3>4. QED
      BY <3>2, <3>3
  <2>6. CASE Enable
    <3>1. /\ pc = "ready" /\ stored' \in {stored, Kept}
          /\ UNCHANGED <<pc, seq, limit, sealed, count, blind, boots>>
      BY <2>6 DEF Enable
    <3>2. stored' = stored \/ (stored' = limit /\ seq < limit)
      BY <2>1, <3>1 DEF Kept
    <3>3. LimitStored' /\ WithinLimit' /\ StoredAhead'
      BY <2>1, <3>1, <3>2
    <3>4. WindowSpent'
      <4>1. spent' = spent
        BY <3>1
      <4>2. stored' <= spent /\ seq' + Window <= spent
        <5> HIDE DEF spent
        <5>1. QED
          BY <2>1, <3>1, <3>2
      <4>3. QED
        BY <3>1, <4>1, <4>2 DEF WindowSpent
    <3>5. QED
      BY <3>3, <3>4
  <2>7. CASE Crash
    <3>1. /\ pc' = "off" /\ seq' = 0 /\ limit' = 0 /\ boots' = boots + 1
          /\ UNCHANGED <<stored, sealed, count, blind>>
      BY <2>7 DEF Crash, nvs
    <3>2. LimitStored' /\ WithinLimit' /\ StoredAhead'
      <4> HIDE DEF NumbersInv, spent
      <4>1. LimitStored' /\ WithinLimit'
        BY <2>0, <3>1
      <4>2. ASSUME ~blind' PROVE sealed' <= stored' /\ pc' = "off"
        BY <2>0, <3>1, <4>2
      <4>3. QED
        BY <4>1, <4>2
    <3>3. WindowSpent'
      <4>1. spent' = spent + Window
        <5>1. (boots + 1) * Window = boots * Window + Window
          <6> HIDE DEF NumbersInv, spent
          <6>1. QED
            BY <2>1, WindowTimes
        <5>2. boots * Window \in Nat
          <6> HIDE DEF NumbersInv, spent
          <6>1. QED
            BY <2>1, WindowTimes
        <5>3. \A x \in Nat : count + (x + Window) = (count + x) + Window
          BY <2>1
        <5> HIDE DEF NumbersInv
        <5>4. count' + boots' * Window = count + (boots + 1) * Window
          BY <3>1
        <5>5. QED
          BY <5>1, <5>2, <5>3, <5>4
      <4>2. stored' <= spent + Window /\ stored' + Window <= spent + Window
        <5> HIDE DEF spent
        <5>1. QED
          BY <2>1, <3>1
      <4>3. QED
        BY <3>1, <4>1, <4>2 DEF WindowSpent
    <3>4. QED
      BY <3>2, <3>3
  <2>8. CASE \/ \E f \in Frames : Open(f)
             \/ UNCHANGED vars
    <3>1. UNCHANGED <<pc, stored, seq, limit, sealed, count, blind, boots>>
      BY <2>8 DEF Open, nvs, tx, vars
    <3>2. QED
      BY <3>1 DEF WindowSpent
  <2>9. QED
    BY <2>2, <2>3, <2>4, <2>5, <2>6, <2>7, <2>8 DEF Next
<1>3. QED
  BY <1>1, <1>2 DEF NumbersInv

LEMMA NumbersInvariant == Spec => []NumbersInv
  BY NumbersInit, NumbersStep, PTL DEF Spec

\* No frame gets a number that an earlier one had, over any number of resets and
\* failed reservations, as long as every boot could read NVS.
THEOREM NumbersNeverReused == Spec => NumbersFresh
<1>1. NumbersInv /\ [Next]_vars => [sealed' # sealed => sealed' > sealed \/ blind]_vars
  <2> SUFFICES ASSUME NumbersInv, Next, sealed' # sealed, ~blind PROVE sealed' > sealed
    OBVIOUS
  <2>1. Use
    BY DEF Next, Load, LoadReserve, Seal, Enable, Crash, Open
  <2>2. pc # "off" /\ sealed' = seq + 1
    BY <2>1 DEF Use
  <2>3. QED
    BY <2>2 DEF NumbersInv, UartTypeInv, TypeOK, StoredAhead
<1>2. QED
  BY <1>1, NumbersInvariant, PTL DEF Spec, NumbersFresh

\* A boot never costs more than one window of numbers.
THEOREM BootCostsOneWindow == Spec => []WindowPerBoot
<1>1. NumbersInv => WindowPerBoot
  BY DEF NumbersInv, WindowSpent, WindowPerBoot
<1>2. QED
  BY <1>1, NumbersInvariant, PTL

-----------------------------------------------------------------------------
\* Numbers of frames that are received.

\* Before a session is known nothing has been taken.
NothingTaken ==
  session = NoSession => accepted = {} /\ \A s \in Sessions : age[s] = 0

\* Of the session under way nothing newer than the last frame has been taken.
TakenOlder == \A f \in accepted : f[1] = session => f[2] <= rxSeq

\* The sessions left last are the ones that are remembered, in that order.
RecentRemembered ==
  \A s \in RecentlyRetired : age[s] \in DOMAIN seen /\ seen[age[s]] = s

\* The session under way is not one of them.
CurrentNotRetired == session \notin RecentlyRetired

ReplayInv ==
  UartTypeInv /\ NothingTaken /\ TakenOlder /\ RecentRemembered /\ CurrentNotRetired

LEMMA ReplayReset ==
  ASSUME ResetReplay
  PROVE  NothingTaken' /\ TakenOlder' /\ RecentRemembered' /\ CurrentNotRetired'
<1>1. session' = NoSession /\ accepted' = {} /\ \A s \in Sessions : age'[s] = 0
  BY DEF ResetReplay
<1>2. RecentlyRetired' = {}
  BY <1>1 DEF RecentlyRetired
<1>3. QED
  BY <1>1, <1>2 DEF NothingTaken, TakenOlder, RecentRemembered, CurrentNotRetired

\* A session that is not remembered is not one of those left last.
LEMMA UnseenNotRecent ==
  ASSUME ReplayInv, NEW f \in Frames, OpenNew(f)
  PROVE  f[1] \notin RecentlyRetired
  BY DEF ReplayInv, RecentRemembered, OpenNew

LEMMA OpenKeeps ==
  ASSUME ReplayInv, NEW f \in Frames, Open(f)
  PROVE  NothingTaken' /\ TakenOlder' /\ RecentRemembered' /\ CurrentNotRetired'
<1>1. /\ f[1] \in Sessions /\ f[2] \in Nat /\ f[1] # NoSession
      /\ age \in [Sessions -> Nat] /\ seen \in Seq(Sessions) /\ Len(seen) <= Remembered
      /\ rxSeq \in Nat /\ Remembered \in Nat /\ accepted \subseteq Frames
  BY DEF Frames, ReplayInv, UartTypeInv, TypeOK
<1>2. accepted' = {g \in accepted : g[1] # f[1] \/ session = f[1]} \cup {f}
  BY DEF Open
<1>3. session' = f[1] /\ rxSeq' = f[2]
  BY DEF Open, OpenNew, OpenNext
<1>4. NothingTaken'
  BY <1>1, <1>3 DEF NothingTaken
<1>5. TakenOlder'
  <2> SUFFICES ASSUME NEW g \in accepted', g[1] = f[1] PROVE g[2] <= f[2]
    BY <1>3 DEF TakenOlder
  <2>1. CASE g = f
    BY <1>1, <2>1
  <2>2. CASE g # f
    <3>1. g \in accepted /\ session = f[1]
      BY <1>2, <2>2
    <3>2. g[2] <= rxSeq /\ g[2] \in Nat /\ f[2] > rxSeq
      BY <1>1, <3>1 DEF ReplayInv, TakenOlder, Frames, Open, OpenNew, OpenNext
    <3>3. QED
      BY <1>1, <3>2
  <2>3. QED
    BY <2>1, <2>2
<1>6. CASE OpenNext(f)
  <2>1. UNCHANGED <<session, seen, age>>
    BY <1>6 DEF OpenNext
  <2>2. RecentlyRetired' = RecentlyRetired
    BY <2>1 DEF RecentlyRetired
  <2>3. QED
    BY <1>4, <1>5, <2>1, <2>2 DEF ReplayInv, RecentRemembered, CurrentNotRetired
<1>7. CASE OpenNew(f) /\ session = NoSession
  <2>1. age' = age /\ seen' = seen
    BY <1>7 DEF OpenNew
  <2>2. RecentlyRetired' = RecentlyRetired /\ RecentlyRetired = {}
    BY <1>7, <2>1 DEF RecentlyRetired, ReplayInv, NothingTaken
  <2>3. QED
    BY <1>4, <1>5, <2>1, <2>2 DEF RecentRemembered, CurrentNotRetired
<1>8. CASE OpenNew(f) /\ session # NoSession
  <2>1. session \in Sessions /\ session \notin RecentlyRetired
    BY <1>8 DEF ReplayInv, UartTypeInv, TypeOK, CurrentNotRetired
  <2>2. seen' = Remember(session) /\ age' = Left(session) /\ f[1] # session
    BY <1>8 DEF OpenNew
  <2>3. age[session] = 0 \/ age[session] > Remembered
    BY <1>1, <2>1 DEF RecentlyRetired
  <2>4. /\ Len(seen') > 0 /\ seen'[1] = session /\ seen' \in Seq(Sessions)
        /\ \A i \in 1..Len(seen) :
             i < Remembered => i + 1 \in 1..Len(seen') /\ seen'[i + 1] = seen[i]
    BY <1>1, <2>1, <2>2, RememberShifts
  <2>5. ASSUME NEW s \in Sessions, age'[s] \in 1..Remembered, s # session
        PROVE  age[s] \in 1..Remembered /\ age'[s] = age[s] + 1
    <3>1. age'[s] = IF Older(s, session) THEN age[s] + 1 ELSE age[s]
      BY <2>2, <2>5 DEF Left
    <3>2. CASE Older(s, session)
      BY <1>1, <2>5, <3>1, <3>2 DEF Older
    <3>3. CASE ~Older(s, session)
      BY <1>1, <2>1, <2>3, <2>5, <3>1, <3>3 DEF Older
    <3>4. QED
      BY <3>2, <3>3
  <2>6. ASSUME NEW s \in RecentlyRetired' PROVE age'[s] \in DOMAIN seen' /\ seen'[age'[s]] = s
    <3>1. s \in Sessions /\ age'[s] \in 1..Remembered
      BY DEF RecentlyRetired
    <3>2. DOMAIN seen' = 1..Len(seen') /\ Len(seen') \in Nat /\ DOMAIN seen = 1..Len(seen)
      BY <1>1, <2>4, LenProperties
    <3>3. CASE s = session
      <4>1. age'[s] = 1
        BY <2>1, <2>2, <3>3 DEF Left
      <4>2. QED
        BY <2>4, <3>2, <3>3, <4>1
    <3>4. CASE s # session
      <4>1. age[s] \in 1..Remembered /\ age'[s] = age[s] + 1
        BY <2>5, <3>1, <3>4
      <4>2. age[s] \in 1..Len(seen) /\ seen[age[s]] = s
        BY <3>1, <3>2, <4>1 DEF ReplayInv, RecentRemembered, RecentlyRetired
      <4>3. age[s] < Remembered
        BY <1>1, <3>1, <4>1
      <4>4. QED
        BY <2>4, <3>2, <4>1, <4>2, <4>3
    <3>5. QED
      BY <3>3, <3>4
  <2>7. f[1] \notin RecentlyRetired'
    <3> SUFFICES ASSUME f[1] \in RecentlyRetired' PROVE FALSE
      OBVIOUS
    <3>1. age[f[1]] \in 1..Remembered
      BY <1>1, <2>2, <2>5 DEF RecentlyRetired
    <3>2. QED
      BY <1>1, <1>8, <3>1, UnseenNotRecent DEF RecentlyRetired
  <2>8. QED
    BY <1>3, <1>4, <1>5, <2>6, <2>7 DEF RecentRemembered, CurrentNotRetired
<1>9. QED
  BY <1>4, <1>5, <1>6, <1>7, <1>8 DEF Open

LEMMA ReplayInit == Init => ReplayInv
<1> SUFFICES ASSUME Init PROVE ReplayInv
  OBVIOUS
<1>1. RecentlyRetired = {}
  BY DEF Init, RecentlyRetired
<1>2. QED
  BY <1>1, UartTypeInit
     DEF Init, ReplayInv, NothingTaken, TakenOlder, RecentRemembered, CurrentNotRetired

LEMMA ReplayStep == ReplayInv /\ [Next]_vars => ReplayInv'
<1> SUFFICES ASSUME ReplayInv, [Next]_vars PROVE ReplayInv'
  OBVIOUS
<1>1. UartTypeInv'
  BY UartTypeStep DEF ReplayInv
<1>2. CASE Enable \/ Crash
  BY <1>1, <1>2, ReplayReset DEF Enable, Crash, ReplayInv
<1>3. CASE \E f \in Frames : Open(f)
  BY <1>1, <1>3, OpenKeeps DEF ReplayInv
<1>4. CASE Load \/ LoadReserve \/ Seal \/ Use \/ UNCHANGED vars
  <2>1. UNCHANGED <<session, rxSeq, seen, accepted, age>>
    BY <1>4 DEF Load, LoadReserve, Seal, Use, rx, rxHistory, vars
  <2>2. QED
    BY <1>1, <2>1
       DEF ReplayInv, NothingTaken, TakenOlder, RecentRemembered, CurrentNotRetired,
           RecentlyRetired
<1>5. QED
  BY <1>2, <1>3, <1>4 DEF Next

\* A frame is taken once, however frames of however many sessions are mixed, until
\* as many later sessions as are remembered have come and gone.
THEOREM FramesTakenOnce == Spec => TakenOnce
<1>1. Spec => []ReplayInv
  BY ReplayInit, ReplayStep, PTL DEF Spec
<1> DEFINE Accepted ==
      <<session, rxSeq>>' # <<session, rxSeq>> /\ session' # NoSession
        /\ <<session, rxSeq>>' \in accepted
        => session' # session /\ session' \notin RecentlyRetired
<1>2. ReplayInv /\ [Next]_vars => [Accepted]_vars
  <2> SUFFICES ASSUME ReplayInv, Next, session' # NoSession,
                      <<session', rxSeq'>> # <<session, rxSeq>>,
                      <<session', rxSeq'>> \in accepted
               PROVE  session' # session /\ session' \notin RecentlyRetired
    OBVIOUS
  <2>1. PICK f \in Frames : Open(f)
    BY DEF Next, Load, LoadReserve, Seal, Use, Enable, Crash, ResetReplay, rx
  <2>2. CASE OpenNew(f)
    BY <2>2, UnseenNotRecent DEF OpenNew
  <2>3. CASE OpenNext(f)
    <3>1. session' = session /\ rxSeq' > rxSeq /\ rxSeq' \in Nat /\ rxSeq \in Nat
      BY <2>3 DEF OpenNext, Frames, ReplayInv, UartTypeInv, TypeOK
    <3>2. rxSeq' <= rxSeq
      BY <3>1 DEF ReplayInv, TakenOlder
    <3>3. QED
      BY <3>1, <3>2
  <2>4. QED
    BY <2>1, <2>2, <2>3 DEF Open
<1>3. QED
  BY <1>1, <1>2, PTL DEF Spec, TakenOnce

-----------------------------------------------------------------------------
HIDE UartSecureAssumption
USE CobsAssumption

\* Induction over a set of numbers, from below and from above.

LEMMA SetInduction ==
  ASSUME NEW N \in Nat, NEW T, 0 \in T,
         \A n \in 0..N : n \in T /\ n < N => n + 1 \in T
  PROVE  0..N \subseteq T
<1> DEFINE less == {ss \in Nat \X Nat : ss[1] < ss[2]}
           left == {n \in 0..N : n \notin T}
<1>1. SUFFICES ASSUME left # {} PROVE FALSE
  OBVIOUS
<1>2. IsWellFoundedOn(less, Nat)
  BY NatLessThanWellFounded DEF OpToRel
<1>3. left \subseteq Nat
  OBVIOUS
<1>4. \E n \in left : \A k \in left : <<k, n>> \notin less
  <2> HIDE DEF less, left
  <2> QED BY <1>1, <1>2, <1>3, WFMin
<1>5. PICK n \in left : \A k \in left : <<k, n>> \notin less
  BY <1>4
<1>6. n \in Nat /\ n # 0 /\ n - 1 \in 0..N /\ n - 1 < N
  OBVIOUS
<1>7. n - 1 \in T
  <2>1. <<n - 1, n>> \in less
    BY <1>6
  <2>2. n - 1 \notin left
    BY <1>5, <2>1
  <2>3. QED
    BY <1>6, <2>2
<1>8. (n - 1) + 1 \in T
  BY <1>6, <1>7
<1>9. (n - 1) + 1 = n /\ n \notin T
  BY <1>6
<1>10. QED
  BY <1>8, <1>9

LEMMA SetInductionDown ==
  ASSUME NEW N \in Nat, NEW T, N \in T,
         \A n \in 0..N : n \in T /\ n > 0 => n - 1 \in T
  PROVE  0..N \subseteq T
<1> DEFINE U == {n \in 0..N : N - n \in T}
<1>1. 0..N \subseteq U
  <2>1. 0 \in U
    OBVIOUS
  <2>2. ASSUME NEW n \in 0..N, n \in U, n < N PROVE n + 1 \in U
    <3>1. N - n \in 0..N /\ N - n > 0 /\ N - n - 1 = N - (n + 1) /\ n + 1 \in 0..N
      BY <2>2
    <3>2. QED
      BY <2>2, <3>1
  <2> HIDE DEF U
  <2>3. QED
    BY <2>1, <2>2, SetInduction
<1>2. ASSUME NEW n \in 0..N PROVE n \in T
  <2>1. N - n \in 0..N /\ N - (N - n) = n
    OBVIOUS
  <2>2. QED
    BY <1>1, <2>1
<1>3. QED
  BY <1>2

-----------------------------------------------------------------------------
\* The recursive functions of Encode and Decode exist, so their equations hold.

Encoder(msg, f) ==
  f = [i \in 0..Len(msg) |->
         IF i = 0 THEN [out |-> <<>>, block |-> <<>>] ELSE EncodeByte(f[i - 1], msg[i])]

LEMMA EncoderExists ==
  ASSUME NEW msg, Len(msg) \in Nat
  PROVE  \E f : Encoder(msg, f)
<1> DEFINE Upto(n, f) ==
             f = [i \in 0..n |-> IF i = 0 THEN [out |-> <<>>, block |-> <<>>]
                                 ELSE EncodeByte(f[i - 1], msg[i])]
           T == {n \in Nat : \E f : Upto(n, f)}
<1>1. 0 \in T
  <2> DEFINE f == [i \in 0..0 |-> [out |-> <<>>, block |-> <<>>]]
  <2>1. Upto(0, f)
    OBVIOUS
  <2>2. QED
    BY <2>1
<1>2. ASSUME NEW n \in Nat, n \in T PROVE n + 1 \in T
  <2>1. PICK f : Upto(n, f)
    BY <1>2
  <2> DEFINE g == [i \in 0..n + 1 |-> IF i = n + 1 THEN EncodeByte(f[n], msg[n + 1]) ELSE f[i]]
             h == [i \in 0..n + 1 |-> IF i = 0 THEN [out |-> <<>>, block |-> <<>>]
                                      ELSE EncodeByte(g[i - 1], msg[i])]
  <2>2. ASSUME NEW i \in 0..n + 1 PROVE g[i] = h[i]
    <3>1. CASE i = n + 1
      <4>1. i # 0 /\ i - 1 = n /\ n \in 0..n + 1 /\ n # n + 1
        BY <3>1
      <4>2. g[i - 1] = f[n] /\ g[i] = EncodeByte(f[n], msg[n + 1])
        BY <3>1, <4>1
      <4>3. h[i] = EncodeByte(g[i - 1], msg[i])
        BY <4>1
      <4>4. QED
        BY <3>1, <4>2, <4>3
    <3>2. CASE i = 0
      <4>1. g[0] = f[0] /\ f[0] = [out |-> <<>>, block |-> <<>>]
        BY <2>1
      <4>2. h[0] = [out |-> <<>>, block |-> <<>>]
        OBVIOUS
      <4>3. QED
        BY <3>2, <4>1, <4>2
    <3>3. CASE i # 0 /\ i # n + 1
      <4>1. i \in 0..n /\ i - 1 \in 0..n + 1 /\ i - 1 # n + 1
        BY <3>3
      <4>2. f[i] = EncodeByte(f[i - 1], msg[i])
        BY <2>1, <3>3, <4>1
      <4>3. g[i] = f[i] /\ g[i - 1] = f[i - 1]
        BY <3>3, <4>1
      <4>4. h[i] = EncodeByte(g[i - 1], msg[i])
        BY <3>3
      <4>5. QED
        BY <4>2, <4>3, <4>4
    <3>4. QED
      BY <3>1, <3>2, <3>3
  <2>3. g = h
    <3>1. DOMAIN g = DOMAIN h /\ DOMAIN g = 0..n + 1
      OBVIOUS
    <3>2. QED
      BY <2>2, <3>1
  <2>4. Upto(n + 1, g)
    BY <2>3
  <2> HIDE DEF g, h, Upto
  <2>5. QED
    BY <2>4
<1>3. \A n \in Nat : n \in T
  <2> HIDE DEF T
  <2>1. TAKE n \in Nat
  <2>2. 0..n \subseteq T
    BY <1>1, <1>2, SetInduction
  <2>3. QED
    BY <2>2
<1>4. QED
  BY <1>3 DEF Encoder

LEMMA EncodeUnfolds ==
  ASSUME NEW msg, Len(msg) \in Nat
  PROVE  \E f : /\ Encoder(msg, f)
                /\ Encode(msg) = f[Len(msg)].out \o Group(f[Len(msg)].block)
<1> DEFINE f == CHOOSE f : f = [i \in 0..Len(msg) |->
                  IF i = 0 THEN [out |-> <<>>, block |-> <<>>]
                  ELSE EncodeByte(f[i - 1], msg[i])]
<1>1. Encoder(msg, f)
  BY EncoderExists DEF Encoder
<1>2. Encode(msg) = f[Len(msg)].out \o Group(f[Len(msg)].block)
  BY DEF Encode
<1>3. QED
  BY <1>1, <1>2

Reading(frame, f, i) ==
  IF i > Len(frame) THEN [ok |-> TRUE, msg |-> <<>>]
  ELSE LET next == i + frame[i]
       IN  IF frame[i] = 0 \/ next > Len(frame) + 1 \/ ~f[next].ok THEN Undecodable
           ELSE [ok |-> TRUE,
                 msg |-> SubSeq(frame, i + 1, next - 1)
                           \o (IF frame[i] # MaxCode /\ next <= Len(frame) THEN <<0>> ELSE <<>>)
                           \o f[next].msg]

Decoder(frame, f) == f = [i \in 1 .. Len(frame) + 1 |-> Reading(frame, f, i)]

LEMMA DecoderExists ==
  ASSUME NEW frame \in Seq(Nat)
  PROVE  \E f : Decoder(frame, f)
<1>1. Len(frame) \in Nat /\ \A i \in 1..Len(frame) : frame[i] \in Nat
  OBVIOUS
<1> DEFINE L == Len(frame)
           From(n, f) == f = [i \in n + 1 .. L + 1 |-> Reading(frame, f, i)]
           T == {n \in 0..L : \E f : From(n, f)}
<1>2. L \in T
  <2> DEFINE f == [i \in L + 1 .. L + 1 |-> [ok |-> TRUE, msg |-> <<>>]]
  <2>1. \A i \in L + 1 .. L + 1 : f[i] = Reading(frame, f, i)
    BY <1>1 DEF Reading
  <2> DEFINE h == [i \in L + 1 .. L + 1 |-> Reading(frame, f, i)]
  <2>2. f = h
    <3>1. DOMAIN f = DOMAIN h /\ DOMAIN f = L + 1 .. L + 1
      OBVIOUS
    <3>2. \A i \in L + 1 .. L + 1 : f[i] = h[i]
      BY <2>1
    <3> HIDE DEF L
    <3>3. QED
      BY <3>1, <3>2
  <2>3. From(L, f)
    BY <2>2
  <2> HIDE DEF f, h, From
  <2>4. QED
    BY <1>1, <2>3
<1>3. ASSUME NEW n \in 0..L, n \in T, n > 0 PROVE n - 1 \in T
  <2>1. PICK f : From(n, f)
    BY <1>3
  <2> DEFINE g == [i \in n .. L + 1 |-> IF i = n THEN Reading(frame, f, n) ELSE f[i]]
             h == [i \in n .. L + 1 |-> Reading(frame, g, i)]
  <2>2. ASSUME NEW i \in n .. L + 1, NEW k \in n .. L + 1, k > i PROVE g[k] = f[k]
    BY <1>1, <2>2
  <2>3. ASSUME NEW i \in n .. L + 1 PROVE Reading(frame, g, i) = Reading(frame, f, i)
    <3>1. CASE i > L
      BY <3>1 DEF Reading
    <3>2. CASE ~(i > L)
      <4>1. i \in 1..L /\ frame[i] \in Nat
        BY <1>1, <1>3, <3>2
      <4>2. CASE frame[i] = 0 \/ i + frame[i] > L + 1
        BY <3>2, <4>2 DEF Reading
      <4>3. CASE ~(frame[i] = 0 \/ i + frame[i] > L + 1)
        <5>1. i + frame[i] \in n .. L + 1 /\ i + frame[i] > i
          BY <1>1, <4>1, <4>3
        <5>2. g[i + frame[i]] = f[i + frame[i]]
          BY <2>2, <5>1
        <5> HIDE DEF g
        <5>3. QED
          BY <3>2, <4>3, <5>2 DEF Reading
      <4>4. QED
        BY <4>2, <4>3
    <3>3. QED
      BY <3>1, <3>2
  <2>4. ASSUME NEW i \in n .. L + 1 PROVE g[i] = h[i]
    <3>1. h[i] = Reading(frame, f, i)
      BY <2>3
    <3>2. CASE i = n
      BY <3>1, <3>2
    <3>3. CASE i # n
      <4>1. i \in n + 1 .. L + 1
        BY <1>1, <3>3
      <4>2. f[i] = Reading(frame, f, i)
        BY <2>1, <4>1
      <4>3. g[i] = f[i]
        BY <3>3
      <4>4. QED
        BY <3>1, <4>2, <4>3
    <3>4. QED
      BY <3>2, <3>3
  <2>5. g = h
    <3>1. DOMAIN g = DOMAIN h /\ DOMAIN g = n .. L + 1
      OBVIOUS
    <3>2. QED
      BY <2>4, <3>1
  <2>6. From(n - 1, g)
    <3>1. (n - 1) + 1 = n
      BY <1>1
    <3>2. QED
      BY <2>5, <3>1
  <2> HIDE DEF g, h, From
  <2>7. QED
    BY <1>1, <1>3, <2>6
<1>4. 0 \in T
  <2> HIDE DEF T
  <2>1. 0..L \subseteq T
    BY <1>1, <1>2, <1>3, SetInductionDown
  <2>2. QED
    BY <1>1, <2>1
<1>5. QED
  BY <1>1, <1>4 DEF Decoder

LEMMA DecodeUnfolds ==
  ASSUME NEW frame \in Seq(Nat)
  PROVE  \E f : Decoder(frame, f) /\ Decode(frame) = f[1]
<1> DEFINE f == CHOOSE f : f = [i \in 1 .. Len(frame) + 1 |->
        IF i > Len(frame) THEN [ok |-> TRUE, msg |-> <<>>]
        ELSE LET next == i + frame[i]
             IN  IF frame[i] = 0 \/ next > Len(frame) + 1 \/ ~f[next].ok THEN Undecodable
                 ELSE [ok |-> TRUE,
                       msg |-> SubSeq(frame, i + 1, next - 1)
                                 \o (IF frame[i] # MaxCode /\ next <= Len(frame) THEN <<0>> ELSE <<>>)
                                 \o f[next].msg]]
<1>1. Decoder(frame, f)
  BY DecoderExists DEF Decoder, Reading
<1>2. Decode(frame) = f[1]
  BY DEF Decode
<1>3. QED
  BY <1>1, <1>2

-----------------------------------------------------------------------------
\* What Encode makes of a message.

NonZero == Nat \ {0}

\* The bytes read so far are in groups but for the last of them, the block.
Block(msg, i, block) ==
  Len(block) + 2 <= MaxCode /\ Len(block) <= i /\ block = SubSeq(msg, i - Len(block) + 1, i)

LEMMA GroupBytes ==
  ASSUME NEW block \in Seq(NonZero)
  PROVE  /\ Group(block) \in Seq(NonZero)
         /\ Len(Group(block)) = Len(block) + 1
         /\ Group(block)[1] = Len(block) + 1
         /\ \A j \in 1..Len(block) : Group(block)[j + 1] = block[j]
<1>1. Len(block) \in Nat /\ Len(block) + 1 \in NonZero
  BY LenProperties DEF NonZero
<1>2. <<Len(block) + 1>> \in Seq(NonZero) /\ Len(<<Len(block) + 1>>) = 1
      /\ <<Len(block) + 1>>[1] = Len(block) + 1
  BY <1>1
<1>3. /\ Group(block) \in Seq(NonZero) /\ Len(Group(block)) = 1 + Len(block)
      /\ \A i \in 1 .. 1 + Len(block) : Group(block)[i] =
           IF i <= 1 THEN <<Len(block) + 1>>[i] ELSE block[i - 1]
  BY <1>2, ConcatProperties DEF Group
<1>4. ASSUME NEW j \in 1..Len(block) PROVE Group(block)[j + 1] = block[j]
  <2>1. j + 1 \in 1 .. 1 + Len(block) /\ ~(j + 1 <= 1) /\ (j + 1) - 1 = j
    BY <1>1
  <2>2. QED
    BY <1>3, <2>1
<1>5. QED
  BY <1>1, <1>2, <1>3, <1>4

\* The next byte ends the group with a 0 that is left out, fills it, or joins it.
Step(b, out, block, out2, block2) ==
  \/ b = 0 /\ out2 = out \o Group(block) /\ block2 = <<>>
  \/ /\ b \in NonZero /\ Len(block) + 2 = MaxCode
     /\ out2 = out \o Group(Append(block, b)) /\ block2 = <<>>
  \/ b \in NonZero /\ out2 = out /\ block2 = Append(block, b)

LEMMA EmptyBlock ==
  ASSUME NEW msg, NEW i \in Nat
  PROVE  <<>> \in Seq(NonZero) /\ Block(msg, i, <<>>)
<1>1. Len(<<>>) = 0 /\ i < i - 0 + 1 /\ i - 0 + 1 \in Int /\ i \in Int
  OBVIOUS
<1>2. SubSeq(msg, i - 0 + 1, i) = <<>>
  BY <1>1, SubSeqEmpty
<1>3. 0 + 2 <= MaxCode /\ 0 <= i
  BY CobsAssumption
<1>4. QED
  BY <1>1, <1>2, <1>3 DEF Block

LEMMA LongerBlock ==
  ASSUME NEW msg \in Seq(Nat), NEW i \in 0 .. Len(msg) - 1, NEW block \in Seq(NonZero),
         Block(msg, i, block), msg[i + 1] # 0
  PROVE  /\ msg[i + 1] \in NonZero /\ Append(block, msg[i + 1]) \in Seq(NonZero)
         /\ Len(Append(block, msg[i + 1])) = Len(block) + 1
         /\ Append(block, msg[i + 1]) = SubSeq(msg, i - Len(block) + 1, i + 1)
<1> DEFINE L == Len(block)
           b == msg[i + 1]
<1>1. /\ Len(msg) \in Nat /\ i \in Nat /\ i + 1 \in 1..Len(msg) /\ b \in Nat
      /\ L \in Nat
  OBVIOUS
<1>2. L <= i /\ block = SubSeq(msg, i - L + 1, i)
  BY DEF Block
<1>3. b \in NonZero
  BY <1>1 DEF NonZero
<1>4. Append(block, b) \in Seq(NonZero) /\ Len(Append(block, b)) = L + 1
  BY <1>1, <1>3, AppendProperties
<1>5. i - L + 1 \in 1 .. Len(msg) /\ i + 1 \in i - L + 1 .. Len(msg) /\ (i + 1) - 1 = i
  <2> HIDE DEF L, b
  <2>1. QED
    BY <1>1, <1>2
<1>6. SubSeq(msg, i - L + 1, i + 1) = SubSeq(msg, i - L + 1, (i + 1) - 1) \o <<b>>
  <2> HIDE DEF L
  <2>1. QED
    BY <1>5, SubSeqRecursiveSecond
<1>7. Append(block, b) = block \o <<b>>
  BY <1>3, AppendIsConcat
<1>8. QED
  BY <1>2, <1>3, <1>4, <1>5, <1>6, <1>7

LEMMA EncodeByteStep ==
  ASSUME NEW msg \in Seq(Nat), NEW i \in 0 .. Len(msg) - 1,
         NEW out \in Seq(NonZero), NEW block \in Seq(NonZero), Block(msg, i, block)
  PROVE  \E out2 \in Seq(NonZero), block2 \in Seq(NonZero) :
           /\ EncodeByte([out |-> out, block |-> block], msg[i + 1])
                = [out |-> out2, block |-> block2]
           /\ Block(msg, i + 1, block2) /\ Step(msg[i + 1], out, block, out2, block2)
<1> DEFINE b == msg[i + 1]
           e == [out |-> out, block |-> block]
<1>1. /\ i \in Nat /\ i + 1 \in Nat /\ Len(block) \in Nat /\ Len(block) + 2 <= MaxCode
      /\ Len(block) <= i /\ MaxCode \in Nat
  BY CobsAssumption DEF Block
<1>2. e.out = out /\ e.block = block
  OBVIOUS
<1>3. <<>> \in Seq(NonZero) /\ Block(msg, i + 1, <<>>)
  BY <1>1, EmptyBlock
<1>4. CASE b = 0
  <2>1. EncodeByte(e, b) = [out |-> out \o Group(block), block |-> <<>>]
    BY <1>2, <1>4 DEF EncodeByte
  <2>2. out \o Group(block) \in Seq(NonZero)
    BY GroupBytes, ConcatProperties
  <2>3. Step(b, out, block, out \o Group(block), <<>>)
    BY <1>4 DEF Step
  <2>4. QED
    BY <1>3, <2>1, <2>2, <2>3
<1>5. CASE b # 0 /\ Len(block) + 2 = MaxCode
  <2>1. EncodeByte(e, b) = [out |-> out \o Group(Append(block, b)), block |-> <<>>]
    BY <1>2, <1>5 DEF EncodeByte
  <2>2. out \o Group(Append(block, b)) \in Seq(NonZero)
    BY <1>5, LongerBlock, GroupBytes, ConcatProperties
  <2>3. Step(b, out, block, out \o Group(Append(block, b)), <<>>)
    BY <1>5, LongerBlock DEF Step
  <2>4. QED
    BY <1>3, <2>1, <2>2, <2>3
<1>6. CASE b # 0 /\ Len(block) + 2 # MaxCode
  <2>1. EncodeByte(e, b) = [out |-> out, block |-> Append(block, b)]
    BY <1>2, <1>6 DEF EncodeByte
  <2>2. /\ b \in NonZero /\ Append(block, b) \in Seq(NonZero)
        /\ Len(Append(block, b)) = Len(block) + 1
        /\ Append(block, b) = SubSeq(msg, i - Len(block) + 1, i + 1)
    BY <1>6, LongerBlock
  <2>3. /\ i + 1 - (Len(block) + 1) + 1 = i - Len(block) + 1
        /\ (Len(block) + 1) + 2 <= MaxCode /\ Len(block) + 1 <= i + 1
    <3>1. \A L \in Nat : L + 2 <= MaxCode /\ L + 2 # MaxCode /\ L <= i
            => /\ i + 1 - (L + 1) + 1 = i - L + 1
               /\ (L + 1) + 2 <= MaxCode /\ L + 1 <= i + 1
      BY <1>1
    <3>2. QED
      BY <1>1, <1>6, <3>1
  <2>4. Block(msg, i + 1, Append(block, b))
    BY <2>2, <2>3 DEF Block
  <2>5. Step(b, out, block, out, Append(block, b))
    BY <2>2 DEF Step
  <2>6. QED
    BY <2>1, <2>2, <2>4, <2>5
<1>7. QED
  BY <1>4, <1>5, <1>6

\* The encoder's state after i bytes.
At(msg, f, i, out, block) ==
  /\ f[i] = [out |-> out, block |-> block]
  /\ out \in Seq(NonZero) /\ block \in Seq(NonZero) /\ Block(msg, i, block)

LEMMA EncoderHolds ==
  ASSUME NEW msg \in Seq(Nat), NEW f, Encoder(msg, f)
  PROVE  \A i \in 0..Len(msg) : \E out, block : At(msg, f, i, out, block)
<1>1. Len(msg) \in Nat
  OBVIOUS
<1> DEFINE T == {i \in 0..Len(msg) : \E out, block : At(msg, f, i, out, block)}
<1>2. 0 \in T
  <2>1. f[0] = [out |-> <<>>, block |-> <<>>]
    BY <1>1 DEF Encoder
  <2>2. At(msg, f, 0, <<>>, <<>>)
    BY <2>1, EmptyBlock DEF At
  <2>3. QED
    BY <1>1, <2>2
<1>3. ASSUME NEW i \in 0..Len(msg), i \in T, i < Len(msg) PROVE i + 1 \in T
  <2>1. i \in 0 .. Len(msg) - 1 /\ i + 1 \in 0..Len(msg) /\ i + 1 # 0 /\ (i + 1) - 1 = i
    BY <1>1, <1>3
  <2>2. f[i + 1] = EncodeByte(f[i], msg[i + 1])
    BY <2>1 DEF Encoder
  <2>3. PICK out, block : At(msg, f, i, out, block)
    BY <1>3
  <2>4. \E out2 \in Seq(NonZero), block2 \in Seq(NonZero) :
           /\ EncodeByte([out |-> out, block |-> block], msg[i + 1])
                = [out |-> out2, block |-> block2]
           /\ Block(msg, i + 1, block2) /\ Step(msg[i + 1], out, block, out2, block2)
    <3>1. out \in Seq(NonZero) /\ block \in Seq(NonZero) /\ Block(msg, i, block)
      BY <2>3 DEF At
    <3>2. QED
      BY <2>1, <3>1, EncodeByteStep
  <2>5. PICK out2 \in Seq(NonZero), block2 \in Seq(NonZero) :
           /\ EncodeByte([out |-> out, block |-> block], msg[i + 1])
                = [out |-> out2, block |-> block2]
           /\ Block(msg, i + 1, block2)
    BY <2>4
  <2>6. At(msg, f, i + 1, out2, block2)
    BY <2>2, <2>3, <2>5 DEF At
  <2>7. QED
    BY <2>1, <2>6
<1> HIDE DEF T
<1>4. 0..Len(msg) \subseteq T
  BY <1>1, <1>2, <1>3, SetInduction
<1>5. QED
  BY <1>4 DEF T

-----------------------------------------------------------------------------
\* What Decode makes of that.

LEMMA SubSeqCounted ==
  ASSUME NEW s, NEW p \in Nat, NEW L \in Nat, \A j \in p + 2 .. p + L + 1 : s[j] \in Nat
  PROVE  /\ SubSeq(s, p + 2, p + L + 1) \in Seq(Nat)
         /\ Len(SubSeq(s, p + 2, p + L + 1)) = L
         /\ \A j \in 1..L : SubSeq(s, p + 2, p + L + 1)[j] = s[p + 1 + j]
<1> DEFINE m == p + 2
           n == p + L + 1
<1>1. /\ m \in Int /\ n \in Int /\ n - m + 1 = L /\ (IF m <= n THEN n - m + 1 ELSE 0) = L
      /\ \A j \in 1..L : m + j - 1 = p + 1 + j
  OBVIOUS
<1>2. \A j \in m..n : s[j] \in Nat
  OBVIOUS
<1> HIDE DEF m, n
<1>3. /\ SubSeq(s, m, n) \in Seq(Nat)
      /\ Len(SubSeq(s, m, n)) = IF m <= n THEN n - m + 1 ELSE 0
      /\ \A i \in 1 .. n - m + 1 : SubSeq(s, m, n)[i] = s[m + i - 1]
  BY <1>1, <1>2, SubSeqProperties
<1>4. /\ SubSeq(s, m, n) \in Seq(Nat) /\ Len(SubSeq(s, m, n)) = L
      /\ \A j \in 1..L : SubSeq(s, m, n)[j] = s[p + 1 + j]
  BY <1>1, <1>3
<1>5. QED
  BY <1>4 DEF m, n

\* The frame goes on with the group of a block; what comes between it and the next.
Carries(frame, out, block) ==
  /\ Len(out) + Len(block) + 1 <= Len(frame)
  /\ \A j \in 1 .. Len(out) + Len(block) + 1 : frame[j] = (out \o Group(block))[j]

Between(frame, out, block) ==
  IF Len(block) + 1 # MaxCode /\ Len(out) + Len(block) + 2 <= Len(frame) THEN <<0>> ELSE <<>>

\* From a place on, a frame is read as what it says.
ReadAs(d, i, m) == d[i] = [ok |-> TRUE, msg |-> m]

\* A frame that goes on with a group is read as the group's bytes and the rest.
LEMMA GroupRead ==
  ASSUME NEW frame \in Seq(Nat), NEW d, Decoder(frame, d),
         NEW out \in Seq(NonZero), NEW block \in Seq(NonZero), Carries(frame, out, block),
         NEW rest, ReadAs(d, Len(out) + Len(block) + 2, rest)
  PROVE  ReadAs(d, Len(out) + 1, block \o Between(frame, out, block) \o rest)
<1> DEFINE p == Len(out)
           L == Len(block)
           F == Len(frame)
<1>1. p \in Nat /\ L \in Nat /\ F \in Nat /\ p + L + 1 <= F
  BY DEF Carries
<1>2. /\ Len(Group(block)) = L + 1 /\ Group(block) \in Seq(NonZero) /\ Group(block)[1] = L + 1
      /\ \A j \in 1..L : Group(block)[j + 1] = block[j]
  BY GroupBytes
<1>3. \A k \in 1 .. L + 1 : frame[p + k] = Group(block)[k]
  <2>1. TAKE k \in 1 .. L + 1
  <2>2. p + k \in 1 .. p + (L + 1) /\ p + k \in 1 .. p + L + 1 /\ ~(p + k <= p) /\ (p + k) - p = k
    <3> HIDE DEF p, L, F
    <3>1. QED
      BY <1>1
  <2>3. (out \o Group(block))[p + k] = IF p + k <= p THEN out[p + k] ELSE Group(block)[(p + k) - p]
    BY <1>2, <2>2, ConcatProperties
  <2>4. QED
    BY <2>2, <2>3 DEF Carries
<1>4. frame[p + 1] = L + 1
  BY <1>1, <1>2, <1>3
<1>5. \A j \in 1..L : frame[p + 1 + j] = block[j]
  <2>1. TAKE j \in 1..L
  <2>2. j + 1 \in 1 .. L + 1 /\ p + (j + 1) = p + 1 + j
    <3> HIDE DEF p, L, F
    <3>1. QED
      BY <1>1
  <2>3. QED
    BY <1>2, <1>3, <2>2
<1>6. SubSeq(frame, p + 2, p + L + 1) = block
  <2>1. \A j \in p + 2 .. p + L + 1 : j \in 1..F
    <3> HIDE DEF p, L, F
    <3>1. QED
      BY <1>1
  <2>2. \A j \in p + 2 .. p + L + 1 : frame[j] \in Nat
    BY <2>1
  <2>3. p + 2 \in Int /\ p + L + 1 \in Int
    <3> HIDE DEF p, L, F
    <3>1. QED
      BY <1>1
  <2>4. /\ SubSeq(frame, p + 2, p + L + 1) \in Seq(Nat)
        /\ Len(SubSeq(frame, p + 2, p + L + 1)) = L
        /\ \A j \in 1..L : SubSeq(frame, p + 2, p + L + 1)[j] = frame[p + 1 + j]
    <3> HIDE DEF p, L, F
    <3>1. QED
      BY <1>1, <2>2, <2>3, SubSeqCounted
  <2>6. \A j \in 1..L : SubSeq(frame, p + 2, p + L + 1)[j] = block[j]
    BY <1>5, <2>4
  <2>7. block \in Seq(Nat)
    BY SeqMonotonic DEF NonZero
  <2>8. QED
    BY <2>4, <2>6, <2>7, SeqEqual
<1>7. p + 1 \in 1 .. F + 1 /\ ~(p + 1 > F) /\ (p + 1) + (L + 1) = p + L + 2
      /\ L + 1 # 0 /\ ~(p + L + 2 > F + 1) /\ (p + L + 2) - 1 = p + L + 1 /\ (p + 1) + 1 = p + 2
  <2> HIDE DEF p, L, F
  <2>1. QED
    BY <1>1
<1>8. d[p + 1] = Reading(frame, d, p + 1)
  BY <1>7 DEF Decoder
<1>9. d[p + L + 2].ok /\ d[p + L + 2].msg = rest
  BY DEF ReadAs
<1>10. Reading(frame, d, p + 1) =
         [ok |-> TRUE,
          msg |-> SubSeq(frame, p + 2, p + L + 1)
                    \o (IF L + 1 # MaxCode /\ p + L + 2 <= F THEN <<0>> ELSE <<>>)
                    \o d[p + L + 2].msg]
  <2> HIDE DEF p, L
  <2>1. QED
    BY <1>4, <1>7, <1>9 DEF Reading
<1>11. QED
  BY <1>6, <1>8, <1>9, <1>10 DEF Between, ReadAs

\* A part of a message, its next byte and the rest are the message from that part on.
LEMMA Joined ==
  ASSUME NEW msg \in Seq(Nat), NEW i \in 1..Len(msg), NEW k \in 1..i
  PROVE  SubSeq(msg, k, i - 1) \o <<msg[i]>> \o SubSeq(msg, i + 1, Len(msg))
           = SubSeq(msg, k, Len(msg))
         /\ SubSeq(msg, k, i) \o SubSeq(msg, i + 1, Len(msg)) = SubSeq(msg, k, Len(msg))
<1>1. Len(msg) \in Nat
  OBVIOUS
<1>2. /\ k \in 1..Len(msg) /\ i \in k..Len(msg) /\ k \in 1 .. Len(msg) + 1
      /\ i \in k - 1 .. Len(msg) /\ Len(msg) \in i..Len(msg)
  BY <1>1
<1>3. SubSeq(msg, k, i) = SubSeq(msg, k, i - 1) \o <<msg[i]>>
  BY <1>2, SubSeqRecursiveSecond
<1>4. SubSeq(msg, k, i) \o SubSeq(msg, i + 1, Len(msg)) = SubSeq(msg, k, Len(msg))
  BY <1>2, ConcatAdjacentSubSeq
<1>5. QED
  BY <1>3, <1>4

Prefix(out, frame) ==
  Len(out) < Len(frame) /\ \A j \in 1..Len(out) : frame[j] = out[j]

\* From the group that is begun after i bytes, the frame says what follows.
Says(msg, f, d, frame, i) ==
  \E out, block :
    /\ At(msg, f, i, out, block) /\ Prefix(out, frame)
    /\ ReadAs(d, Len(out) + 1, SubSeq(msg, i - Len(block) + 1, Len(msg)))

LEMMA SaysLast ==
  ASSUME NEW msg \in Seq(Nat), NEW f, Encoder(msg, f), NEW frame,
         frame = f[Len(msg)].out \o Group(f[Len(msg)].block),
         NEW d, Decoder(frame, d)
  PROVE  frame \in Seq(NonZero) /\ Says(msg, f, d, frame, Len(msg))
<1>1. Len(msg) \in Nat /\ Len(msg) \in 0..Len(msg)
  OBVIOUS
<1>2. PICK out, block : At(msg, f, Len(msg), out, block)
  BY <1>1, EncoderHolds
<1>3. /\ out \in Seq(NonZero) /\ block \in Seq(NonZero) /\ frame = out \o Group(block)
      /\ block = SubSeq(msg, Len(msg) - Len(block) + 1, Len(msg))
  BY <1>2 DEF At, Block
<1>4. Group(block) \in Seq(NonZero) /\ Len(Group(block)) = Len(block) + 1
  BY <1>3, GroupBytes
<1>5. /\ frame \in Seq(NonZero) /\ Len(frame) = Len(out) + (Len(block) + 1)
      /\ \A j \in 1 .. Len(out) + (Len(block) + 1) :
           frame[j] = IF j <= Len(out) THEN out[j] ELSE Group(block)[j - Len(out)]
  <2>1. /\ out \o Group(block) \in Seq(NonZero)
        /\ Len(out \o Group(block)) = Len(out) + Len(Group(block))
        /\ \A j \in 1 .. Len(out) + Len(Group(block)) :
             (out \o Group(block))[j] = IF j <= Len(out) THEN out[j] ELSE Group(block)[j - Len(out)]
    BY <1>3, <1>4, ConcatProperties
  <2>2. QED
    BY <1>3, <1>4, <2>1
<1>6. Len(out) \in Nat /\ Len(block) \in Nat /\ frame \in Seq(Nat)
  BY <1>3, <1>5, SeqMonotonic DEF NonZero
<1>7. Prefix(out, frame)
  <2>1. Len(out) < Len(frame) /\ \A j \in 1..Len(out) : j \in 1 .. Len(out) + (Len(block) + 1)
    BY <1>5, <1>6
  <2>2. \A j \in 1..Len(out) : j <= Len(out)
    BY <1>6
  <2>3. QED
    BY <1>5, <2>1, <2>2 DEF Prefix
<1>8. ReadAs(d, Len(frame) + 1, <<>>)
  <2>1. Len(frame) + 1 \in 1 .. Len(frame) + 1 /\ Len(frame) + 1 > Len(frame)
    BY <1>5, <1>6
  <2>2. QED
    BY <2>1 DEF Decoder, Reading, ReadAs
<1>9. /\ Len(out) + Len(block) + 2 = Len(frame) + 1 /\ Len(out) + Len(block) + 1 = Len(frame)
      /\ ~(Len(out) + Len(block) + 2 <= Len(frame)) /\ Len(frame) <= Len(frame)
  BY <1>5, <1>6
<1>10. ReadAs(d, Len(out) + 1, block \o <<>> \o <<>>)
  <2>1. Carries(frame, out, block)
    BY <1>3, <1>9 DEF Carries
  <2>2. ReadAs(d, Len(out) + Len(block) + 2, <<>>)
    BY <1>8, <1>9
  <2>3. Between(frame, out, block) = <<>>
    BY <1>9 DEF Between
  <2>4. \A rest : ReadAs(d, Len(out) + Len(block) + 2, rest)
                    => ReadAs(d, Len(out) + 1, block \o Between(frame, out, block) \o rest)
    BY <1>3, <1>6, <2>1, GroupRead
  <2>5. QED
    BY <2>2, <2>3, <2>4
<1>11. block \o <<>> \o <<>> = block
  BY <1>3, ConcatEmptySeq
<1>12. Says(msg, f, d, frame, Len(msg))
  BY <1>2, <1>3, <1>7, <1>10, <1>11 DEF Says
<1>13. QED
  BY <1>5, <1>12

\* A group that has just been closed is carried by a frame that has it before the next.
LEMMA PrefixCarries ==
  ASSUME NEW frame \in Seq(Nat), NEW out \in Seq(NonZero), NEW block \in Seq(NonZero),
         Prefix(out \o Group(block), frame)
  PROVE  /\ Carries(frame, out, block) /\ Prefix(out, frame)
         /\ Len(out \o Group(block)) + 1 = Len(out) + Len(block) + 2
         /\ Between(frame, out, block) = IF Len(block) + 1 # MaxCode THEN <<0>> ELSE <<>>
<1>1. Group(block) \in Seq(NonZero) /\ Len(Group(block)) = Len(block) + 1
  BY GroupBytes
<1>2. /\ Len(out \o Group(block)) = Len(out) + Len(Group(block))
      /\ \A j \in 1 .. Len(out) + Len(Group(block)) :
           (out \o Group(block))[j] = IF j <= Len(out) THEN out[j] ELSE Group(block)[j - Len(out)]
  BY <1>1, ConcatProperties
<1>3. Len(out) \in Nat /\ Len(block) \in Nat
  OBVIOUS
<1>4. /\ Len(out) + (Len(block) + 1) < Len(frame)
      /\ \A j \in 1 .. Len(out) + (Len(block) + 1) : frame[j] = (out \o Group(block))[j]
  BY <1>1, <1>2 DEF Prefix
<1>5. /\ Len(out) + (Len(block) + 1) = Len(out) + Len(block) + 1
      /\ Len(out) + Len(block) + 1 <= Len(frame) /\ Len(out) + Len(block) + 2 <= Len(frame)
      /\ Len(out) < Len(frame)
      /\ Len(out) + (Len(block) + 1) + 1 = Len(out) + Len(block) + 2
      /\ \A j \in 1..Len(out) : j <= Len(out) /\ j \in 1 .. Len(out) + (Len(block) + 1)
  <2>1. Len(frame) \in Nat
    OBVIOUS
  <2>2. QED
    BY <1>3, <1>4, <2>1
<1>6. Carries(frame, out, block)
  BY <1>4, <1>5 DEF Carries
<1>7. Prefix(out, frame)
  BY <1>1, <1>2, <1>4, <1>5 DEF Prefix
<1>8. QED
  BY <1>1, <1>2, <1>5, <1>6, <1>7 DEF Between

LEMMA SaysBefore ==
  ASSUME NEW msg \in Seq(Nat), NEW f, Encoder(msg, f), NEW frame \in Seq(Nat),
         NEW d, Decoder(frame, d), NEW i \in 1..Len(msg), Says(msg, f, d, frame, i)
  PROVE  Says(msg, f, d, frame, i - 1)
<1> DEFINE b == msg[i]
           N == Len(msg)
<1>1. /\ N \in Nat /\ i \in Nat /\ i - 1 \in 0 .. N - 1 /\ i - 1 \in 0..N /\ i \in 0..N
      /\ (i - 1) + 1 = i /\ i # 0
  OBVIOUS
<1>2. PICK out2, block2 :
        /\ At(msg, f, i, out2, block2) /\ Prefix(out2, frame)
        /\ ReadAs(d, Len(out2) + 1, SubSeq(msg, i - Len(block2) + 1, N))
  BY DEF Says
<1>3. PICK out, block : At(msg, f, i - 1, out, block)
  BY <1>1, EncoderHolds
<1>4. /\ f[i - 1] = [out |-> out, block |-> block]
      /\ out \in Seq(NonZero) /\ block \in Seq(NonZero) /\ Block(msg, i - 1, block)
  BY <1>3 DEF At
<1>5. Step(b, out, block, out2, block2)
  <2>1. PICK out3 \in Seq(NonZero), block3 \in Seq(NonZero) :
          /\ EncodeByte([out |-> out, block |-> block], msg[(i - 1) + 1])
               = [out |-> out3, block |-> block3]
          /\ Block(msg, (i - 1) + 1, block3)
          /\ Step(msg[(i - 1) + 1], out, block, out3, block3)
    <3> DEFINE k == i - 1
    <3>1. k \in 0 .. Len(msg) - 1 /\ Block(msg, k, block)
      BY <1>1, <1>4
    <3> HIDE DEF k
    <3>2. \E out3 \in Seq(NonZero), block3 \in Seq(NonZero) :
            /\ EncodeByte([out |-> out, block |-> block], msg[k + 1])
                 = [out |-> out3, block |-> block3]
            /\ Block(msg, k + 1, block3)
            /\ Step(msg[k + 1], out, block, out3, block3)
      BY <1>4, <3>1, EncodeByteStep
    <3>3. QED
      BY <3>2 DEF k
  <2>2. f[i] = EncodeByte(f[i - 1], msg[i])
    BY <1>1 DEF Encoder
  <2>3. f[i] = [out |-> out3, block |-> block3]
    BY <1>1, <1>4, <2>1, <2>2
  <2>4. out3 = out2 /\ block3 = block2
    BY <1>2, <2>3 DEF At
  <2>5. QED
    BY <1>1, <2>1, <2>4
<1>6. /\ Len(block) \in Nat /\ Len(block) + 2 <= MaxCode /\ Len(block) <= i - 1
      /\ block = SubSeq(msg, (i - 1) - Len(block) + 1, i - 1) /\ MaxCode \in Nat
  <2>1. /\ Len(block) + 2 <= MaxCode /\ Len(block) <= i - 1
        /\ block = SubSeq(msg, (i - 1) - Len(block) + 1, i - 1)
    BY <1>4, Zenon DEF Block
  <2>2. Len(block) \in Nat /\ MaxCode \in Nat
    BY <1>4, CobsAssumption
  <2>3. QED
    BY <2>1, <2>2
<1> DEFINE k == (i - 1) - Len(block) + 1
<1>7. /\ k \in 1..i /\ Len(block) + 1 # MaxCode
      /\ i - (Len(block) + 1) + 1 = k /\ i - 0 + 1 = i + 1
  <2>1. \A L \in Nat : L <= i - 1 /\ L + 2 <= MaxCode
          => /\ (i - 1) - L + 1 \in 1..i /\ L + 1 # MaxCode
             /\ i - (L + 1) + 1 = (i - 1) - L + 1 /\ i - 0 + 1 = i + 1
    BY <1>1, <1>6
  <2>2. QED
    BY <1>6, <2>1
<1>8. ASSUME block2 = <<>>
      PROVE  ReadAs(d, Len(out2) + 1, SubSeq(msg, i + 1, N))
  <2>1. Len(block2) = 0
    BY <1>8
  <2>2. QED
    BY <1>2, <1>7, <2>1
<1> DEFINE rest == SubSeq(msg, i + 1, N)
<1>9. /\ block \o <<b>> \o rest = SubSeq(msg, k, N)
      /\ SubSeq(msg, k, i) \o rest = SubSeq(msg, k, N)
  BY <1>6, <1>7, Joined
<1>10. CASE b = 0 /\ out2 = out \o Group(block) /\ block2 = <<>>
  <2>1. /\ Carries(frame, out, block) /\ Prefix(out, frame)
        /\ Len(out2) + 1 = Len(out) + Len(block) + 2 /\ Between(frame, out, block) = <<0>>
    BY <1>2, <1>4, <1>7, <1>10, PrefixCarries
  <2>2. ReadAs(d, Len(out) + Len(block) + 2, rest)
    BY <1>8, <1>10, <2>1
  <2>3. ReadAs(d, Len(out) + 1, block \o Between(frame, out, block) \o rest)
    BY <1>4, <2>1, <2>2, GroupRead
  <2>4. ReadAs(d, Len(out) + 1, SubSeq(msg, k, N))
    BY <1>9, <1>10, <2>1, <2>3
  <2>5. QED
    BY <1>3, <2>1, <2>4 DEF Says
<1>11. ASSUME b \in NonZero
       PROVE  /\ Append(block, b) \in Seq(NonZero)
              /\ Len(Append(block, b)) = Len(block) + 1
              /\ Append(block, b) = SubSeq(msg, k, i)
  <2> DEFINE h == i - 1
  <2>1. h \in 0 .. Len(msg) - 1 /\ Block(msg, h, block) /\ msg[h + 1] # 0 /\ h + 1 = i
    BY <1>1, <1>4, <1>11 DEF NonZero
  <2> HIDE DEF h
  <2>2. /\ Append(block, msg[h + 1]) \in Seq(NonZero)
        /\ Len(Append(block, msg[h + 1])) = Len(block) + 1
        /\ Append(block, msg[h + 1]) = SubSeq(msg, h - Len(block) + 1, h + 1)
    BY <1>4, <2>1, LongerBlock
  <2>3. QED
    BY <2>1, <2>2 DEF h
<1>12. CASE /\ b \in NonZero /\ Len(block) + 2 = MaxCode
            /\ out2 = out \o Group(Append(block, b)) /\ block2 = <<>>
  <2> DEFINE full == Append(block, b)
  <2>1. full \in Seq(NonZero) /\ Len(full) + 1 = MaxCode /\ full = SubSeq(msg, k, i)
    <3>1. full \in Seq(NonZero) /\ Len(full) = Len(block) + 1 /\ full = SubSeq(msg, k, i)
      BY <1>11, <1>12
    <3>2. \A L \in Nat : L + 2 = MaxCode => (L + 1) + 1 = MaxCode
      BY <1>6
    <3>3. QED
      BY <1>6, <1>12, <3>1, <3>2
  <2> HIDE DEF full
  <2>2. out2 = out \o Group(full)
    BY <1>12 DEF full
  <2>3. /\ Carries(frame, out, full) /\ Prefix(out, frame)
        /\ Len(out2) + 1 = Len(out) + Len(full) + 2 /\ Between(frame, out, full) = <<>>
    BY <1>2, <1>4, <2>1, <2>2, PrefixCarries
  <2>4. ReadAs(d, Len(out) + Len(full) + 2, rest)
    BY <1>8, <1>12, <2>3
  <2>5. ReadAs(d, Len(out) + 1, full \o Between(frame, out, full) \o rest)
    BY <1>4, <2>1, <2>3, <2>4, GroupRead
  <2>6. full \o <<>> = full
    BY <2>1, ConcatEmptySeq
  <2>7. ReadAs(d, Len(out) + 1, SubSeq(msg, k, N))
    BY <1>9, <2>1, <2>3, <2>5, <2>6
  <2>8. QED
    BY <1>3, <2>3, <2>7 DEF Says
<1>13. CASE b \in NonZero /\ out2 = out /\ block2 = Append(block, b)
  <2>1. Len(block2) = Len(block) + 1
    BY <1>11, <1>13
  <2>2. ReadAs(d, Len(out) + 1, SubSeq(msg, k, N))
    BY <1>2, <1>7, <1>13, <2>1
  <2>3. QED
    BY <1>2, <1>3, <1>13, <2>2 DEF Says
<1>14. QED
  BY <1>5, <1>10, <1>12, <1>13 DEF Step

\* Decoding undoes encoding, and no encoding has a 0 in it.
LEMMA DecodeEncode ==
  ASSUME NEW msg \in Seq(Nat)
  PROVE  /\ Encode(msg) \in Seq(NonZero) /\ Encode(msg) # <<>>
         /\ Decode(Encode(msg)) = [ok |-> TRUE, msg |-> msg]
<1> DEFINE frame == Encode(msg)
           N == Len(msg)
<1>1. N \in Nat
  OBVIOUS
<1>2. PICK f : Encoder(msg, f) /\ frame = f[N].out \o Group(f[N].block)
  BY <1>1, EncodeUnfolds
<1> HIDE DEF frame
<1>3. \A d : Decoder(frame, d) => frame \in Seq(NonZero) /\ Says(msg, f, d, frame, N)
  BY <1>2, SaysLast
<1>4. frame \in Seq(NonZero)
  <2>1. PICK out, block : At(msg, f, N, out, block)
    BY <1>1, <1>2, EncoderHolds
  <2>2. /\ out \in Seq(NonZero) /\ block \in Seq(NonZero) /\ frame = out \o Group(block)
    BY <1>2, <2>1 DEF At
  <2>3. Group(block) \in Seq(NonZero)
    BY <2>2, GroupBytes
  <2>4. QED
    BY <2>2, <2>3, ConcatProperties
<1>5. frame \in Seq(Nat)
  BY <1>4, SeqMonotonic DEF NonZero
<1>6. PICK d : Decoder(frame, d) /\ Decode(frame) = d[1]
  BY <1>5, DecodeUnfolds
<1> DEFINE T == {i \in 0..N : Says(msg, f, d, frame, i)}
<1>7. N \in T
  BY <1>1, <1>3, <1>6
<1>8. ASSUME NEW i \in 0..N, i \in T, i > 0 PROVE i - 1 \in T
  <2>1. i \in 1..Len(msg) /\ i - 1 \in 0..N
    BY <1>1, <1>8
  <2>2. Says(msg, f, d, frame, i - 1)
    BY <1>2, <1>5, <1>6, <1>8, <2>1, SaysBefore
  <2>3. QED
    BY <2>1, <2>2
<1>9. 0 \in T
  <2> HIDE DEF T, N
  <2>1. 0..N \subseteq T
    BY <1>1, <1>7, <1>8, SetInductionDown
  <2>2. QED
    BY <1>1, <2>1
<1>10. PICK out, block :
         /\ At(msg, f, 0, out, block) /\ Prefix(out, frame)
         /\ ReadAs(d, Len(out) + 1, SubSeq(msg, 0 - Len(block) + 1, Len(msg)))
  BY <1>9 DEF Says
<1>11. out = <<>> /\ block = <<>>
  <2>1. f[0] = [out |-> <<>>, block |-> <<>>]
    BY <1>1, <1>2 DEF Encoder
  <2>2. QED
    BY <1>10, <2>1 DEF At
<1>12. Len(out) + 1 = 1 /\ 0 - Len(block) + 1 = 1
  BY <1>11
<1>13. SubSeq(msg, 1, Len(msg)) = msg
  BY SubSeqFull
<1>14. Decode(frame) = [ok |-> TRUE, msg |-> msg]
  BY <1>6, <1>10, <1>12, <1>13 DEF ReadAs
<1>15. frame # <<>>
  BY <1>5, <1>10, <1>11 DEF Prefix
<1>16. QED
  BY <1>4, <1>14, <1>15 DEF frame

-----------------------------------------------------------------------------
\* The reader of the line.

LEMMA FramedBytes ==
  ASSUME NEW m \in Seq(Nat)
  PROVE  /\ Framed(m) \in Seq(Nat) /\ Len(Framed(m)) = Len(Encode(m)) + 1
         /\ Len(Encode(m)) \in Nat /\ Len(Encode(m)) > 0
         /\ \A j \in 1..Len(Encode(m)) : Framed(m)[j] # 0
         /\ Framed(m)[Len(Framed(m))] = 0
         /\ SubSeq(Framed(m), 1, Len(Encode(m))) = Encode(m)
<1> DEFINE e == Encode(m)
<1>1. e \in Seq(NonZero) /\ e # <<>>
  BY DecodeEncode
<1> HIDE DEF e
<1>2. e \in Seq(Nat) /\ <<0>> \in Seq(Nat) /\ Len(<<0>>) = 1 /\ <<0>>[1] = 0
  BY <1>1, SeqMonotonic DEF NonZero
<1>3. Len(e) \in Nat /\ Len(e) > 0 /\ \A j \in 1..Len(e) : e[j] # 0
  BY <1>1, EmptySeq, ElementOfSeq DEF NonZero
<1>4. /\ e \o <<0>> \in Seq(Nat) /\ Len(e \o <<0>>) = Len(e) + 1
      /\ \A j \in 1 .. Len(e) + 1 : (e \o <<0>>)[j] = IF j <= Len(e) THEN e[j] ELSE <<0>>[j - Len(e)]
  BY <1>2, ConcatProperties
<1>5. /\ \A j \in 1..Len(e) : j \in 1 .. Len(e) + 1 /\ j <= Len(e)
      /\ Len(e) + 1 \in 1 .. Len(e) + 1 /\ ~(Len(e) + 1 <= Len(e)) /\ (Len(e) + 1) - Len(e) = 1
  BY <1>3
<1>6. SubSeq(e \o <<0>>, 1, Len(e)) = e
  <2>1. 1 \in 1..Len(e) /\ Len(e) \in 1..Len(e)
    BY <1>3
  <2>2. SubSeq(e \o <<0>>, 1, Len(e)) = SubSeq(e, 1, Len(e))
    BY <1>2, <2>1, SubSeqOfConcat1
  <2>3. QED
    BY <1>2, <2>2, SubSeqFull
<1>7. Framed(m) = e \o <<0>>
  BY DEF Framed, e
<1>8. QED
  BY <1>2, <1>3, <1>4, <1>5, <1>6, <1>7 DEF e

LEMMA MessageBytes == \A m \in Messages : m \in Seq(Nat)
<1>1. TAKE m \in Messages
<1>2. PICK n \in 0..MaxMsg : m \in [1..n -> Bytes]
  BY DEF Messages, BoundedSeq, SeqOf
<1>3. n \in Nat
  BY <1>2, CobsAssumption
<1>4. m \in [1..n -> Nat]
  BY <1>2, CobsAssumption
<1>5. QED
  BY <1>3, <1>4

\* The first k bytes of the frame are gone.  When nothing has disturbed them they are in
\* the buffer, as long as they fit; after the last of them it is empty.
Gone(k) ==
  /\ sent \in Seq(Nat) /\ k \in 0..Len(Framed(sent))
  /\ line = SubSeq(Framed(sent), k + 1, Len(Framed(sent)))
  /\ clean /\ k < Len(Framed(sent)) /\ k <= FrameCap
       => buf = SubSeq(Framed(sent), 1, k) /\ truncated = FALSE
  /\ clean /\ k = Len(Framed(sent)) => buf = <<>> /\ truncated = FALSE

LineInv == \E k : Gone(k)

LEMMA LineLeft ==
  ASSUME NEW k, Gone(k)
  PROVE  /\ k \in Nat /\ Len(Framed(sent)) \in Nat
         /\ line = <<>> <=> k = Len(Framed(sent))
         /\ k < Len(Framed(sent))
              => /\ k + 1 \in 0..Len(Framed(sent)) /\ Head(line) = Framed(sent)[k + 1]
                 /\ Tail(line) = SubSeq(Framed(sent), (k + 1) + 1, Len(Framed(sent)))
                 /\ line = <<0>> => k = Len(Encode(sent))
                 /\ Framed(sent)[k + 1] = 0 <=> k + 1 = Len(Framed(sent))
<1> DEFINE F == Framed(sent)
           L == Len(F)
<1>1. /\ F \in Seq(Nat) /\ L = Len(Encode(sent)) + 1 /\ Len(Encode(sent)) \in Nat
      /\ (\A j \in 1..Len(Encode(sent)) : F[j] # 0) /\ F[L] = 0
  BY FramedBytes DEF Gone
<1>2. k \in 0..L /\ line = SubSeq(F, k + 1, L)
  BY DEF Gone
<1> HIDE DEF F
<1>3. L \in Nat /\ k \in Nat /\ k <= L
  BY <1>1, <1>2
<1>4. CASE k = L
  <2>1. k + 1 \in Int /\ L \in Int /\ L < k + 1
    BY <1>3, <1>4
  <2>2. SubSeq(F, k + 1, L) = <<>>
    BY <2>1, SubSeqEmpty
  <2>3. QED
    BY <1>2, <1>3, <1>4, <2>2 DEF F
<1>5. CASE k < L
  <2>1. k + 1 \in 1..L /\ L \in k + 1 .. L /\ k + 1 \in 0..L
    BY <1>3, <1>5
  <2>2. Head(line) = F[k + 1] /\ Tail(line) = SubSeq(F, (k + 1) + 1, L)
    <3>1. /\ Head(SubSeq(F, k + 1, L)) = F[k + 1]
          /\ Tail(SubSeq(F, k + 1, L)) = SubSeq(F, (k + 1) + 1, L)
      <4> DEFINE h == k + 1
                 l == Len(F)
      <4>1. h \in 1..Len(F) /\ l \in h..Len(F)
        BY <2>1
      <4> HIDE DEF h, l
      <4>2. Head(SubSeq(F, h, l)) = F[h] /\ Tail(SubSeq(F, h, l)) = SubSeq(F, h + 1, l)
        BY <1>1, <4>1, HeadTailOfSubSeq
      <4>3. QED
        BY <4>2 DEF h, l
    <3>2. QED
      BY <1>2, <3>1
  <2>3. Len(line) = L - k
    <3> DEFINE h == k + 1
               l == Len(F)
    <3>1. /\ h \in Int /\ l \in Int /\ (\A j \in h..l : j \in 1..Len(F)) /\ l - h + 1 = L - k
          /\ h <= l
      BY <1>3, <2>1
    <3>2. \A j \in h..l : F[j] \in Nat
      BY <1>1, <3>1, ElementOfSeq
    <3> HIDE DEF h, l
    <3>3. Len(SubSeq(F, h, l)) = l - h + 1
      BY <3>1, <3>2, SubSeqProperties
    <3>4. QED
      BY <1>2, <3>1, <3>3 DEF h, l
  <2>4. line # <<>> /\ (line = <<0>> => L - k = 1)
    <3>1. Len(<<>>) = 0 /\ Len(<<0>>) = 1 /\ L - k > 0
      BY <1>3, <1>5
    <3>2. QED
      BY <2>3, <3>1
  <2>5. L - k = 1 => k = Len(Encode(sent))
    BY <1>1, <1>3
  <2>6. F[k + 1] = 0 <=> k + 1 = L
    <3>1. k + 1 # L => k + 1 \in 1..Len(Encode(sent))
      BY <1>1, <1>3, <1>5
    <3>2. QED
      BY <1>1, <3>1
  <2>7. QED
    BY <1>2, <1>3, <1>5, <2>1, <2>2, <2>4, <2>5, <2>6 DEF F
<1>6. QED
  BY <1>3, <1>4, <1>5

LEMMA LineBegins == LineInit => LineInv
<1> SUFFICES ASSUME LineInit PROVE Gone(Len(Framed(sent)))
  BY DEF LineInv
<1>1. sent = <<>> /\ line = <<>> /\ buf = <<>> /\ truncated = FALSE
  BY DEF LineInit
<1>2. sent \in Seq(Nat)
  BY <1>1
<1> DEFINE L == Len(Framed(sent))
<1>3. L \in Nat /\ L + 1 \in Int /\ L \in Int /\ L < L + 1 /\ L \in 0..L /\ ~(L < L)
  BY <1>2, FramedBytes
<1> HIDE DEF L
<1>4. SubSeq(Framed(sent), L + 1, L) = <<>>
  BY <1>3, SubSeqEmpty
<1>5. QED
  BY <1>1, <1>2, <1>3, <1>4 DEF Gone, L

LEMMA SendKeeps ==
  ASSUME LineInv, NEW m \in Messages, Send(m)
  PROVE  LineInv'
<1>1. PICK k : Gone(k)
  BY DEF LineInv
<1>2. k = Len(Framed(sent))
  BY <1>1, LineLeft DEF Send
<1>3. clean => buf = <<>> /\ truncated = FALSE
  BY <1>1, <1>2 DEF Gone
<1>4. /\ sent' = m /\ line' = Framed(m) /\ buf' = buf /\ truncated' = truncated /\ clean' = clean
  BY DEF Send
<1>5. m \in Seq(Nat)
  BY MessageBytes
<1> DEFINE F == Framed(m)
           L == Len(F)
<1>6. F \in Seq(Nat) /\ L \in Nat /\ L > 0 /\ 0 \in 0..L
  BY <1>5, FramedBytes
<1> HIDE DEF F
<1>7. SubSeq(F, 1, 0) = <<>> /\ SubSeq(F, 0 + 1, L) = F
  <2>1. SubSeq(F, 1, 0) = <<>>
    BY SubSeqEmpty
  <2>2. QED
    BY <1>6, <2>1, SubSeqFull
<1>8. Gone(0)'
  BY <1>3, <1>4, <1>5, <1>6, <1>7 DEF Gone, F
<1>9. QED
  BY <1>8 DEF LineInv

\* A byte of the frame that is lost.
LEMMA LoseKeeps ==
  ASSUME LineInv, Lose
  PROVE  LineInv'
<1>1. PICK k : Gone(k)
  BY DEF LineInv
<1>2. /\ line # <<>> /\ line' = Tail(line) /\ clean' = FALSE /\ sent' = sent
  BY DEF Lose
<1>3. /\ sent \in Seq(Nat) /\ k + 1 \in 0..Len(Framed(sent))
      /\ Tail(line) = SubSeq(Framed(sent), (k + 1) + 1, Len(Framed(sent)))
  <2>1. k < Len(Framed(sent))
    BY <1>1, <1>2, LineLeft DEF Gone
  <2>2. QED
    BY <1>1, <2>1, LineLeft DEF Gone
<1>4. Gone(k + 1)'
  BY <1>2, <1>3 DEF Gone
<1>5. QED
  BY <1>4 DEF LineInv

LEMMA NoiseKeeps ==
  ASSUME LineInv, NEW b \in Bytes, Noise(b)
  PROVE  LineInv'
<1>1. PICK k : Gone(k)
  BY DEF LineInv
<1>2. sent' = sent /\ line' = line /\ clean' = (b = 0 /\ line = <<>>) /\ Receive(b)
  BY DEF Noise
<1>3. clean' => buf' = <<>> /\ truncated' = FALSE /\ k = Len(Framed(sent))
  BY <1>1, <1>2, LineLeft DEF Receive
<1>4. k = Len(Framed(sent)) => ~(k < Len(Framed(sent)))
  BY <1>1, LineLeft
<1>5. /\ sent \in Seq(Nat) /\ k \in 0..Len(Framed(sent))
      /\ line = SubSeq(Framed(sent), k + 1, Len(Framed(sent)))
  BY <1>1 DEF Gone
<1>6. Gone(k)'
  BY <1>2, <1>3, <1>4, <1>5 DEF Gone
<1>7. QED
  BY <1>6 DEF LineInv

LEMMA ArriveKeeps ==
  ASSUME LineInv, Arrive
  PROVE  LineInv'
<1>1. PICK k : Gone(k)
  BY DEF LineInv
<1> DEFINE F == Framed(sent)
           L == Len(F)
<1>2. /\ line # <<>> /\ line' = Tail(line) /\ sent' = sent /\ clean' = (clean \/ line = <<0>>)
      /\ Receive(Head(line))
  BY DEF Arrive
<1>3. /\ k \in Nat /\ L \in Nat /\ k < L /\ k + 1 \in 0..L /\ Head(line) = F[k + 1]
      /\ Tail(line) = SubSeq(F, (k + 1) + 1, L)
      /\ F[k + 1] = 0 <=> k + 1 = L
  <2>1. k \in 0..L
    BY <1>1 DEF Gone
  <2>2. k < L
    BY <1>1, <1>2, <2>1, LineLeft
  <2>3. QED
    BY <1>1, <2>2, LineLeft
<1>4. /\ sent \in Seq(Nat) /\ F \in Seq(Nat) /\ Len(Encode(sent)) + 1 = L
      /\ Len(Encode(sent)) \in Nat
  BY <1>1, FramedBytes DEF Gone
<1>5. clean /\ k <= FrameCap => buf = SubSeq(F, 1, k) /\ truncated = FALSE
  BY <1>1, <1>3 DEF Gone
<1> HIDE DEF F
<1>6. CASE k + 1 = L
  <2>1. buf' = <<>> /\ truncated' = FALSE
    BY <1>2, <1>3, <1>6 DEF Receive
  <2>2. ~(k + 1 < L)
    BY <1>3, <1>6
  <2>3. Gone(k + 1)'
    BY <1>2, <1>3, <1>4, <1>6, <2>1, <2>2 DEF Gone, F
  <2>4. QED
    BY <2>3 DEF LineInv
<1>7. CASE k + 1 # L
  <2>1. line # <<0>>
    <3>1. line = <<0>> => k = Len(Encode(sent))
      BY <1>1, <1>3, LineLeft DEF F
    <3>2. QED
      BY <1>3, <1>4, <1>7, <3>1
  <2>2. F[k + 1] # 0 /\ Store(F[k + 1])
    BY <1>2, <1>3, <1>7 DEF Receive
  <2>3. ASSUME clean, k + 1 <= FrameCap
        PROVE  buf' = SubSeq(F, 1, k + 1) /\ truncated' = FALSE
    <3>1. FrameCap \in Nat
      BY CobsAssumption
    <3>2. k <= FrameCap /\ k < FrameCap /\ k + 1 \in 1..L
      BY <1>3, <2>3, <3>1
    <3>3. buf = SubSeq(F, 1, k) /\ truncated = FALSE
      BY <1>5, <2>3, <3>2
    <3>4. SubSeq(F, 1, k) \in Seq(Nat) /\ Len(SubSeq(F, 1, k)) = k
      <4>1. /\ 1 \in Int /\ k \in Int /\ (\A j \in 1..k : j \in 1..Len(F))
            /\ (IF 1 <= k THEN k - 1 + 1 ELSE 0) = k
        BY <1>3
      <4>2. \A j \in 1..k : F[j] \in Nat
        BY <1>4, <4>1, ElementOfSeq
      <4>3. QED
        BY <4>1, <4>2, SubSeqProperties
    <3>5. buf' = Append(buf, F[k + 1]) /\ truncated' = truncated
      BY <2>2, <3>2, <3>3, <3>4 DEF Store
    <3>6. SubSeq(F, 1, k + 1) = SubSeq(F, 1, k) \o <<F[k + 1]>>
      <4> DEFINE h == k + 1
      <4>1. 1 \in 1..Len(F) /\ h \in 1..Len(F) /\ h - 1 = k
        BY <1>3, <3>2
      <4> HIDE DEF h
      <4>2. SubSeq(F, 1, h) = SubSeq(F, 1, h - 1) \o <<F[h]>>
        BY <1>4, <4>1, SubSeqRecursiveSecond
      <4>3. QED
        BY <4>1, <4>2 DEF h
    <3>7. F[k + 1] \in Nat
      BY <1>4, <3>2, ElementOfSeq
    <3>8. Append(SubSeq(F, 1, k), F[k + 1]) = SubSeq(F, 1, k) \o <<F[k + 1]>>
      BY <3>4, <3>7, AppendIsConcat
    <3>9. QED
      BY <3>3, <3>5, <3>6, <3>8
  <2>4. clean' => clean
    BY <1>2, <2>1
  <2>5. /\ sent' = sent /\ k + 1 \in 0..L /\ line' = SubSeq(F, (k + 1) + 1, L)
        /\ clean' /\ k + 1 < L /\ k + 1 <= FrameCap
             => buf' = SubSeq(F, 1, k + 1) /\ truncated' = FALSE
        /\ ~(clean' /\ k + 1 = L)
    BY <1>2, <1>3, <1>7, <2>3, <2>4
  <2>6. Gone(k + 1)'
    BY <1>4, <1>7, <2>5 DEF Gone, F
  <2>7. QED
    BY <2>6 DEF LineInv
<1>8. QED
  BY <1>6, <1>7

LEMMA LineStep ==
  ASSUME LineInv, [LineNext]_lineVars
  PROVE  LineInv'
<1>1. CASE UNCHANGED lineVars
  <2>1. PICK k : Gone(k)
    BY DEF LineInv
  <2>2. Gone(k)'
    BY <1>1, <2>1 DEF Gone, lineVars
  <2>3. QED
    BY <2>2 DEF LineInv
<1>2. CASE \E m \in Messages : Send(m)
  BY <1>2, SendKeeps
<1>3. CASE Arrive
  BY <1>3, ArriveKeeps
<1>4. CASE Lose
  BY <1>4, LoseKeeps
<1>5. CASE \E b \in Bytes : Noise(b)
  BY <1>5, NoiseKeeps
<1>6. QED
  BY <1>1, <1>2, <1>3, <1>4, <1>5 DEF LineNext

\* A frame that has arrived whole is in the buffer and decodes to what was sent.
LEMMA WholeInBuffer ==
  ASSUME LineInv, Whole
  PROVE  /\ sent \in Seq(Nat) /\ buf = Encode(sent) /\ buf # <<>> /\ truncated = FALSE
         /\ Decode(buf) = [ok |-> TRUE, msg |-> sent]
<1>1. PICK k : Gone(k)
  BY DEF LineInv
<1>2. sent \in Seq(Nat)
  BY <1>1 DEF Gone
<1>3. /\ Len(Framed(sent)) = Len(Encode(sent)) + 1 /\ Len(Encode(sent)) \in Nat
      /\ SubSeq(Framed(sent), 1, Len(Encode(sent))) = Encode(sent)
  BY <1>2, FramedBytes
<1>4. k = Len(Encode(sent)) /\ k < Len(Framed(sent))
  <2>1. line # <<>>
    BY DEF Whole
  <2>2. k \in 0..Len(Framed(sent)) /\ k # Len(Framed(sent))
    BY <1>1, <2>1, LineLeft DEF Gone
  <2>3. k < Len(Framed(sent))
    BY <1>3, <2>2
  <2>4. QED
    BY <1>1, <2>3, LineLeft DEF Whole
<1>5. buf = Encode(sent) /\ truncated = FALSE
  BY <1>1, <1>3, <1>4 DEF Gone, Whole
<1>6. QED
  BY <1>2, <1>5, DecodeEncode

-----------------------------------------------------------------------------
\* COBS_Decode undoes COBS_Encode and process_uart1_input keeps what belongs together:
\* an undisturbed frame that fits the buffer is there, and decodes to the message, when
\* its delimiter is due, whatever came before the last delimiter.
THEOREM FramesDecoded == LineSpec => []RoundTrip
<1>1. LineInit => LineInv
  BY LineBegins
<1>2. LineInv /\ [LineNext]_lineVars => LineInv'
  BY LineStep
<1>3. LineInv => RoundTrip
  BY WholeInBuffer DEF RoundTrip
<1>4. QED
  BY <1>1, <1>2, <1>3, PTL DEF LineSpec

\* With its delimiter process_uart1_input takes such a frame, and nothing else, as it
\* was sent.
THEOREM FramesTaken == LineSpec => Resynchronises
<1>1. LineInit => LineInv
  BY LineBegins
<1>2. LineInv /\ [LineNext]_lineVars => LineInv'
  BY LineStep
<1>3. LineInv /\ [LineNext]_lineVars
        => [Whole /\ line' = <<>> /\ clean' => taken' = <<sent>>]_lineVars
  <2> SUFFICES ASSUME LineInv, LineNext, Whole, line' = <<>>, clean'
               PROVE  taken' = <<sent>>
    OBVIOUS
  <2>1. line = <<0>> /\ line # <<>>
    BY DEF Whole
  <2>2. CASE \E m \in Messages : Send(m)
    BY <2>1, <2>2 DEF Send
  <2>3. CASE Lose
    BY <2>3 DEF Lose
  <2>4. CASE \E b \in Bytes : Noise(b)
    BY <2>1, <2>4 DEF Noise
  <2>5. CASE Arrive
    <3>1. Head(line) = 0
      BY <2>1
    <3>2. taken' = Taken
      BY <2>5, <3>1 DEF Arrive, Receive
    <3>3. Taken = <<sent>>
      BY WholeInBuffer DEF Taken
    <3>4. QED
      BY <3>2, <3>3
  <2>6. QED
    BY <2>2, <2>3, <2>4, <2>5 DEF LineNext
<1>4. QED
  BY <1>1, <1>2, <1>3, PTL DEF LineSpec, Resynchronises
=============================================================================
