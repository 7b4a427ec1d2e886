----------------------------- MODULE ServoProofs -----------------------------
(***************************************************************************)
(* Theorems about the way to the servo chip, for a queue of any length,    *)
(* any number of failed writes and any number of tasks at once in the      *)
(* queue code: types, and that the last command of a class is the one that *)
(* counts, unless a full queue dropped it or it crossed another one there. *)
(***************************************************************************)
EXTENDS ServoOutputProperties, SequenceTheorems, TLAPS

-----------------------------------------------------------------------------
\* Commands and the registers they change.

LEMMA CommandTyped ==
  ASSUME NEW x \in Commands
  PROVE  /\ x.class \in Classes /\ x # NoCommand
         /\ x.class = "turret" => x.value \in {"stop", "run"}
         /\ x.class = "arm" => x.value = "pose"
         /\ x.class = "oe" => x.value \in {"on", "off"}
BY DEF Commands, Classes, NoCommand

LEMMA ChipTyped ==
  ASSUME NEW x \in Commands, NEW y \in Outputs
  PROVE  /\ [y EXCEPT ![x.class] = x.value] \in Outputs
         /\ \A c \in Classes :
              [y EXCEPT ![x.class] = x.value][c] = IF c = x.class THEN x.value ELSE y[c]
BY DEF Commands, Outputs, Classes

Latests == [turret : {"none", "stop", "run"} \cup Gone, arm : {"none", "pose"} \cup Gone,
            oe : {"on", "off"} \cup Gone]

LEMMA LatestTyped ==
  ASSUME NEW x \in Commands, NEW y \in Latests, NEW v \in {x.value} \cup Gone
  PROVE  /\ [y EXCEPT ![x.class] = v] \in Latests
         /\ \A c \in Classes : [y EXCEPT ![x.class] = v][c] = IF c = x.class THEN v ELSE y[c]
         /\ x.value \notin Gone
BY DEF Commands, Latests, Classes, Gone

LEMMA LatestKept ==
  ASSUME NEW x \in Commands, NEW y \in Latests
  PROVE  [y EXCEPT ![x.class] = y[x.class]] \in Latests
BY DEF Commands, Latests

LEMMA AllCrossed ==
  /\ [c \in Classes |-> "crossed"] \in Latests
  /\ \A d \in Classes : [c \in Classes |-> "crossed"][d] \in Gone
BY DEF Latests, Classes, Gone

Shadows == [turret : {"unknown", "stop", "run"}, arm : {"unknown", "pose"}]

LEMMA ShadowTyped ==
  ASSUME NEW x \in Commands, x.class # "oe", NEW y \in Shadows
  PROVE  /\ [y EXCEPT ![x.class] = x.value] \in Shadows
         /\ \A c \in {"turret", "arm"} :
              [y EXCEPT ![x.class] = x.value][c] = IF c = x.class THEN x.value ELSE y[c]
BY DEF Commands, Shadows

-----------------------------------------------------------------------------
\* What a class is set to by a sequence of commands, from the value d.

Ends(s, c, v, d) ==
  \/ \E i \in 1..Len(s) :
       s[i].class = c /\ s[i].value = v /\ \A j \in 1..Len(s) : j > i => s[j].class # c
  \/ v = d /\ \A i \in 1..Len(s) : s[i].class # c

LEMMA EndsEmpty == \A c, v, d : Ends(<<>>, c, v, d) <=> v = d
BY DEF Ends

LEMMA EndsAppend ==
  ASSUME NEW s \in Seq(Commands), NEW x \in Commands, NEW c, NEW v, NEW d
  PROVE  Ends(Append(s, x), c, v, d) <=> (IF x.class = c THEN v = x.value ELSE Ends(s, c, v, d))
BY DEF Ends

\* The first command done, the others decide as before.
LEMMA EndsTail ==
  ASSUME NEW s \in Seq(Commands), s # <<>>, NEW c, NEW v, NEW d
  PROVE  Ends(s, c, v, d) <=> Ends(Tail(s), c, v, IF Head(s).class = c THEN Head(s).value ELSE d)
<1> DEFINE t == Tail(s)
           n == Len(t)
           e == IF s[1].class = c THEN s[1].value ELSE d
<1>1. n \in Nat /\ Len(s) = n + 1 /\ Head(s) = s[1] /\ \A i \in 1..n : t[i] = s[i + 1]
  OBVIOUS
<1>2. ASSUME Ends(s, c, v, d) PROVE Ends(t, c, v, e)
  <2>1. CASE v = d /\ \A i \in 1..Len(s) : s[i].class # c
    BY <1>1, <2>1 DEF Ends
  <2>2. CASE \E i \in 1..Len(s) :
               s[i].class = c /\ s[i].value = v /\ \A j \in 1..Len(s) : j > i => s[j].class # c
    <3>1. PICK i \in 1..Len(s) :
            s[i].class = c /\ s[i].value = v /\ \A j \in 1..Len(s) : j > i => s[j].class # c
      BY <2>2
    <3>2. CASE i = 1
      BY <1>1, <3>1, <3>2 DEF Ends
    <3>3. CASE i # 1
      <4>1. i - 1 \in 1..n /\ t[i - 1] = s[i]
        BY <1>1, <3>1, <3>3
      <4>2. \A j \in 1..n : j > i - 1 => t[j].class # c
        BY <1>1, <3>1
      <4> QED BY <3>1, <4>1, <4>2 DEF Ends
    <3> QED BY <3>2, <3>3
  <2> QED BY <1>2, <2>1, <2>2 DEF Ends
<1>3. ASSUME Ends(t, c, v, e) PROVE Ends(s, c, v, d)
  <2>1. CASE v = e /\ \A i \in 1..n : t[i].class # c
    <3>1. \A j \in 1..Len(s) : j > 1 => s[j].class # c
      <4> SUFFICES ASSUME NEW j \in 1..Len(s), j > 1 PROVE s[j].class # c
        OBVIOUS
      <4>1. j - 1 \in 1..n /\ t[j - 1] = s[j]
        BY <1>1
      <4> QED BY <2>1, <4>1
    <3>2. CASE s[1].class = c
      <4>1. 1 \in 1..Len(s) /\ s[1].value = v
        BY <1>1, <2>1, <3>2
      <4> QED BY <3>1, <3>2, <4>1 DEF Ends
    <3>3. CASE s[1].class # c
      <4>1. v = d
        BY <2>1, <3>3
      <4>2. \A j \in 1..Len(s) : s[j].class # c
        BY <1>1, <3>1, <3>3
      <4> QED BY <4>1, <4>2 DEF Ends
    <3> QED BY <3>2, <3>3
  <2>2. CASE \E i \in 1..n : t[i].class = c /\ t[i].value = v /\ \A j \in 1..n : j > i => t[j].class # c
    <3>1. PICK i \in 1..n : t[i].class = c /\ t[i].value = v /\ \A j \in 1..n : j > i => t[j].class # c
      BY <2>2
    <3>2. i + 1 \in 1..Len(s) /\ t[i] = s[i + 1]
      BY <1>1
    <3>3. \A j \in 1..Len(s) : j > i + 1 => s[j].class # c
      <4> SUFFICES ASSUME NEW j \in 1..Len(s), j > i + 1 PROVE s[j].class # c
        OBVIOUS
      <4>1. j - 1 \in 1..n /\ j - 1 > i /\ t[j - 1] = s[j]
        BY <1>1
      <4> QED BY <3>1, <4>1
    <3> QED BY <3>1, <3>2, <3>3 DEF Ends
  <2> QED BY <1>3, <2>1, <2>2 DEF Ends
<1> QED BY <1>1, <1>2, <1>3

-----------------------------------------------------------------------------
\* Types.

\* Whoever is in enqueue_pca_command hands over a command.
Hands == \A p \in Producers : pc[p] # "idle" => cmd[p] \in Commands
ServoTyped == TypeOK /\ Hands

States == {"idle", "send", "drain", "restore", "settle", "drop", "retry", "note"}

\* TypeOK by parts.
Typed ==
  /\ pc \in [Producers -> States] /\ cmd \in [Producers -> Commands \cup {NoCommand}]
  /\ kept \in [Producers -> Seq(Commands)] /\ \A p \in Producers : Len(kept[p]) <= QueueCap
  /\ queue \in Seq(Commands) /\ Len(queue) <= QueueCap
  /\ last \in Commands \cup {NoCommand} /\ serving \in Commands \cup {NoCommand}
  /\ motor \in BOOLEAN /\ lock \in BOOLEAN /\ scene \in Scenes
DeviceTyped == ready \in BOOLEAN /\ chip \in Outputs /\ shadow \in Shadows /\ faults \in 0..MaxFaults

LEMMA TypeParts ==
  /\ TypeOK <=> Typed /\ DeviceTyped /\ latest \in Latests
  /\ TypeOK' <=> Typed' /\ DeviceTyped' /\ latest' \in Latests
<1>1. /\ {"none", "stop", "run"} \cup Gone = {"none", "stop", "run", "lost", "crossed"}
      /\ {"none", "pose"} \cup Gone = {"none", "pose", "lost", "crossed"}
      /\ {"on", "off"} \cup Gone = {"on", "off", "lost", "crossed"}
  BY DEF Gone
<1> QED BY <1>1 DEF TypeOK, Typed, DeviceTyped, Latests, Shadows, States

LEMMA ServoTypedInit == Init => ServoTyped
<1> SUFFICES ASSUME Init PROVE ServoTyped
  OBVIOUS
<1>1. Typed /\ Hands
  <2>1. queue \in Seq(Commands) /\ Len(queue) <= QueueCap
    BY ServoOutputAssumption, EmptySeq DEF Init
  <2>2. kept \in [Producers -> Seq(Commands)] /\ \A p \in Producers : Len(kept[p]) <= QueueCap
    BY ServoOutputAssumption, EmptySeq DEF Init
  <2> QED BY <2>1, <2>2 DEF Init, Typed, Hands, States
<1>2. DeviceTyped
  BY ServoOutputAssumption DEF Init, DeviceTyped, Outputs, Shadows
<1>3. latest \in Latests
  BY DEF Init, Latests
<1> QED BY <1>1, <1>2, <1>3, TypeParts DEF ServoTyped

\* The queue never holds more than QueueCap commands.
LEMMA QueueGrows ==
  ASSUME NEW s \in Seq(Commands), NEW x \in Commands, Len(s) < QueueCap
  PROVE  Append(s, x) \in Seq(Commands) /\ Len(Append(s, x)) <= QueueCap
<1>1. Append(s, x) \in Seq(Commands) /\ Len(Append(s, x)) = Len(s) + 1 /\ Len(s) \in Nat
  OBVIOUS
<1> QED BY <1>1, ServoOutputAssumption

LEMMA QueueShrinks ==
  ASSUME NEW s \in Seq(Commands), s # <<>>, Len(s) <= QueueCap
  PROVE  Head(s) \in Commands /\ Tail(s) \in Seq(Commands) /\ Len(Tail(s)) <= QueueCap
<1>1. Head(s) \in Commands /\ Tail(s) \in Seq(Commands) /\ Len(Tail(s)) = Len(s) - 1 /\ Len(s) \in Nat
  OBVIOUS
<1> QED BY <1>1, ServoOutputAssumption

LEMMA StepTyped ==
  ASSUME Typed, NEW p \in Producers, NEW from, NEW to \in States, Step(p, from, to)
  PROVE  /\ pc' \in [Producers -> States] /\ pc[p] = from /\ pc'[p] = to
         /\ \A q \in Producers : q # p => pc'[q] = pc[q]
BY DEF Typed, Step

\* What losing a command and putting one into the queue do to the history.
LEMMA Loses ==
  ASSUME latest \in Latests, NEW p, NEW x \in Commands, Lose(p, x)
  PROVE  /\ latest' \in Latests /\ latest'[x.class] \in Gone /\ x.class \in Classes
         /\ \A c \in Classes : c # x.class => latest'[c] = latest[c]
<1>1. x.class \in Classes
  BY CommandTyped
<1>2. PICK v \in Gone : latest' = [latest EXCEPT ![x.class] = v]
  BY DEF Lose, Gone
<1>3. v \in {x.value} \cup Gone
  OBVIOUS
<1>4. /\ [latest EXCEPT ![x.class] = v] \in Latests
      /\ \A c \in Classes : [latest EXCEPT ![x.class] = v][c] = IF c = x.class THEN v ELSE latest[c]
  BY <1>3, LatestTyped
<1> QED BY <1>1, <1>2, <1>4

LEMMA Puts ==
  ASSUME Typed, latest \in Latests, NEW p \in Producers, cmd[p] \in Commands, Put(p)
  PROVE  /\ queue' = Append(queue, cmd[p]) /\ queue' \in Seq(Commands) /\ Len(queue') <= QueueCap
         /\ latest' \in Latests
         /\ \A c \in Classes : c # cmd[p].class => latest'[c] = latest[c]
         /\ latest'[cmd[p].class] \notin Gone =>
              /\ ~Alongside(p, cmd[p].class) /\ ~Refilled(p)
              /\ latest'[cmd[p].class] = cmd[p].value
<1> DEFINE c == cmd[p].class
           v == IF Alongside(p, c) \/ Refilled(p) THEN "crossed" ELSE cmd[p].value
<1>1. queue' = Append(queue, cmd[p]) /\ queue' \in Seq(Commands) /\ Len(queue') <= QueueCap
  BY QueueGrows DEF Put, Typed
<1>2. c \in Classes
  BY CommandTyped
<1>3. latest' = [latest EXCEPT ![c] = v] /\ v \in {cmd[p].value} \cup Gone
  BY DEF Put, Gone
<1>4. latest' \in Latests /\ \A d \in Classes : latest'[d] = IF d = c THEN v ELSE latest[d]
  <2>1. PICK w \in {cmd[p].value} \cup Gone : w = v
    BY <1>3
  <2> HIDE DEF v
  <2>2. /\ [latest EXCEPT ![cmd[p].class] = w] \in Latests
        /\ \A d \in Classes :
             [latest EXCEPT ![cmd[p].class] = w][d] = IF d = cmd[p].class THEN w ELSE latest[d]
    BY <2>1, LatestTyped
  <2> QED BY <1>3, <2>1, <2>2
<1>5. latest'[c] \notin Gone => ~Alongside(p, c) /\ ~Refilled(p) /\ latest'[c] = cmd[p].value
  <2>1. latest'[c] = v
    BY <1>2, <1>4
  <2> QED BY <2>1 DEF Gone
<1> QED BY <1>1, <1>4, <1>5

LEMMA EnqueueTyped ==
  ASSUME ServoTyped, NEW p \in Producers, NEW x \in Commands, Enqueue(p, x),
         motor' \in BOOLEAN, lock' \in BOOLEAN
  PROVE  ServoTyped'
<1>1. Typed /\ DeviceTyped /\ Hands
  BY TypeParts DEF ServoTyped
<1>2. DeviceTyped'
  BY <1>1 DEF DeviceTyped, Enqueue, device
<1>3. CASE Duplicate(x)
  <2>1. Step(p, "idle", "idle") /\ UNCHANGED <<cmd, kept, queue, last, scene, serving>>
    BY <1>3 DEF Enqueue
  <2>2. Typed' /\ Hands'
    BY <1>1, <2>1 DEF Typed, Hands, Step, States
  <2>3. latest \in Latests
    BY TypeParts DEF ServoTyped
  <2>4. PICK v \in {x.value, latest[x.class]} \cup Gone : latest' = [latest EXCEPT ![x.class] = v]
    BY <1>3 DEF Enqueue, Gone
  <2>5. latest' \in Latests
    <3>1. CASE v = latest[x.class]
      BY <2>3, <2>4, <3>1, LatestKept
    <3>2. CASE v \in {x.value} \cup Gone
      BY <2>3, <2>4, <3>2, LatestTyped
    <3> QED BY <3>1, <3>2
  <2> QED BY <1>2, <2>2, <2>5, TypeParts DEF ServoTyped
<1>4. CASE ~Duplicate(x)
  <2>1. /\ Step(p, "idle", "send") /\ cmd' = [cmd EXCEPT ![p] = x]
        /\ UNCHANGED <<kept, queue, last, scene, serving, latest>>
    BY <1>4 DEF Enqueue
  <2>2. Typed' /\ Hands'
    BY <1>1, <2>1 DEF Typed, Hands, Step, States
  <2> QED BY <1>2, <2>1, <2>2, TypeParts DEF ServoTyped
<1> QED BY <1>3, <1>4

\* A step that leaves the device and the other producers alone.
LEMMA Moved ==
  ASSUME ServoTyped, NEW p \in Producers, NEW from, NEW to \in States \ {"idle"}, Step(p, from, to),
         from # "idle", UNCHANGED <<cmd, last, scene, serving, device, motor, lock, faults>>,
         kept' \in [Producers -> Seq(Commands)], \A q \in Producers : Len(kept'[q]) <= QueueCap,
         queue' \in Seq(Commands), Len(queue') <= QueueCap, latest' \in Latests
  PROVE  ServoTyped'
<1>1. Typed /\ DeviceTyped /\ Hands
  BY TypeParts DEF ServoTyped
<1>2. pc' \in [Producers -> States] /\ pc[p] = from /\ \A q \in Producers : q # p => pc'[q] = pc[q]
  BY <1>1, StepTyped
<1>3. Typed'
  BY <1>1, <1>2 DEF Typed
<1>4. Hands' /\ DeviceTyped'
  BY <1>1, <1>2 DEF Hands, DeviceTyped, device
<1> QED BY <1>3, <1>4, TypeParts DEF ServoTyped

LEMMA Finished ==
  ASSUME ServoTyped, NEW p \in Producers, NEW from, Finish(p, from), last' \in Commands \cup {NoCommand},
         UNCHANGED <<kept, queue, scene, serving, device, motor, lock, faults>>, latest' \in Latests
  PROVE  ServoTyped'
<1>1. Typed /\ DeviceTyped /\ Hands
  BY TypeParts DEF ServoTyped
<1>2. Typed' /\ Hands' /\ DeviceTyped'
  BY <1>1 DEF Typed, Hands, DeviceTyped, device, Finish, Step, States
<1> QED BY <1>2, TypeParts DEF ServoTyped

LEMMA EnqueueingTyped ==
  ASSUME ServoTyped, NEW p \in Producers, Enqueueing(p) PROVE ServoTyped'
<1>1. Typed /\ latest \in Latests /\ Hands
  BY TypeParts DEF ServoTyped
<1>2. /\ queue \in Seq(Commands) /\ Len(queue) <= QueueCap /\ kept[p] \in Seq(Commands)
      /\ kept \in [Producers -> Seq(Commands)] /\ \A q \in Producers : Len(kept[q]) <= QueueCap
      /\ last \in Commands \cup {NoCommand}
  BY <1>1 DEF Typed
<1>3. pc[p] # "idle" /\ cmd[p] \in Commands
  BY <1>1 DEF Hands, Enqueueing, Send, Drain, Restore, Settle, DropOldest, Retry, NoteLast, GiveUp,
              Finish, Step
<1>4. CASE Send(p)
  <2>1. CASE Put(p)
    BY <1>1, <1>2, <1>3, <1>4, <2>1, Puts, Moved DEF Send, States
  <2>2. CASE Step(p, "send", "drain") /\ UNCHANGED queue
    <3>1. latest' \in Latests
      BY <1>1, <1>4, <2>2, AllCrossed, Puts, <1>3 DEF Send
    <3> QED BY <1>2, <1>4, <2>2, <3>1, Moved DEF Send, States
  <2> QED BY <1>4, <2>1, <2>2 DEF Send
<1>5. CASE Drain(p)
  <2>1. CASE queue = <<>>
    BY <1>1, <1>2, <1>5, <2>1, Moved DEF Drain, States
  <2>2. CASE queue # <<>>
    <3>1. Head(queue) \in Commands /\ Tail(queue) \in Seq(Commands) /\ Len(Tail(queue)) <= QueueCap
      BY <1>2, <2>2, QueueShrinks
    <3>2. kept' \in [Producers -> Seq(Commands)] /\ \A q \in Producers : Len(kept'[q]) <= QueueCap
      <4>1. CASE Len(kept[p]) < QueueCap /\ kept' = [kept EXCEPT ![p] = Append(@, Head(queue))]
        <5>1. Append(kept[p], Head(queue)) \in Seq(Commands) /\ Len(Append(kept[p], Head(queue))) <= QueueCap
          BY <1>2, <3>1, <4>1, QueueGrows
        <5> QED BY <1>2, <4>1, <5>1
      <4> QED BY <1>2, <1>5, <2>2, <4>1 DEF Drain
    <3>3. latest' \in Latests
      BY <1>1, <1>5, <2>2, <3>1, Loses DEF Drain
    <3>4. Step(p, "drain", "drain") /\ queue' = Tail(queue)
      BY <1>5, <2>2 DEF Drain
    <3> QED BY <1>5, <3>1, <3>2, <3>3, <3>4, Moved DEF Drain, States
  <2> QED BY <2>1, <2>2
<1>6. CASE Restore(p)
  <2>1. CASE kept[p] = <<>>
    BY <1>1, <1>2, <1>6, <2>1, Moved DEF Restore, States
  <2>2. CASE kept[p] # <<>>
    <3>1. Head(kept[p]) \in Commands /\ Tail(kept[p]) \in Seq(Commands) /\ Len(Tail(kept[p])) <= QueueCap
      BY <1>2, <2>2, QueueShrinks
    <3>2. Step(p, "restore", "restore") /\ kept' = [kept EXCEPT ![p] = Tail(@)]
      BY <1>6, <2>2 DEF Restore
    <3>3. kept' \in [Producers -> Seq(Commands)] /\ \A q \in Producers : Len(kept'[q]) <= QueueCap
      BY <1>2, <3>1, <3>2
    <3>4. queue' \in Seq(Commands) /\ Len(queue') <= QueueCap /\ latest' \in Latests
      <4>1. CASE Len(queue) < QueueCap
        BY <1>1, <1>2, <1>6, <2>2, <3>1, <4>1, QueueGrows DEF Restore
      <4>2. CASE ~(Len(queue) < QueueCap)
        BY <1>1, <1>2, <1>6, <2>2, <3>1, <4>2, Loses DEF Restore
      <4> QED BY <4>1, <4>2
    <3> QED BY <1>6, <3>2, <3>3, <3>4, Moved DEF Restore, States
  <2> QED BY <2>1, <2>2
<1>7. CASE Settle(p)
  <2>1. CASE Step(p, "settle", "note") /\ Put(p)
    BY <1>1, <1>2, <1>3, <1>7, <2>1, Puts, Moved DEF Settle, States
  <2>2. CASE Step(p, "settle", "drop") /\ UNCHANGED <<queue, latest>>
    BY <1>1, <1>2, <1>7, <2>2, Moved DEF Settle, States
  <2> QED BY <1>7, <2>1, <2>2 DEF Settle
<1>8. CASE DropOldest(p)
  <2>1. CASE GiveUp(p, "drop")
    <3>1. latest' \in Latests
      BY <1>1, <1>3, <2>1, Loses DEF GiveUp
    <3> QED BY <1>2, <1>8, <2>1, <3>1, Finished DEF DropOldest, GiveUp
  <2>2. CASE /\ queue # <<>> /\ Step(p, "drop", "retry")
             /\ queue' = Tail(queue) /\ Lose(p, Head(queue)) /\ UNCHANGED cmd
    <3>1. Head(queue) \in Commands /\ Tail(queue) \in Seq(Commands) /\ Len(Tail(queue)) <= QueueCap
      BY <1>2, <2>2, QueueShrinks
    <3>2. latest' \in Latests
      BY <1>1, <2>2, <3>1, Loses
    <3> QED BY <1>2, <1>8, <2>2, <3>1, <3>2, Moved DEF DropOldest, States
  <2> QED BY <1>8, <2>1, <2>2 DEF DropOldest
<1>9. CASE Retry(p)
  <2>1. CASE Step(p, "retry", "note") /\ Put(p) /\ UNCHANGED cmd
    BY <1>1, <1>2, <1>3, <1>9, <2>1, Puts, Moved DEF Retry, States
  <2>2. CASE GiveUp(p, "retry")
    <3>1. latest' \in Latests
      BY <1>1, <1>3, <2>2, Loses DEF GiveUp
    <3> QED BY <1>2, <1>9, <2>2, <3>1, Finished DEF Retry, GiveUp
  <2> QED BY <1>9, <2>1, <2>2 DEF Retry
<1>10. CASE NoteLast(p)
  BY <1>1, <1>3, <1>10, Finished DEF NoteLast
<1> QED BY <1>4, <1>5, <1>6, <1>7, <1>8, <1>9, <1>10 DEF Enqueueing

\* Executing a command keeps the registers well-typed, and the shadow true as long
\* as nothing has failed; then the chip does what the command says.
ShadowTrue ==
  faults = 0 => ready /\ \A c \in {"turret", "arm"} : shadow[c] # "unknown" => chip[c] = shadow[c]

LEMMA ExecuteTyped ==
  ASSUME DeviceTyped, NEW x \in Commands, Execute(x)
  PROVE  /\ DeviceTyped' /\ (faults' = 0 => faults = 0)
         /\ ShadowTrue => ShadowTrue'
         /\ ShadowTrue /\ faults' = 0 =>
              \A c \in Classes : chip'[c] = IF c = x.class THEN x.value ELSE chip[c]
<1> DEFINE written == [chip EXCEPT ![x.class] = x.value]
           noted == [shadow EXCEPT ![x.class] = x.value]
<1>1. written \in Outputs /\ \A c \in Classes : written[c] = IF c = x.class THEN x.value ELSE chip[c]
  BY ChipTyped DEF DeviceTyped
<1>2. faults \in Nat /\ faults <= MaxFaults /\ MaxFaults \in Nat
  BY ServoOutputAssumption DEF DeviceTyped
<1>3. CASE x.class = "oe"
  <2>1. chip' = written /\ UNCHANGED <<ready, shadow, faults>>
    BY <1>3 DEF Execute
  <2> QED BY <1>1, <1>3, <2>1 DEF DeviceTyped, ShadowTrue, Classes
<1>4. CASE x.class # "oe" /\ (~ready \/ shadow[x.class] = x.value)
  <2>1. UNCHANGED <<device, faults>>
    BY <1>4 DEF Execute, WriteGroup
  <2>2. x.class \in {"turret", "arm"} /\ x.value # "unknown"
    BY <1>4, CommandTyped DEF Classes
  <2> QED BY <1>4, <2>1, <2>2 DEF device, DeviceTyped, ShadowTrue, Classes
<1>5. CASE x.class # "oe" /\ ready /\ shadow[x.class] # x.value
  <2>1. noted \in Shadows /\ \A c \in {"turret", "arm"} : noted[c] = IF c = x.class THEN x.value ELSE shadow[c]
    BY <1>5, ShadowTyped DEF DeviceTyped
  <2>2. CASE shadow' = noted /\ chip' = written /\ UNCHANGED <<ready, faults>>
    BY <1>1, <2>1, <2>2 DEF DeviceTyped, ShadowTrue, Classes
  <2>3. CASE /\ faults < MaxFaults /\ faults' = faults + 1
             /\ ready' \in BOOLEAN /\ chip' \in {chip, written} /\ UNCHANGED shadow
    BY <1>1, <1>2, <2>3 DEF DeviceTyped, ShadowTrue
  <2> QED BY <1>5, <2>2, <2>3 DEF Execute, WriteGroup
<1> QED BY <1>3, <1>4, <1>5

LEMMA ServoStepTyped == ServoTyped /\ Servo => ServoTyped'
<1> SUFFICES ASSUME ServoTyped, Servo PROVE ServoTyped'
  OBVIOUS
<1>1. Typed /\ DeviceTyped /\ latest \in Latests /\ Hands
  BY TypeParts DEF ServoTyped
<1>2. CASE ServoTake
  <2>1. Head(queue) \in Commands /\ Tail(queue) \in Seq(Commands) /\ Len(Tail(queue)) <= QueueCap
    BY <1>1, <1>2, QueueShrinks DEF ServoTake, Typed
  <2>2. Typed' /\ Hands'
    BY <1>1, <1>2, <2>1 DEF ServoTake, Typed, Hands, producer
  <2>3. DeviceTyped'
    BY <1>1, <1>2, ExecuteTyped DEF ServoTake, Typed, DeviceTyped, device
  <2>4. latest' \in Latests
    BY <1>1, <1>2, <2>1, LatestTyped DEF ServoTake, Gone
  <2> QED BY <2>2, <2>3, <2>4, TypeParts DEF ServoTyped
<1>3. CASE ServoLast
  <2>1. Typed' /\ Hands'
    BY <1>1, <1>3 DEF ServoLast, Typed, Hands, producer
  <2>2. DeviceTyped'
    BY <1>1, <1>3, ExecuteTyped DEF ServoLast, Typed
  <2> QED BY <1>1, <1>3, <2>1, <2>2, TypeParts DEF ServoLast, ServoTyped
<1> QED BY <1>2, <1>3 DEF Servo

\* What happens outside of the queue code and the servo task.
Outside ==
  \/ TurretReinit
  \/ motor' \in BOOLEAN /\ lock' \in BOOLEAN /\ Idle
  \/ \E p \in Producers, x \in Commands : Enqueue(p, x) /\ motor' \in BOOLEAN /\ lock' \in BOOLEAN

LEMMA NextParts ==
  ASSUME TypeOK, Next PROVE Outside \/ Servo \/ \E p \in Producers : Enqueueing(p)
<1>1. Stop \in Commands /\ Run \in Commands /\ Pose \in Commands /\ \A on \in BOOLEAN : OE(on) \in Commands
  BY DEF Stop, Run, Pose, OE, Commands
<1>2. motor \in BOOLEAN /\ lock \in BOOLEAN
  BY DEF TypeOK
<1>3. ASSUME NEW c \in {Stop, Run}, TurretPass(c) PROVE Outside
  BY <1>1, <1>2, <1>3 DEF TurretPass, Outside, Producers
<1>4. CASE ArmBatch
  BY <1>1, <1>2, <1>4 DEF ArmBatch, Outside, Producers
<1>5. CASE MotorOn \/ MotorOff
  BY <1>1, <1>2, <1>5 DEF MotorOn, MotorOff, Outside, Producers
<1>6. CASE Lock \/ Unlock
  BY <1>1, <1>2, <1>6 DEF Lock, Unlock, Outside, Producers
<1>7. ASSUME NEW on \in OEOps, SetOutputEnable(on) PROVE Outside
  BY <1>1, <1>2, <1>7, ServoOutputAssumption DEF SetOutputEnable, Outside, Producers
<1> QED BY <1>3, <1>4, <1>5, <1>6, <1>7 DEF Next, Outside

LEMMA OutsideTyped == ServoTyped /\ Outside => ServoTyped'
<1> SUFFICES ASSUME ServoTyped, Outside PROVE ServoTyped'
  OBVIOUS
<1>1. CASE TurretReinit
  <2>1. Typed' /\ Hands' /\ latest' \in Latests
    BY <1>1, TypeParts DEF ServoTyped, TurretReinit, Typed, Hands, producer
  <2>2. DeviceTyped'
    BY <1>1, TypeParts DEF ServoTyped, TurretReinit, DeviceTyped, Outputs, Shadows
  <2> QED BY <2>1, <2>2, TypeParts DEF ServoTyped
<1>2. CASE motor' \in BOOLEAN /\ lock' \in BOOLEAN /\ Idle
  BY <1>2, TypeParts DEF ServoTyped, Idle, Typed, DeviceTyped, Hands, producer, device
<1> QED BY <1>1, <1>2, EnqueueTyped DEF Outside

LEMMA ServoTypedStep == ServoTyped /\ [Next]_vars => ServoTyped'
<1> SUFFICES ASSUME ServoTyped, [Next]_vars PROVE ServoTyped'
  OBVIOUS
<1>1. CASE UNCHANGED vars
  BY <1>1, TypeParts DEF ServoTyped, vars, Typed, DeviceTyped, Hands, producer, device
<1>2. CASE Next
  BY <1>2, NextParts, OutsideTyped, ServoStepTyped, EnqueueingTyped DEF ServoTyped
<1> QED BY <1>1, <1>2

LEMMA AlwaysServoTyped == Spec => []ServoTyped
BY ServoTypedInit, ServoTypedStep, PTL DEF Spec

\* Every reachable state is well-typed: also with tasks racing in the queue code the
\* queue never holds more than it can, and nothing but commands.
THEOREM ServoTypeCorrect == Spec => []TypeOK
<1>1. ServoTyped => TypeOK
  BY DEF ServoTyped
<1> QED BY <1>1, AlwaysServoTyped, PTL

-----------------------------------------------------------------------------
\* The last command of a class counts.

Refills(p) == pc[p] \in {"drain", "restore"}
KeptEmpty == \A p \in Producers : ~Refills(p) => kept[p] = <<>>

\* What was last asked of c is known to be on its way.
Live(c) == latest[c] \notin Gone

\* With two tasks refilling the queue nothing is known of its order.
OneRefill == \A p, q \in Producers, c \in Classes : Refills(p) /\ Refills(q) /\ Live(c) => p = q

\* A task that has found the queue full holds a newer command of c, and has thrown out
\* the older ones, or may do so.
InWork(c) ==
  \E p \in Producers :
    pc[p] \in {"drain", "restore", "settle", "drop", "retry"} /\ cmd[p].class = c

\* What the chip is set to before the queue is looked at.
Base(c) == IF serving.class = c THEN serving.value ELSE chip[c]

\* The queue ends with what was last asked of c; also with what a task has taken out of
\* it, before it, or has yet to put back, behind it.
Queued(c) == (\A p \in Producers : ~Refills(p)) => Ends(queue, c, latest[c], Base(c))
Drained(p, c) ==
  pc[p] = "drain" => \E w : Ends(kept[p], c, w, Base(c)) /\ Ends(queue, c, latest[c], w)
Restored(p, c) ==
  pc[p] = "restore" => \E w : Ends(queue, c, w, Base(c)) /\ Ends(kept[p], c, latest[c], w)
Comes(c) == Queued(c) /\ \A p \in Producers : Drained(p, c) /\ Restored(p, c)

Decided == \A c \in Classes : Live(c) /\ ~InWork(c) => Comes(c)

\* A command that is taken for a duplicate is what was last asked of its class.
Noted(c) ==
  last.class = c /\ (\A p \in Producers : pc[p] # "idle" => cmd[p].class # c) => latest[c] = last.value
Noting(c) == \A p \in Producers : pc[p] = "note" /\ cmd[p].class = c => latest[c] = cmd[p].value
LastHolds == \A c \in Classes : Live(c) => Noted(c) /\ Noting(c)

Order == KeptEmpty /\ OneRefill /\ LastHolds
WinsInv == ServoTyped /\ ShadowTrue /\ Order /\ (faults = 0 => Decided)

LEMMA WinsInit == Init => WinsInv
<1> SUFFICES ASSUME Init PROVE WinsInv
  OBVIOUS
<1>1. ShadowTrue /\ KeptEmpty /\ OneRefill
  BY DEF Init, ShadowTrue, KeptEmpty, OneRefill, Refills
<1>2. LastHolds
  BY DEF Init, LastHolds, Noted, Noting, NoCommand, Classes
<1>3. Decided
  <2> SUFFICES ASSUME NEW c \in Classes PROVE Comes(c)
    BY DEF Decided
  <2>1. Ends(queue, c, latest[c], Base(c))
    BY EndsEmpty DEF Init, Base, Classes, NoCommand
  <2> QED BY <2>1 DEF Init, Comes, Queued, Drained, Restored
<1> QED BY <1>1, <1>2, <1>3, ServoTypedInit DEF WinsInv, Order

\* A step by which nobody enters or leaves a loop over the queue keeps what c comes to.
LEMMA ComesStays ==
  ASSUME NEW c, Comes(c), UNCHANGED kept, latest'[c] = latest[c], Base(c)' = Base(c),
         \A p \in Producers : /\ pc'[p] = "drain" <=> pc[p] = "drain"
                              /\ pc'[p] = "restore" <=> pc[p] = "restore",
         \A v, d : Ends(queue, c, v, d) => Ends(queue', c, v, d)
  PROVE  Comes(c)'
<1>1. Queued(c)'
  BY DEF Comes, Queued, Refills
<1>2. ASSUME NEW p \in Producers PROVE Drained(p, c)'
  BY DEF Comes, Drained
<1>3. ASSUME NEW p \in Producers PROVE Restored(p, c)'
  BY DEF Comes, Restored
<1> QED BY <1>1, <1>2, <1>3 DEF Comes

\* A step of the environment that the queue code does not notice.
LEMMA Unnoticed ==
  ASSUME Order, UNCHANGED <<pc, cmd, kept, last>>,
         \A c \in Classes : Live(c)' => latest'[c] = latest[c]
  PROVE  Order'
<1>1. \A c \in Classes : Live(c)' => Live(c)
  BY DEF Live
<1>2. KeptEmpty' /\ OneRefill'
  BY <1>1 DEF Order, KeptEmpty, OneRefill, Refills
<1>3. LastHolds'
  BY <1>1 DEF Order, LastHolds, Noted, Noting
<1> QED BY <1>2, <1>3 DEF Order

-----------------------------------------------------------------------------
\* Steps outside of the queue code.

LEMMA DuplicateKeeps ==
  ASSUME WinsInv, NEW p \in Producers, NEW x \in Commands, Enqueue(p, x), Duplicate(x)
  PROVE  /\ UNCHANGED <<pc, cmd, kept, queue, last, serving, device, faults>>
         /\ \A c \in Classes : Live(c)' => latest'[c] = latest[c]
<1>1. Typed /\ latest \in Latests
  BY TypeParts DEF WinsInv, ServoTyped
<1>2. /\ Step(p, "idle", "idle") /\ UNCHANGED <<cmd, kept, queue, last, serving, device, faults>>
      /\ last = x /\ x.class \in Classes
  BY CommandTyped DEF Enqueue, Duplicate
<1>3. pc' = pc /\ pc[p] = "idle"
  BY <1>1, <1>2 DEF Step, Typed
<1>4. PICK v : /\ latest' = [latest EXCEPT ![x.class] = v]
               /\ v = IF Alongside(p, x.class) THEN "crossed"
                      ELSE IF latest[x.class] \in Gone THEN latest[x.class] ELSE x.value
  BY DEF Enqueue
<1>5. v \notin Gone => v = latest[x.class]
  <2> SUFFICES ASSUME v \notin Gone PROVE v = latest[x.class]
    OBVIOUS
  <2>1. ~Alongside(p, x.class) /\ Live(x.class) /\ v = x.value
    BY <1>4 DEF Gone, Live
  <2>2. \A q \in Producers : pc[q] # "idle" => cmd[q].class # x.class
    BY <1>3, <2>1 DEF Alongside
  <2>3. latest[x.class] = x.value
    BY <1>2, <2>1, <2>2 DEF WinsInv, Order, LastHolds, Noted
  <2> QED BY <2>1, <2>3
<1>6. ASSUME NEW c \in Classes, Live(c)' PROVE latest'[c] = latest[c]
  <2>1. latest'[c] = IF c = x.class THEN v ELSE latest[c]
    BY <1>1, <1>4 DEF Latests, Classes
  <2> QED BY <1>5, <1>6, <2>1 DEF Live
<1> QED BY <1>2, <1>3, <1>6

LEMMA EnqueueWins ==
  ASSUME WinsInv, NEW p \in Producers, NEW x \in Commands, Enqueue(p, x),
         motor' \in BOOLEAN, lock' \in BOOLEAN
  PROVE  WinsInv'
<1>1. ServoTyped' /\ Typed
  BY EnqueueTyped, TypeParts DEF WinsInv, ServoTyped
<1>2. ShadowTrue' /\ faults' = faults /\ \A c : Base(c)' = Base(c)
  BY DEF WinsInv, Enqueue, device, ShadowTrue, Base
<1>3. CASE Duplicate(x)
  <2>1. /\ UNCHANGED <<pc, cmd, kept, queue, last>>
        /\ \A c \in Classes : Live(c)' => latest'[c] = latest[c]
    BY <1>3, DuplicateKeeps
  <2>2. Order'
    BY <2>1, Unnoticed DEF WinsInv
  <2>3. ASSUME faults = 0 PROVE Decided'
    <3> SUFFICES ASSUME NEW c \in Classes, Live(c)', ~InWork(c)' PROVE Comes(c)'
      BY DEF Decided
    <3>1. latest'[c] = latest[c] /\ Live(c) /\ ~InWork(c)
      BY <2>1 DEF Live, InWork
    <3>2. Comes(c)
      BY <2>3, <3>1 DEF WinsInv, Decided
    <3> QED BY <1>2, <2>1, <3>1, <3>2, ComesStays
  <2> QED BY <1>1, <1>2, <2>2, <2>3 DEF WinsInv
<1>4. CASE ~Duplicate(x)
  <2>1. /\ Step(p, "idle", "send") /\ cmd' = [cmd EXCEPT ![p] = x]
        /\ UNCHANGED <<kept, queue, last, latest>>
    BY <1>4 DEF Enqueue
  <2>2. /\ pc[p] = "idle" /\ pc'[p] = "send" /\ cmd'[p] = x
        /\ \A q \in Producers : q # p => pc'[q] = pc[q] /\ cmd'[q] = cmd[q]
    BY <1>1, <2>1 DEF Step, Typed
  <2>3. KeptEmpty' /\ OneRefill'
    BY <2>1, <2>2 DEF WinsInv, Order, KeptEmpty, OneRefill, Refills, Live
  <2>4. LastHolds'
    <3> SUFFICES ASSUME NEW c \in Classes, Live(c)' PROVE Noted(c)' /\ Noting(c)'
      BY DEF LastHolds
    <3>1. Noted(c) /\ Noting(c)
      BY <2>1 DEF WinsInv, Order, LastHolds, Live
    <3> QED BY <2>1, <2>2, <3>1 DEF Noted, Noting
  <2>5. ASSUME faults = 0 PROVE Decided'
    <3> SUFFICES ASSUME NEW c \in Classes, Live(c)', ~InWork(c)' PROVE Comes(c)'
      BY DEF Decided
    <3>1. Live(c) /\ ~InWork(c)
      BY <2>1, <2>2 DEF Live, InWork
    <3>2. Comes(c)
      BY <2>5, <3>1 DEF WinsInv, Decided
    <3> QED BY <1>2, <2>1, <2>2, <3>2, ComesStays
  <2> QED BY <1>1, <1>2, <2>3, <2>4, <2>5 DEF WinsInv, Order
<1> QED BY <1>3, <1>4

LEMMA OutsideWins == ASSUME WinsInv, Outside PROVE WinsInv'
<1>1. ServoTyped'
  BY OutsideTyped DEF WinsInv
<1>2. CASE TurretReinit
  <2>1. UNCHANGED <<pc, cmd, kept, last, latest>> /\ faults # 0 /\ faults' = faults
    BY <1>2 DEF WinsInv, ShadowTrue, TurretReinit, producer
  <2>2. Order'
    BY <2>1, Unnoticed DEF WinsInv
  <2> QED BY <1>1, <2>1, <2>2 DEF WinsInv, ShadowTrue
<1>3. CASE Idle
  <2>1. ShadowTrue' /\ UNCHANGED <<pc, cmd, kept, queue, last, faults, latest>> /\ \A c : Base(c)' = Base(c)
    BY <1>3 DEF WinsInv, Idle, producer, device, ShadowTrue, Base
  <2>2. Order'
    BY <2>1, Unnoticed DEF WinsInv
  <2>3. ASSUME faults = 0, NEW c \in Classes, Live(c)', ~InWork(c)' PROVE Comes(c)'
    <3>1. Live(c) /\ ~InWork(c)
      BY <2>1, <2>3 DEF Live, InWork
    <3>2. Comes(c)
      BY <2>3, <3>1 DEF WinsInv, Decided
    <3> QED BY <2>1, <3>2, ComesStays
  <2> QED BY <1>1, <2>1, <2>2, <2>3 DEF WinsInv, Decided
<1> QED BY <1>2, <1>3, EnqueueWins DEF Outside

-----------------------------------------------------------------------------
\* The servo task.

LEMMA ServoShadow ==
  ASSUME ServoTyped, ShadowTrue, Servo PROVE ShadowTrue' /\ (faults' = 0 => faults = 0)
<1>1. Typed /\ DeviceTyped
  BY TypeParts DEF ServoTyped
<1>2. CASE UNCHANGED <<device, faults>>
  BY <1>2 DEF device, ShadowTrue
<1>3. CASE serving \in Commands /\ Execute(serving)
  BY <1>1, <1>3, ExecuteTyped
<1> QED BY <1>1, <1>2, <1>3 DEF Servo, ServoTake, ServoLast, Typed

\* The oldest command goes from the queue into the hands of the servo task.
LEMMA TakeBase ==
  ASSUME ServoTyped, ShadowTrue, ServoTake, faults' = 0, NEW c \in Classes
  PROVE  /\ queue # <<>> /\ queue \in Seq(Commands) /\ Head(queue) \in Commands /\ queue' = Tail(queue)
         /\ Base(c)' = IF Head(queue).class = c THEN Head(queue).value ELSE Base(c)
<1>1. Typed /\ DeviceTyped
  BY TypeParts DEF ServoTyped
<1>2. /\ queue # <<>> /\ queue \in Seq(Commands) /\ Head(queue) \in Commands
      /\ queue' = Tail(queue) /\ serving' = Head(queue)
  BY <1>1, QueueShrinks DEF ServoTake, Typed
<1>3. CASE Head(queue).class = c
  BY <1>2, <1>3 DEF Base
<1>4. CASE Head(queue).class # c /\ (serving = NoCommand \/ Supersedes(Head(queue), serving))
  BY <1>2, <1>4 DEF ServoTake, Supersedes, device, Base, NoCommand, Classes
<1>5. CASE Head(queue).class # c /\ serving # NoCommand /\ ~Supersedes(Head(queue), serving)
  <2>1. serving \in Commands /\ Execute(serving)
    BY <1>1, <1>5 DEF ServoTake, Typed
  <2>2. chip'[c] = IF c = serving.class THEN serving.value ELSE chip[c]
    BY <1>1, <2>1, ExecuteTyped
  <2> QED BY <1>2, <1>5, <2>2 DEF Base
<1> QED BY <1>2, <1>3, <1>4, <1>5

\* A sequence without commands of c leaves c at what it was.
LEMMA EndsWithout ==
  ASSUME NEW s, NEW c, \A i \in 1..Len(s) : s[i].class # c, NEW v, NEW d
  PROVE  Ends(s, c, v, d) <=> v = d
BY DEF Ends

LEMMA TakeComes ==
  ASSUME WinsInv, ServoTake, faults' = 0, NEW c \in Classes, Comes(c), UNCHANGED <<pc, kept>>,
         latest'[c] = latest[c], ~Overtakes(c) \/ Head(queue).class # c
  PROVE  Comes(c)'
<1> DEFINE h == Head(queue)
<1>1. /\ queue # <<>> /\ queue \in Seq(Commands) /\ h \in Commands /\ queue' = Tail(queue)
      /\ Base(c)' = IF h.class = c THEN h.value ELSE Base(c)
  BY TakeBase DEF WinsInv
<1>2. \A v, d : Ends(queue, c, v, d) <=> Ends(queue', c, v, IF h.class = c THEN h.value ELSE d)
  BY <1>1, EndsTail
<1>3. Queued(c)'
  BY <1>1, <1>2 DEF Comes, Queued, Refills
<1>4. ASSUME NEW p \in Producers, pc[p] = "restore" PROVE Restored(p, c)'
  <2>1. PICK w : Ends(queue, c, w, Base(c)) /\ Ends(kept[p], c, latest[c], w)
    BY <1>4 DEF Comes, Restored
  <2>2. Ends(queue', c, w, Base(c)')
    BY <1>1, <1>2, <2>1
  <2> QED BY <2>1, <2>2 DEF Restored
<1>5. ASSUME NEW p \in Producers, pc[p] = "drain" PROVE Drained(p, c)'
  <2>1. PICK w : Ends(kept[p], c, w, Base(c)) /\ Ends(queue, c, latest[c], w)
    BY <1>5 DEF Comes, Drained
  <2>2. CASE h.class # c
    <3>1. Ends(queue', c, latest[c], w) /\ Base(c)' = Base(c)
      BY <1>1, <1>2, <2>1, <2>2
    <3> QED BY <2>1, <3>1 DEF Drained
  <2>3. CASE h.class = c
    <3>1. Ends(queue', c, latest[c], h.value) /\ Base(c)' = h.value
      BY <1>1, <1>2, <2>1, <2>3
    <3>2. \A i \in 1..Len(kept[p]) : kept[p][i].class # c
      BY <1>5, <2>3 DEF Overtakes
    <3>3. Ends(kept[p], c, h.value, h.value)
      BY <3>2, EndsWithout
    <3> QED BY <3>1, <3>3 DEF Drained
  <2> QED BY <2>2, <2>3
<1> QED BY <1>3, <1>4, <1>5 DEF Comes, Drained, Restored

LEMMA LastBase ==
  ASSUME ServoTyped, ShadowTrue, ServoLast, faults' = 0, NEW c \in Classes PROVE Base(c)' = Base(c)
<1>1. Typed /\ DeviceTyped
  BY TypeParts DEF ServoTyped
<1>2. serving \in Commands /\ Execute(serving) /\ serving' = NoCommand
  BY <1>1 DEF ServoLast, Typed
<1>3. chip'[c] = IF c = serving.class THEN serving.value ELSE chip[c]
  BY <1>1, <1>2, ExecuteTyped
<1> QED BY <1>2, <1>3 DEF Base, NoCommand, Classes

LEMMA ServoWins == ASSUME WinsInv, Servo PROVE WinsInv'
<1>1. ServoTyped' /\ ShadowTrue' /\ (faults' = 0 => faults = 0)
  BY ServoStepTyped, ServoShadow DEF WinsInv
<1>2. UNCHANGED <<pc, cmd, kept, last>>
  BY DEF Servo, ServoTake, ServoLast, producer
<1>3. CASE ServoTake
  <2> DEFINE h == Head(queue)
  <2>1. h \in Commands /\ latest \in Latests
    BY <1>3, TypeParts, QueueShrinks DEF WinsInv, ServoTyped, ServoTake, Typed
  <2>2. ASSUME NEW c \in Classes, Live(c)'
        PROVE  latest'[c] = latest[c] /\ (~Overtakes(c) \/ h.class # c)
    <3>1. CASE ~Overtakes(h.class)
      BY <1>3, <3>1 DEF ServoTake
    <3>2. CASE Overtakes(h.class)
      <4>1. latest'[c] = IF c = h.class THEN "crossed" ELSE latest[c]
        BY <1>3, <2>1, <3>2, LatestTyped DEF ServoTake, Gone
      <4> QED BY <2>2, <4>1 DEF Live, Gone
    <3> QED BY <3>1, <3>2
  <2>3. Order'
    BY <1>2, <2>2, Unnoticed DEF WinsInv
  <2>4. ASSUME faults' = 0, NEW c \in Classes, Live(c)', ~InWork(c)' PROVE Comes(c)'
    <3>1. Live(c) /\ ~InWork(c)
      BY <1>2, <2>2, <2>4 DEF Live, InWork
    <3>2. Comes(c)
      BY <1>1, <2>4, <3>1 DEF WinsInv, Decided
    <3> QED BY <1>2, <1>3, <2>2, <2>4, <3>2, TakeComes
  <2> QED BY <1>1, <2>3, <2>4 DEF WinsInv, Decided
<1>4. CASE ServoLast
  <2>1. UNCHANGED <<queue, latest>>
    BY <1>4 DEF ServoLast
  <2>2. Order'
    BY <1>2, <2>1, Unnoticed DEF WinsInv
  <2>3. ASSUME faults' = 0, NEW c \in Classes, Live(c)', ~InWork(c)' PROVE Comes(c)'
    <3>1. Live(c) /\ ~InWork(c)
      BY <1>2, <2>1, <2>3 DEF Live, InWork
    <3>2. Comes(c) /\ Base(c)' = Base(c)
      BY <1>1, <1>4, <2>3, <3>1, LastBase DEF WinsInv, Decided
    <3> QED BY <1>2, <2>1, <3>2, ComesStays
  <2> QED BY <1>1, <2>2, <2>3 DEF WinsInv, Decided
<1> QED BY <1>3, <1>4 DEF Servo

-----------------------------------------------------------------------------
\* Steps of the queue code that neither put the new command in nor leave.

LEMMA MovedOrder ==
  ASSUME WinsInv, NEW p \in Producers, NEW from \in States \ {"idle", "note"},
         NEW to \in States \ {"idle", "note"}, Step(p, from, to), UNCHANGED <<cmd, last>>,
         \A q \in Producers : q # p => kept'[q] = kept[q],
         to \notin {"drain", "restore"} => kept'[p] = <<>>,
         \A c \in Classes : Live(c)' => latest'[c] = latest[c],
         from \in {"drain", "restore"} \/ to \notin {"drain", "restore"} \/ ~Refilled(p)
           \/ \A c \in Classes : ~Live(c)'
  PROVE  Order'
<1>1. /\ pc[p] = from /\ pc'[p] = to /\ \A q \in Producers : q # p => pc'[q] = pc[q]
      /\ KeptEmpty /\ OneRefill /\ LastHolds
  BY StepTyped, TypeParts DEF WinsInv, ServoTyped, Order
<1>2. \A c \in Classes : Live(c)' => Live(c)
  BY DEF Live
<1>3. KeptEmpty'
  BY <1>1 DEF KeptEmpty, Refills
<1>4. OneRefill'
  <2> SUFFICES ASSUME NEW q \in Producers, NEW r \in Producers, NEW c \in Classes,
                      Refills(q)', Refills(r)', Live(c)'
               PROVE  q = r
    BY DEF OneRefill
  <2>1. Live(c)
    BY <1>2
  <2>2. CASE Refills(q) /\ Refills(r)
    BY <1>1, <2>1, <2>2 DEF OneRefill
  <2>3. CASE ~(Refills(q) /\ Refills(r))
    <3>1. from \notin {"drain", "restore"} /\ to \in {"drain", "restore"} /\ (q = p \/ r = p)
      BY <1>1, <2>3 DEF Refills
    <3>2. \A s \in Producers : s # p => ~Refills(s)'
      BY <1>1, <3>1 DEF Refilled, Refills
    <3> QED BY <3>1, <3>2
  <2> QED BY <2>2, <2>3
<1>5. LastHolds'
  <2> SUFFICES ASSUME NEW c \in Classes, Live(c)' PROVE Noted(c)' /\ Noting(c)'
    BY DEF LastHolds
  <2>1. Noted(c) /\ Noting(c) /\ latest'[c] = latest[c]
    BY <1>1, <1>2 DEF LastHolds
  <2>2. \A q \in Producers : pc'[q] # "idle" <=> pc[q] # "idle"
    BY <1>1
  <2>3. \A q \in Producers : pc'[q] = "note" <=> pc[q] = "note"
    BY <1>1
  <2> QED BY <2>1, <2>2, <2>3 DEF Noted, Noting
<1> QED BY <1>3, <1>4, <1>5 DEF Order

\* What such a step has to show of a class whose last command is still on its way.
LEMMA MovedWins ==
  ASSUME WinsInv, NEW p \in Producers, ServoTyped', Order', UNCHANGED <<cmd, serving, device, faults>>,
         pc'[p] \in {"drain", "restore", "settle", "drop", "retry"},
         \A q \in Producers : q # p => pc'[q] = pc[q],
         \A c \in Classes : Live(c)' => latest'[c] = latest[c],
         \A c \in Classes : Comes(c) /\ c # cmd[p].class /\ Live(c)' /\ Base(c)' = Base(c) => Comes(c)'
  PROVE  WinsInv'
<1>1. ShadowTrue' /\ \A c : Base(c)' = Base(c)
  BY DEF WinsInv, ShadowTrue, device, Base
<1>2. ASSUME faults = 0, NEW c \in Classes, Live(c)', ~InWork(c)' PROVE Comes(c)'
  <2>1. c # cmd[p].class
    BY <1>2 DEF InWork
  <2>2. Live(c) /\ ~InWork(c)
    BY <1>2, <2>1 DEF Live, InWork
  <2> QED BY <1>1, <1>2, <2>1, <2>2 DEF WinsInv, Decided
<1> QED BY <1>1, <1>2 DEF WinsInv, Decided

LEMMA SendFullWins ==
  ASSUME WinsInv, NEW p \in Producers, Send(p), ~Put(p) PROVE WinsInv'
<1>1. ServoTyped' /\ Typed
  BY EnqueueingTyped, TypeParts DEF WinsInv, ServoTyped, Enqueueing
<1>2. /\ Step(p, "send", "drain") /\ UNCHANGED <<queue, cmd, kept, last, serving, device, faults>>
      /\ latest' = IF Refilled(p) THEN [c \in Classes |-> "crossed"] ELSE latest
  BY DEF Send
<1>3. /\ pc[p] = "send" /\ pc'[p] = "drain" /\ \A q \in Producers : q # p => pc'[q] = pc[q]
  BY <1>1, <1>2, StepTyped DEF States
<1>4. ASSUME NEW c \in Classes, Live(c)' PROVE latest'[c] = latest[c] /\ ~Refilled(p)
  BY <1>2, <1>4, AllCrossed DEF Live
<1>5. Order'
  BY <1>2, <1>4, MovedOrder DEF States
<1>6. ASSUME NEW c \in Classes, Comes(c), Live(c)', Base(c)' = Base(c) PROVE Comes(c)'
  <2>1. \A q \in Producers : ~Refills(q)
    BY <1>3, <1>4, <1>6 DEF Refilled, Refills
  <2>2. Ends(queue, c, latest[c], Base(c)) /\ kept[p] = <<>>
    BY <1>6, <2>1 DEF Comes, Queued, WinsInv, Order, KeptEmpty
  <2>3. Ends(kept[p], c, Base(c), Base(c))
    BY <2>2, EndsEmpty
  <2>4. Drained(p, c)' /\ Refills(p)'
    BY <1>2, <1>3, <1>4, <1>6, <2>2, <2>3 DEF Drained, Refills
  <2>5. \A q \in Producers : q # p => ~Refills(q)'
    BY <1>3, <2>1 DEF Refills
  <2> QED BY <1>3, <2>4, <2>5 DEF Comes, Queued, Drained, Restored, Refills
<1> QED BY <1>1, <1>2, <1>3, <1>4, <1>5, <1>6, MovedWins

\* Two tasks in the loops over the queue: then nothing is known.
LEMMA Only ==
  ASSUME OneRefill, NEW p \in Producers, NEW c \in Classes, Live(c), Refills(p)
  PROVE  \A q \in Producers : q # p => ~Refills(q)
BY DEF OneRefill

LEMMA DrainWins == ASSUME WinsInv, NEW p \in Producers, Drain(p) PROVE WinsInv'
<1>1. ServoTyped' /\ Typed /\ latest \in Latests /\ OneRefill
  BY EnqueueingTyped, TypeParts DEF WinsInv, ServoTyped, Enqueueing, Order
<1>2. UNCHANGED <<cmd, last, serving, device, faults>> /\ pc[p] = "drain" /\ Refills(p)
  BY DEF Drain, Step, Refills
<1>3. CASE queue = <<>>
  <2>1. Step(p, "drain", "restore") /\ UNCHANGED <<queue, kept, latest>>
    BY <1>3 DEF Drain
  <2>2. pc'[p] = "restore" /\ \A q \in Producers : q # p => pc'[q] = pc[q]
    BY <1>1, <2>1, StepTyped DEF States
  <2>3. Order'
    BY <1>2, <2>1, MovedOrder DEF States
  <2>4. ASSUME NEW c \in Classes, Comes(c), Live(c)', Base(c)' = Base(c) PROVE Comes(c)'
    <3>1. \A q \in Producers : q # p => ~Refills(q)'
      BY <1>1, <1>2, <2>1, <2>2, <2>4, Only DEF Live, Refills
    <3>2. Ends(kept[p], c, latest[c], Base(c))
      BY <1>2, <1>3, <2>4, EndsEmpty DEF Comes, Drained
    <3>3. Ends(queue, c, Base(c), Base(c))
      BY <1>3, EndsEmpty
    <3>4. Restored(p, c)' /\ Refills(p)'
      BY <2>1, <2>2, <2>4, <3>2, <3>3 DEF Restored, Refills
    <3> QED BY <2>2, <3>1, <3>4 DEF Comes, Queued, Drained, Restored, Refills
  <2> QED BY <1>1, <1>2, <2>1, <2>2, <2>3, <2>4, MovedWins
<1>4. CASE queue # <<>>
  <2> DEFINE h == Head(queue)
  <2>1. Step(p, "drain", "drain") /\ queue' = Tail(queue) /\ h \in Commands /\ queue \in Seq(Commands)
    BY <1>1, <1>4, QueueShrinks DEF Drain, Typed
  <2>2. pc'[p] = "drain" /\ \A q \in Producers : q # p => pc'[q] = pc[q]
    BY <1>1, <2>1, StepTyped DEF States
  <2>3. \/ h.class = cmd[p].class /\ UNCHANGED <<kept, latest>>
        \/ h.class # cmd[p].class /\ kept' = [kept EXCEPT ![p] = Append(@, h)] /\ UNCHANGED latest
        \/ h.class # cmd[p].class /\ Lose(p, h) /\ UNCHANGED kept
    BY <1>4 DEF Drain, Supersedes
  <2>4. \A c \in Classes : Live(c)' => latest'[c] = latest[c]
    BY <1>1, <2>1, <2>3, Loses DEF Live
  <2>5. kept \in [Producers -> Seq(Commands)] /\ \A q \in Producers : q # p => kept'[q] = kept[q]
    BY <1>1, <2>3 DEF Typed
  <2>6. Order'
    BY <1>2, <2>1, <2>4, <2>5, MovedOrder DEF States
  <2>7. ASSUME NEW c \in Classes, Comes(c), c # cmd[p].class, Live(c)', Base(c)' = Base(c)
        PROVE  Comes(c)'
    <3>1. latest'[c] = latest[c] /\ Live(c)
      BY <2>4, <2>7 DEF Live
    <3>2. \A q \in Producers : q # p => ~Refills(q)'
      BY <1>1, <1>2, <2>2, <3>1, Only DEF Refills
    <3>3. PICK w : Ends(kept[p], c, w, Base(c)) /\ Ends(queue, c, latest[c], w)
      BY <1>2, <2>7 DEF Comes, Drained
    <3>4. Ends(queue', c, latest[c], IF h.class = c THEN h.value ELSE w)
      BY <1>4, <2>1, <3>3, EndsTail
    <3>5. CASE \/ h.class = cmd[p].class /\ UNCHANGED <<kept, latest>>
               \/ h.class # cmd[p].class /\ Lose(p, h) /\ UNCHANGED kept
      <4>1. h.class # c
        BY <1>1, <2>1, <2>7, <3>5, Loses DEF Live
      <4>2. Drained(p, c)'
        BY <2>7, <3>1, <3>3, <3>4, <3>5, <4>1 DEF Drained
      <4> QED BY <2>2, <3>2, <4>2 DEF Comes, Queued, Drained, Restored, Refills
    <3>6. CASE kept' = [kept EXCEPT ![p] = Append(@, h)]
      <4>1. kept[p] \in Seq(Commands) /\ kept'[p] = Append(kept[p], h)
        BY <2>5, <3>6
      <4>2. Ends(kept'[p], c, IF h.class = c THEN h.value ELSE w, Base(c))
        BY <2>1, <3>3, <4>1, EndsAppend
      <4>3. Drained(p, c)'
        BY <2>7, <3>1, <3>4, <4>2 DEF Drained
      <4> QED BY <2>2, <3>2, <4>3 DEF Comes, Queued, Drained, Restored, Refills
    <3> QED BY <2>3, <3>5, <3>6
  <2> QED BY <1>1, <1>2, <2>2, <2>4, <2>6, <2>7, MovedWins
<1> QED BY <1>3, <1>4

LEMMA RestoreWins == ASSUME WinsInv, NEW p \in Producers, Restore(p) PROVE WinsInv'
<1>1. ServoTyped' /\ Typed /\ latest \in Latests /\ OneRefill
  BY EnqueueingTyped, TypeParts DEF WinsInv, ServoTyped, Enqueueing, Order
<1>2. UNCHANGED <<cmd, last, serving, device, faults>> /\ pc[p] = "restore" /\ Refills(p)
  BY DEF Restore, Step, Refills
<1>3. CASE kept[p] = <<>>
  <2>1. Step(p, "restore", "settle") /\ UNCHANGED <<queue, kept, latest>>
    BY <1>3 DEF Restore
  <2>2. pc'[p] = "settle" /\ \A q \in Producers : q # p => pc'[q] = pc[q]
    BY <1>1, <2>1, StepTyped DEF States
  <2>3. Order'
    BY <1>2, <1>3, <2>1, MovedOrder DEF States
  <2>4. ASSUME NEW c \in Classes, Comes(c), Live(c)', Base(c)' = Base(c) PROVE Comes(c)'
    <3>1. \A q \in Producers : ~Refills(q)'
      BY <1>1, <1>2, <2>1, <2>2, <2>4, Only DEF Live, Refills
    <3>2. Ends(queue, c, latest[c], Base(c))
      BY <1>2, <1>3, <2>4, EndsEmpty DEF Comes, Restored
    <3> QED BY <2>1, <2>4, <3>1, <3>2 DEF Comes, Queued, Drained, Restored, Refills
  <2> QED BY <1>1, <1>2, <2>1, <2>2, <2>3, <2>4, MovedWins
<1>4. CASE kept[p] # <<>>
  <2> DEFINE h == Head(kept[p])
  <2>1. /\ Step(p, "restore", "restore") /\ kept' = [kept EXCEPT ![p] = Tail(@)]
        /\ kept[p] \in Seq(Commands) /\ h \in Commands /\ kept'[p] = Tail(kept[p])
        /\ \A q \in Producers : q # p => kept'[q] = kept[q]
    BY <1>1, <1>4, QueueShrinks DEF Restore, Typed
  <2>2. pc'[p] = "restore" /\ \A q \in Producers : q # p => pc'[q] = pc[q]
    BY <1>1, <2>1, StepTyped DEF States
  <2>3. \/ queue' = Append(queue, h) /\ UNCHANGED latest
        \/ UNCHANGED queue /\ Lose(p, h)
    BY <1>4 DEF Restore
  <2>4. \A c \in Classes : Live(c)' => latest'[c] = latest[c]
    BY <1>1, <2>1, <2>3, Loses DEF Live
  <2>5. Order'
    BY <1>2, <2>1, <2>4, MovedOrder DEF States
  <2>6. ASSUME NEW c \in Classes, Comes(c), Live(c)', Base(c)' = Base(c) PROVE Comes(c)'
    <3>1. latest'[c] = latest[c] /\ Live(c)
      BY <2>4, <2>6 DEF Live
    <3>2. \A q \in Producers : q # p => ~Refills(q)'
      BY <1>1, <1>2, <2>2, <3>1, Only DEF Refills
    <3>3. PICK w : Ends(queue, c, w, Base(c)) /\ Ends(kept[p], c, latest[c], w)
      BY <1>2, <2>6 DEF Comes, Restored
    <3> DEFINE u == IF h.class = c THEN h.value ELSE w
    <3>4. Ends(kept'[p], c, latest[c], u)
      BY <1>4, <2>1, <3>3, EndsTail
    <3>5. Ends(queue', c, u, Base(c))
      <4>1. CASE queue' = Append(queue, h)
        BY <1>1, <2>1, <3>3, <4>1, EndsAppend DEF Typed
      <4>2. CASE UNCHANGED queue /\ Lose(p, h)
        <5>1. h.class # c
          BY <1>1, <2>1, <2>6, <4>2, Loses DEF Live
        <5> QED BY <3>3, <4>2, <5>1
      <4> QED BY <2>3, <4>1, <4>2
    <3>6. Restored(p, c)' /\ Refills(p)'
      BY <2>2, <2>6, <3>1, <3>4, <3>5 DEF Restored, Refills
    <3> QED BY <2>2, <3>2, <3>6 DEF Comes, Queued, Drained, Restored, Refills
  <2> QED BY <1>1, <1>2, <2>2, <2>4, <2>5, <2>6, MovedWins
<1> QED BY <1>3, <1>4

LEMMA SettleFullWins ==
  ASSUME WinsInv, NEW p \in Producers, Settle(p), ~Put(p) PROVE WinsInv'
<1>1. ServoTyped' /\ Typed /\ KeptEmpty
  BY EnqueueingTyped, TypeParts DEF WinsInv, ServoTyped, Enqueueing, Order
<1>2. Step(p, "settle", "drop") /\ UNCHANGED <<queue, cmd, kept, last, serving, device, faults, latest>>
  BY DEF Settle
<1>3. /\ pc[p] = "settle" /\ pc'[p] = "drop" /\ \A q \in Producers : q # p => pc'[q] = pc[q]
      /\ kept[p] = <<>>
  BY <1>1, <1>2, StepTyped DEF States, KeptEmpty, Refills
<1>4. Order'
  BY <1>2, <1>3, MovedOrder DEF States
<1>5. ASSUME NEW c \in Classes, Comes(c), Base(c)' = Base(c) PROVE Comes(c)'
  BY <1>2, <1>3, <1>5, ComesStays
<1> QED BY <1>1, <1>2, <1>3, <1>4, <1>5, MovedWins

LEMMA DropWins ==
  ASSUME WinsInv, NEW p \in Producers, DropOldest(p), ~GiveUp(p, "drop") PROVE WinsInv'
<1>1. ServoTyped' /\ Typed /\ latest \in Latests /\ KeptEmpty
  BY EnqueueingTyped, TypeParts DEF WinsInv, ServoTyped, Enqueueing, Order
<1> DEFINE h == Head(queue)
<1>2. /\ queue # <<>> /\ Step(p, "drop", "retry") /\ queue' = Tail(queue) /\ Lose(p, h)
      /\ UNCHANGED <<cmd, kept, last, serving, device, faults>>
  BY DEF DropOldest
<1>3. queue \in Seq(Commands) /\ h \in Commands
  BY <1>1, <1>2, QueueShrinks DEF Typed
<1>4. /\ pc[p] = "drop" /\ pc'[p] = "retry" /\ \A q \in Producers : q # p => pc'[q] = pc[q]
      /\ kept[p] = <<>>
  BY <1>1, <1>2, StepTyped DEF States, KeptEmpty, Refills
<1>5. \A c \in Classes : Live(c)' => c # h.class /\ latest'[c] = latest[c]
  BY <1>1, <1>2, <1>3, Loses DEF Live
<1>6. Order'
  BY <1>2, <1>4, <1>5, MovedOrder DEF States
<1>7. ASSUME NEW c \in Classes, Comes(c), Live(c)', Base(c)' = Base(c) PROVE Comes(c)'
  <2>1. c # h.class /\ latest'[c] = latest[c]
    BY <1>5, <1>7
  <2>2. \A v, d : Ends(queue, c, v, d) => Ends(queue', c, v, d)
    BY <1>2, <1>3, <2>1, EndsTail
  <2> QED BY <1>2, <1>4, <1>7, <2>1, <2>2, ComesStays
<1> QED BY <1>1, <1>2, <1>4, <1>5, <1>6, <1>7, MovedWins

-----------------------------------------------------------------------------
\* The new command goes in, is given up, or is noted.

LEMMA PutWins ==
  ASSUME WinsInv, NEW p \in Producers, NEW from \in {"send", "settle", "retry"}, Step(p, from, "note"),
         Put(p), UNCHANGED <<cmd, kept, last, serving, device, faults>>, ServoTyped'
  PROVE  WinsInv'
<1> DEFINE x == cmd[p].class
<1>1. Typed /\ latest \in Latests /\ Hands /\ KeptEmpty /\ OneRefill /\ LastHolds
  BY TypeParts DEF WinsInv, ServoTyped, Order
<1>2. pc[p] = from /\ pc'[p] = "note" /\ \A q \in Producers : q # p => pc'[q] = pc[q]
  BY <1>1, StepTyped DEF States
<1>3. cmd[p] \in Commands /\ x \in Classes /\ queue \in Seq(Commands)
  BY <1>1, <1>2, CommandTyped DEF Hands, Typed
<1>4. /\ queue' = Append(queue, cmd[p])
      /\ \A c \in Classes : c # x => latest'[c] = latest[c]
      /\ Live(x)' => ~Alongside(p, x) /\ ~Refilled(p) /\ latest'[x] = cmd[p].value
  BY <1>1, <1>3, Puts DEF Live
<1>5. ShadowTrue' /\ \A c : Base(c)' = Base(c)
  BY DEF WinsInv, ShadowTrue, device, Base
<1>6. \A q \in Producers : Refills(q)' <=> Refills(q)
  BY <1>2 DEF Refills
<1>7. KeptEmpty'
  BY <1>1, <1>6 DEF KeptEmpty
<1>8. OneRefill'
  <2> SUFFICES ASSUME NEW q \in Producers, NEW r \in Producers, NEW c \in Classes,
                      Refills(q)', Refills(r)', Live(c)'
               PROVE  q = r
    BY DEF OneRefill
  <2>1. CASE c # x
    BY <1>1, <1>4, <1>6, <2>1 DEF OneRefill, Live
  <2>2. CASE c = x
    BY <1>2, <1>4, <1>6, <2>2 DEF Refilled, Refills
  <2> QED BY <2>1, <2>2
<1>9. LastHolds'
  <2> SUFFICES ASSUME NEW c \in Classes, Live(c)' PROVE Noted(c)' /\ Noting(c)'
    BY DEF LastHolds
  <2>1. CASE c # x
    <3>1. Noted(c) /\ Noting(c) /\ latest'[c] = latest[c]
      BY <1>1, <1>4, <2>1 DEF LastHolds, Live
    <3> QED BY <1>2, <2>1, <3>1 DEF Noted, Noting
  <2>2. CASE c = x
    <3>1. \A q \in Producers : q # p => ~(pc'[q] # "idle" /\ cmd'[q].class = x)
      BY <1>2, <1>4, <2>2 DEF Alongside
    <3>2. Noting(c)'
      BY <1>4, <2>2, <3>1 DEF Noting
    <3>3. Noted(c)'
      BY <1>2, <2>2 DEF Noted
    <3> QED BY <3>2, <3>3
  <2> QED BY <2>1, <2>2
<1>10. ASSUME faults = 0, NEW c \in Classes, Live(c)', ~InWork(c)' PROVE Comes(c)'
  <2>1. CASE c # x
    <3>1. Live(c) /\ latest'[c] = latest[c] /\ ~InWork(c)
      BY <1>2, <1>4, <1>10, <2>1 DEF Live, InWork
    <3>2. Comes(c)
      BY <1>10, <3>1 DEF WinsInv, Decided
    <3>3. \A v, d : Ends(queue, c, v, d) => Ends(queue', c, v, d)
      BY <1>3, <1>4, <2>1, EndsAppend
    <3> QED BY <1>2, <1>5, <3>1, <3>2, <3>3, ComesStays
  <2>2. CASE c = x
    <3>1. \A q \in Producers : ~Refills(q)'
      BY <1>2, <1>4, <1>10, <2>2 DEF Refilled, Refills
    <3>2. Ends(queue', c, latest'[c], Base(c)')
      BY <1>3, <1>4, <1>10, <2>2, EndsAppend
    <3> QED BY <3>1, <3>2 DEF Comes, Queued, Drained, Restored, Refills
  <2> QED BY <2>1, <2>2
<1> QED BY <1>5, <1>7, <1>8, <1>9, <1>10 DEF WinsInv, Order, Decided

\* A task leaves that has the loops over the queue behind it.
LEMMA LeaveWins ==
  ASSUME WinsInv, NEW p \in Producers, NEW from \in {"drop", "retry", "note"}, Finish(p, from),
         UNCHANGED <<kept, queue, serving, device, faults>>, ServoTyped', LastHolds',
         \A c \in Classes : Live(c)' => latest'[c] = latest[c],
         from = "note" \/ latest'[cmd[p].class] \in Gone
  PROVE  WinsInv'
<1>1. Typed /\ KeptEmpty /\ OneRefill
  BY TypeParts DEF WinsInv, ServoTyped, Order
<1>2. /\ pc[p] = from /\ pc'[p] = "idle"
      /\ \A q \in Producers : q # p => pc'[q] = pc[q] /\ cmd'[q] = cmd[q]
  BY <1>1 DEF Finish, Step, Typed
<1>3. ShadowTrue' /\ \A c : Base(c)' = Base(c)
  BY DEF WinsInv, ShadowTrue, device, Base
<1>4. KeptEmpty' /\ OneRefill'
  BY <1>1, <1>2 DEF KeptEmpty, OneRefill, Refills, Live
<1>5. ASSUME faults = 0, NEW c \in Classes, Live(c)', ~InWork(c)' PROVE Comes(c)'
  <2>1. Live(c) /\ latest'[c] = latest[c]
    BY <1>5 DEF Live
  <2>2. ~InWork(c)
    BY <1>2, <1>5 DEF InWork, Live
  <2>3. Comes(c)
    BY <1>5, <2>1, <2>2 DEF WinsInv, Decided
  <2> QED BY <1>2, <1>3, <2>1, <2>3, ComesStays
<1> QED BY <1>3, <1>4, <1>5 DEF WinsInv, Order, Decided

LEMMA GiveUpWins ==
  ASSUME WinsInv, NEW p \in Producers, NEW from \in {"drop", "retry"}, GiveUp(p, from),
         UNCHANGED <<kept, last, serving, device, faults>>, ServoTyped'
  PROVE  WinsInv'
<1>1. Typed /\ latest \in Latests /\ Hands /\ LastHolds
  BY TypeParts DEF WinsInv, ServoTyped, Order
<1>2. /\ pc[p] = from /\ pc'[p] = "idle" /\ Finish(p, from) /\ UNCHANGED queue
      /\ \A q \in Producers : q # p => pc'[q] = pc[q] /\ cmd'[q] = cmd[q]
  BY <1>1 DEF GiveUp, Finish, Step, Typed
<1>3. cmd[p] \in Commands
  BY <1>1, <1>2 DEF Hands
<1>4. /\ \A c \in Classes : Live(c)' => c # cmd[p].class /\ latest'[c] = latest[c]
      /\ latest'[cmd[p].class] \in Gone
  BY <1>1, <1>3, Loses DEF Live, GiveUp
<1>5. LastHolds'
  <2> SUFFICES ASSUME NEW c \in Classes, Live(c)' PROVE Noted(c)' /\ Noting(c)'
    BY DEF LastHolds
  <2>1. c # cmd[p].class /\ latest'[c] = latest[c] /\ Noted(c) /\ Noting(c)
    BY <1>1, <1>4 DEF LastHolds, Live
  <2> QED BY <1>2, <2>1 DEF Noted, Noting
<1> QED BY <1>2, <1>4, <1>5, LeaveWins

LEMMA NoteWins == ASSUME WinsInv, NEW p \in Producers, NoteLast(p) PROVE WinsInv'
<1>1. ServoTyped' /\ Typed /\ LastHolds
  BY EnqueueingTyped, TypeParts DEF WinsInv, ServoTyped, Enqueueing, Order
<1>2. /\ pc[p] = "note" /\ pc'[p] = "idle" /\ Finish(p, "note") /\ last' = cmd[p] /\ UNCHANGED latest
      /\ \A q \in Producers : q # p => pc'[q] = pc[q] /\ cmd'[q] = cmd[q]
  BY <1>1 DEF NoteLast, Finish, Step, Typed
<1>3. LastHolds'
  <2> SUFFICES ASSUME NEW c \in Classes, Live(c)' PROVE Noted(c)' /\ Noting(c)'
    BY DEF LastHolds
  <2>1. Noting(c)
    BY <1>1, <1>2 DEF LastHolds, Live
  <2> QED BY <1>2, <2>1 DEF Noted, Noting
<1> QED BY <1>1, <1>2, <1>3, LeaveWins DEF NoteLast

LEMMA EnqueueingWins == ASSUME WinsInv, NEW p \in Producers, Enqueueing(p) PROVE WinsInv'
<1>0. Len(queue) \in Nat /\ QueueCap \in Nat
  BY ServoOutputAssumption DEF WinsInv, ServoTyped, TypeOK
<1>1. ServoTyped'
  BY EnqueueingTyped DEF WinsInv
<1>2. CASE Send(p)
  <2>1. CASE Put(p)
    <3>1. Step(p, "send", "note") /\ UNCHANGED cmd
      BY <1>0, <1>2, <2>1 DEF Send, Put
    <3> QED BY <1>1, <1>2, <2>1, <3>1, PutWins DEF Send
  <2> QED BY <1>2, <2>1, SendFullWins
<1>3. CASE Settle(p)
  <2>1. CASE Put(p)
    <3>1. Step(p, "settle", "note") /\ UNCHANGED cmd
      BY <1>0, <1>3, <2>1 DEF Settle, Put
    <3> QED BY <1>1, <1>3, <2>1, <3>1, PutWins DEF Settle
  <2> QED BY <1>3, <2>1, SettleFullWins
<1>4. CASE DropOldest(p)
  <2>1. CASE GiveUp(p, "drop")
    BY <1>1, <1>4, <2>1, GiveUpWins DEF DropOldest
  <2> QED BY <1>4, <2>1, DropWins
<1>5. CASE Retry(p)
  <2>1. CASE Put(p)
    <3>1. Step(p, "retry", "note") /\ UNCHANGED cmd
      BY <1>0, <1>5, <2>1 DEF Retry, Put
    <3> QED BY <1>1, <1>5, <2>1, <3>1, PutWins DEF Retry
  <2>2. CASE GiveUp(p, "retry")
    BY <1>1, <1>5, <2>2, GiveUpWins DEF Retry
  <2> QED BY <1>5, <2>1, <2>2 DEF Retry
<1> QED BY <1>2, <1>3, <1>4, <1>5, DrainWins, RestoreWins, NoteWins DEF Enqueueing

LEMMA WinsStep == WinsInv /\ [Next]_vars => WinsInv'
<1> SUFFICES ASSUME WinsInv, [Next]_vars PROVE WinsInv'
  OBVIOUS
<1>1. CASE UNCHANGED vars
  <2>1. Idle /\ motor' \in BOOLEAN /\ lock' \in BOOLEAN
    BY <1>1, TypeParts DEF vars, Idle, WinsInv, ServoTyped, Typed
  <2> QED BY <2>1, OutsideWins DEF Outside
<1>2. CASE Next
  BY <1>2, NextParts, OutsideWins, ServoWins, EnqueueingWins DEF WinsInv, ServoTyped
<1> QED BY <1>1, <1>2

\* As long as no write fails, the chip does what was last asked of each class once the
\* queue has been worked off, unless a full queue dropped that or it crossed another
\* command there: for a queue of any length, whichever tasks meet in the queue code, and
\* wherever the servo task takes a command from under their hands.
THEOREM LastCommandWins == Spec => []LatestWins
<1>1. WinsInv => LatestWins
  <2> SUFFICES ASSUME WinsInv, Quiet, faults = 0, NEW c \in DOMAIN chip, Live(c)
               PROVE  latest[c] = chip[c]
    BY DEF LatestWins, Live
  <2>1. c \in Classes
    BY TypeParts DEF WinsInv, ServoTyped, DeviceTyped, Outputs, Classes
  <2>2. ~InWork(c) /\ \A p \in Producers : ~Refills(p)
    BY DEF Quiet, InWork, Refills
  <2>3. Ends(queue, c, latest[c], Base(c))
    BY <2>1, <2>2 DEF WinsInv, Decided, Comes, Queued
  <2>4. Base(c) = chip[c]
    BY <2>1 DEF Quiet, Base, NoCommand, Classes
  <2> QED BY <2>3, <2>4, EndsEmpty DEF Quiet
<1> QED BY <1>1, WinsInit, WinsStep, PTL DEF Spec
=============================================================================
