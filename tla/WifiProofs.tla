------------------------------ MODULE WifiProofs ------------------------------
(***************************************************************************)
(* Theorems about the Wi-Fi manager, for any networks, any limit of        *)
(* retries, any number of users' calls and of faults, and events of the    *)
(* driver as late as they may be.                                          *)
(***************************************************************************)
EXTENDS WifiProperties, TLAPS

USE WifiManagerAssumption

\* The records of TypeOK, by name.
Scans == [purpose : {"none", "bootstrap", "manual"}, started : BOOLEAN,
          done : BOOLEAN, boot : BOOLEAN, manual : BOOLEAN, found : SUBSET Networks]
Nets == [candidate : SomeNetwork, test : SomeNetwork, lastGood : SomeNetwork,
         saved : SomeNetwork,
         stored : SomeNetwork, failed : SomeNetwork, chosen : BOOLEAN]
Conns == [retry : BOOLEAN, retries : 0..RetryLimit, comeback : BOOLEAN,
          lost : BOOLEAN, reason : Reasons \cup {"none", "refused"}]
Hotspots == [on : BOOLEAN, grace : BOOLEAN]
Radios == [sta : BOOLEAN, link : {"off", "joining", "joined"}, to : SomeNetwork,
           scanning : BOOLEAN, up : SUBSET Networks]
Events == Reasons \cup {"scan"}
Phases == {"bootstrap", "connecting", "connected", "fallback", "success", "failure"}

\* What a step of any party must keep, and the bounds, which only two kinds of step touch.
StateTyped ==
  /\ mode \in {"auto", "hotspot", "off"} /\ phase \in Phases
  /\ scan \in Scans /\ net \in Nets /\ conn \in Conns /\ ap \in Hotspots
  /\ lock \in BOOLEAN /\ timers \subseteq Timers /\ step \in {"scan", "phase"}
  /\ joining \in [Parties -> SomeNetwork] /\ radio \in Radios /\ events \in Seq(Events)
BoundsTyped == commands \in 0..MaxCommands + 1 /\ faults \in 0..MaxFaults

LEMMA TypeParts ==
  /\ TypeOK <=> StateTyped /\ BoundsTyped
  /\ TypeOK' <=> StateTyped' /\ BoundsTyped'
BY DEF TypeOK, StateTyped, BoundsTyped, Scans, Nets, Conns, Hotspots, Radios, Events, Phases

LEMMA LimitsTyped == RetryLimit \in Nat /\ MaxCommands \in Nat /\ MaxFaults \in Nat
OBVIOUS

LEMMA InitTyped == Init => TypeOK
<1> SUFFICES ASSUME Init PROVE StateTyped /\ BoundsTyped
  BY TypeParts
<1>1. /\ scan \in Scans /\ net \in Nets /\ conn \in Conns /\ ap \in Hotspots
      /\ joining \in [Parties -> SomeNetwork] /\ radio \in Radios
  BY DEF Init, Scans, Nets, Conns, Hotspots, Radios, SomeNetwork, Reasons
<1>2. BoundsTyped
  BY LimitsTyped DEF Init, BoundsTyped
<1>3. events \in Seq(Events)
  BY DEF Init
<1> QED BY <1>1, <1>2, <1>3 DEF Init, StateTyped, Phases, Timers

LEMMA StutterTyped == TypeOK /\ UNCHANGED vars => TypeOK'
BY DEF TypeOK, vars

-----------------------------------------------------------------------------
\* The calls of the driver.

LEMMA EventsTyped ==
  ASSUME StateTyped
  PROVE  /\ AfterDisconnect \in Seq(Events)
         /\ \A evs \in Seq(Events) : AfterScanStop(evs) \in Seq(Events)
         /\ LinkOff \in Radios
<1>1. "other" \in Events /\ "scan" \in Events /\ events \in Seq(Events)
  BY DEF StateTyped, Events, Reasons
<1>2. ASSUME NEW evs \in Seq(Events), NEW e \in Events PROVE Append(evs, e) \in Seq(Events)
  OBVIOUS
<1>3. AfterDisconnect \in Seq(Events)
  BY <1>1, <1>2 DEF AfterDisconnect
<1>4. \A evs \in Seq(Events) : AfterScanStop(evs) \in Seq(Events)
  BY <1>1, <1>2 DEF AfterScanStop
<1>5. LinkOff \in Radios
  BY DEF LinkOff, StateTyped, Radios, SomeNetwork
<1> QED BY <1>3, <1>4, <1>5

LEMMA FaultTyped == BoundsTyped /\ FaultOccurs => faults' \in 0..MaxFaults
BY LimitsTyped DEF BoundsTyped, FaultOccurs

LEMMA HotspotTyped ==
  ASSUME StateTyped
  PROVE  ApStarted \in Hotspots /\ ApEnding \in Hotspots /\ StaAfterAp \in BOOLEAN
BY DEF StateTyped, ApStarted, ApEnding, StaAfterAp, Hotspots, Radios

LEMMA StartApTyped == StateTyped /\ StartAp => ap' \in Hotspots /\ radio' \in Radios
BY HotspotTyped DEF StartAp, StateTyped, Radios

LEMMA BeginTyped ==
  ASSUME StateTyped, NEW who \in Parties, NEW network \in SomeNetwork,
         NEW hotspot \in BOOLEAN, NEW retries \in 0..RetryLimit,
         Begin(who, network, hotspot, retries)
  PROVE  /\ joining' \in [Parties -> SomeNetwork] /\ lock' \in BOOLEAN /\ conn' \in Conns
         /\ timers' \subseteq Timers /\ ap' \in Hotspots /\ radio' \in Radios
         /\ events' \in Seq(Events)
<1>1. joining' \in [Parties -> SomeNetwork] /\ lock' \in BOOLEAN
  BY DEF Begin, StateTyped
<1>2. conn' \in Conns
  BY DEF Begin, Conns
<1>3. timers' \subseteq Timers /\ ap' \in Hotspots
  BY DEF Begin, StateTyped, Timers, Hotspots
<1>4. radio' \in Radios /\ events' \in Seq(Events)
  BY EventsTyped DEF Begin, StateTyped, Radios
<1> QED BY <1>1, <1>2, <1>3, <1>4

LEMMA ConnectTyped ==
  ASSUME TypeOK, NEW who \in Parties, Connect(who) PROVE TypeOK'
<1>1. StateTyped /\ BoundsTyped
  BY TypeParts
<1>2. /\ joining' \in [Parties -> SomeNetwork] /\ joining[who] \in SomeNetwork
      /\ UNCHANGED <<mode, scan, net, ap, timers, step, commands>>
  BY <1>1 DEF Connect, StateTyped, SomeNetwork
<1>3. CASE ConnectAccepted(who)
  <2>1. radio' \in Radios
    BY <1>1, <1>2, <1>3 DEF ConnectAccepted, StateTyped, Radios
  <2>2. StateTyped'
    BY <1>1, <1>2, <1>3, <2>1, EventsTyped DEF ConnectAccepted, StateTyped, Phases
  <2>3. BoundsTyped'
    BY <1>1, <1>2, <1>3 DEF ConnectAccepted, BoundsTyped
  <2>4. QED
    BY <2>2, <2>3, TypeParts
<1>4. CASE ConnectRefused
  <2>1. conn' \in Conns
    BY <1>1, <1>4 DEF ConnectRefused, StateTyped, Conns
  <2>2. StateTyped'
    BY <1>1, <1>2, <1>4, <2>1 DEF ConnectRefused, Unlock, StateTyped
  <2>3. BoundsTyped'
    BY <1>1, <1>2, <1>4, FaultTyped DEF ConnectRefused, BoundsTyped
  <2>4. QED
    BY <2>2, <2>3, TypeParts
<1> QED BY <1>3, <1>4 DEF Connect

-----------------------------------------------------------------------------
\* service_scan.

LEMMA StartScanTyped ==
  ASSUME StateTyped, NEW purpose \in {"bootstrap", "manual"}, StartScan(purpose)
  PROVE  scan' \in Scans /\ radio' \in Radios /\ timers' \subseteq Timers
<1>1. CASE UNCHANGED <<scan, radio, timers>>
  BY <1>1 DEF StateTyped
<1>2. CASE /\ scan' = [scan EXCEPT !.purpose = purpose, !.started = TRUE, !.done = FALSE,
                               !.manual = @ /\ purpose # "manual",
                               !.boot = @ /\ purpose # "bootstrap"]
           /\ radio' = [radio EXCEPT !.scanning = TRUE]
           /\ timers' = timers \cup {"scan"}
  <2>1. scan' \in Scans
    BY <1>2 DEF StateTyped, Scans
  <2>2. radio' \in Radios
    BY <1>2 DEF StateTyped, Radios
  <2>3. timers' \subseteq Timers
    BY <1>2 DEF StateTyped, Timers
  <2>4. QED
    BY <2>1, <2>2, <2>3
<1> QED BY <1>1, <1>2 DEF StartScan

LEMMA ServiceScanTyped ==
  ASSUME StateTyped, ServiceScan,
         mode' \in {"auto", "hotspot", "off"}, step' \in {"scan", "phase"}
  PROVE  StateTyped'
<1>1. CASE ScanIdle
  <2>1. CASE UNCHANGED <<scan, radio, timers>>
    BY <1>1, <2>1 DEF ScanIdle, StateTyped
  <2>2. CASE ScanWanted # "none" /\ StartScan(ScanWanted)
    <3>1. ScanWanted \in {"bootstrap", "manual"}
      BY <2>2 DEF ScanWanted
    <3>2. scan' \in Scans /\ radio' \in Radios /\ timers' \subseteq Timers
      BY <2>2, <3>1, StartScanTyped
    <3>3. QED
      BY <1>1, <3>2 DEF ScanIdle, StateTyped
  <2>3. QED
    BY <1>1, <2>1, <2>2 DEF ScanIdle
<1>2. CASE ScanRuns
  BY <1>2 DEF ScanRuns, StateTyped
<1>3. CASE ScanTimesOut
  <2>1. scan' \in Scans
    BY <1>3 DEF ScanTimesOut, StateTyped, Scans
  <2>2. radio' \in Radios
    BY <1>3, HotspotTyped DEF ScanTimesOut, StateTyped, Radios
  <2>3. QED
    BY <1>3, <2>1, <2>2, EventsTyped, HotspotTyped DEF ScanTimesOut, StateTyped, Phases
<1>4. CASE ScanDone
  <2>1. Results \in Scans /\ [Results EXCEPT !.boot = FALSE] \in Scans
        /\ [Results EXCEPT !.boot = TRUE] \in Scans
    BY DEF Results, StateTyped, Scans
  <2>2. CASE /\ scan' \in Scans
             /\ UNCHANGED <<phase, net, conn, ap, lock, timers, joining, radio, events>>
    BY <2>2 DEF StateTyped
  <2>3. ASSUME NEW n \in Choices, scan' \in Scans, UNCHANGED phase,
               net' = [net EXCEPT !.candidate = n, !.chosen = @ \/ net.failed # None],
               Begin("task", n, FALSE, conn.retries)
        PROVE  StateTyped'
    <3>1. n \in SomeNetwork
      BY DEF Choices, StateTyped, Nets, SomeNetwork
    <3>2. net' \in Nets /\ conn.retries \in 0..RetryLimit
      BY <2>3, <3>1 DEF StateTyped, Nets, Conns
    <3>3. QED
      BY <2>3, <3>1, <3>2, BeginTyped DEF StateTyped, Parties
  <2>4. CASE /\ scan' \in Scans
             /\ net' = [net EXCEPT !.candidate = None, !.chosen = @ \/ net.failed # None]
             /\ phase' = "fallback" /\ StartAp
             /\ UNCHANGED <<conn, lock, timers, joining, events>>
    <3>1. net' \in Nets
      BY <2>4 DEF StateTyped, Nets, SomeNetwork
    <3>2. QED
      BY <2>4, <3>1, StartApTyped DEF StateTyped, Phases
  <2>5. QED
    BY <1>4, <2>1, <2>2, <2>3, <2>4 DEF ScanDone
<1> QED BY <1>1, <1>2, <1>3, <1>4 DEF ServiceScan

LEMMA TaskScanTyped == TypeOK /\ (TaskScan \/ TaskHotspot) => TypeOK'
<1> SUFFICES ASSUME StateTyped, BoundsTyped, TaskScan \/ TaskHotspot
             PROVE  StateTyped' /\ BoundsTyped'
  BY TypeParts
<1>1. /\ UNCHANGED <<mode, commands, faults>> /\ step' \in {"scan", "phase"}
      /\ mode' \in {"auto", "hotspot", "off"}
  BY DEF TaskScan, TaskHotspot, StateTyped
<1>2. CASE ServiceScan
  BY <1>1, <1>2, ServiceScanTyped DEF BoundsTyped
<1>3. CASE StartAp /\ UNCHANGED <<phase, scan, net, conn, lock, timers, joining, events>>
  BY <1>1, <1>3, StartApTyped DEF StateTyped, BoundsTyped
<1> QED BY <1>2, <1>3 DEF TaskScan, TaskHotspot

-----------------------------------------------------------------------------
\* The rest of the pass, by phase.

LEMMA FailureTyped ==
  ASSUME StateTyped, AttemptFails
  PROVE  /\ lock' \in BOOLEAN /\ net' \in Nets /\ timers' \subseteq Timers /\ scan' \in Scans
         /\ phase' \in Phases /\ ap' \in Hotspots /\ radio' \in Radios
         /\ UNCHANGED <<joining, events>>
<1>1. lock' \in BOOLEAN /\ UNCHANGED <<joining, events>>
  BY DEF AttemptFails, Unlock
<1>2. CASE /\ net' = IF net.candidate = None THEN net
                     ELSE [net EXCEPT !.failed = net.candidate, !.chosen = FALSE]
           /\ timers' = TimersOfFailure
           /\ scan' = [scan EXCEPT !.boot = TRUE] /\ phase' = "fallback" /\ StartAp
  <2>1. net' \in Nets
    BY <1>2 DEF StateTyped, Nets
  <2>2. timers' \subseteq Timers
    BY <1>2 DEF StateTyped, TimersOfFailure, Timers
  <2>3. scan' \in Scans
    BY <1>2 DEF StateTyped, Scans
  <2>4. QED
    BY <1>1, <1>2, <2>1, <2>2, <2>3, StartApTyped DEF Phases
<1>3. CASE phase' = "failure" /\ UNCHANGED <<net, timers, scan, ap, radio>>
  BY <1>1, <1>3 DEF StateTyped, Phases
<1> QED BY <1>2, <1>3 DEF AttemptFails

\* Of the counter of retries only MayRetry keeps RetryLimit.
LEMMA HeardTyped ==
  ASSUME StateTyped
  PROVE  /\ Heard \in Conns /\ [Heard EXCEPT !.retries = 0] \in Conns
         /\ [Heard EXCEPT !.comeback = FALSE] \in Conns
         /\ MayRetry => [Heard EXCEPT !.comeback = FALSE, !.retry = TRUE, !.retries = @ + 1]
                          \in Conns
<1>1. conn \in Conns /\ conn.retries \in 0..RetryLimit
  BY DEF StateTyped, Conns
<1>2. Heard \in Conns /\ Heard.retries = conn.retries
  BY <1>1 DEF Heard, Conns
<1>3. 0 \in 0..RetryLimit /\ (MayRetry => conn.retries + 1 \in 0..RetryLimit)
  BY <1>1, LimitsTyped DEF MayRetry
<1> QED BY <1>2, <1>3 DEF Conns

LEMMA ConnectingTyped ==
  ASSUME StateTyped, ServiceConnecting, mode' = mode, step' \in {"scan", "phase"}
  PROVE  StateTyped'
<1>1. CASE Retry
  <2>1. PICK network \in SomeNetwork :
          /\ Begin("task", network, net.test # None, conn.retries)
          /\ UNCHANGED <<phase, scan, net>>
    BY <1>1 DEF Retry, StateTyped, Nets
  <2>2. conn.retries \in 0..RetryLimit
    BY DEF StateTyped, Conns
  <2>3. QED
    BY <2>1, <2>2, BeginTyped DEF StateTyped, Parties
<1>2. CASE FailAtOnce \/ RetriesUsedUp \/ FailInTime
  BY <1>2, FailureTyped, HeardTyped DEF FailAtOnce, RetriesUsedUp, FailInTime, StateTyped
<1>3. CASE Succeed
  <2>1. scan' \in Scans
    BY <1>3 DEF Succeed, StateTyped, Scans
  <2>2. net' \in Nets
    <3>1. radio.to \in SomeNetwork /\ None \in SomeNetwork
      BY DEF StateTyped, Radios, SomeNetwork
    <3>2. QED
      BY <1>3, <3>1 DEF Succeed, StateTyped, Nets
  <2>3. timers' \subseteq Timers
    BY <1>3 DEF Succeed, StateTyped, Timers
  <2>4. QED
    BY <1>3, <2>1, <2>2, <2>3, HeardTyped, HotspotTyped DEF Succeed, Unlock, StateTyped, Phases
<1>4. CASE RetryLater
  <2>1. timers' \subseteq Timers
    BY <1>4 DEF RetryLater, StateTyped, Timers
  <2>2. QED
    BY <1>4, <2>1, HeardTyped DEF RetryLater, StateTyped
<1>5. CASE StillJoining
  BY <1>5, HeardTyped DEF StillJoining, StateTyped
<1> QED BY <1>1, <1>2, <1>3, <1>4, <1>5 DEF ServiceConnecting

LEMMA OtherPhasesTyped ==
  ASSUME StateTyped, ServiceBootstrap \/ ServiceConnected \/ ServiceFallback \/ TestOver,
         mode' = mode, step' \in {"scan", "phase"}
  PROVE  StateTyped'
<1>1. Scheduled \in Scans /\ [scan EXCEPT !.boot = TRUE] \in Scans
  BY DEF Scheduled, StateTyped, Scans
<1>2. [ApStarted EXCEPT !.grace = TRUE] \in Hotspots /\ [on |-> FALSE, grace |-> FALSE] \in Hotspots
  BY HotspotTyped DEF Hotspots
<1>3. [radio EXCEPT !.sta = StaAfterAp] \in Radios
  BY HotspotTyped DEF StateTyped, Radios
<1>4. \A t \in {"apGrace", "rescan", "backoff"} : timers \cup {t} \subseteq Timers
  BY DEF StateTyped, Timers
<1>5. CASE ServiceBootstrap
  BY <1>1, <1>4, <1>5, HotspotTyped DEF ServiceBootstrap, StateTyped, Phases
<1>6. CASE ServiceConnected
  <2>1. timers' \subseteq Timers
    BY <1>6 DEF ServiceConnected, StateTyped, Timers
  <2>2. QED
    BY <1>1, <1>2, <1>6, <2>1, HeardTyped DEF ServiceConnected, StateTyped, Phases
<1>7. CASE ServiceFallback
  BY <1>1, <1>2, <1>3, <1>4, <1>7, HotspotTyped DEF ServiceFallback, StateTyped, Phases
<1>8. CASE TestOver
  <2>1. net' \in Nets
    BY <1>8 DEF TestOver, StateTyped, Nets, SomeNetwork
  <2>2. QED
    BY <1>8, <2>1, StartApTyped DEF TestOver, StateTyped, Phases
<1> QED BY <1>5, <1>6, <1>7, <1>8

LEMMA RestartTyped == ASSUME StateTyped, Restart PROVE StateTyped'
<1>1. scan' \in Scans
  BY DEF Restart, Scans
<1>2. net' \in Nets
  BY DEF Restart, StateTyped, Nets, SomeNetwork
<1>3. conn' \in Conns
  BY LimitsTyped DEF Restart, Conns
<1>4. radio' \in Radios
  BY EventsTyped DEF Restart, Radios
<1>5. ap' \in Hotspots /\ joining' \in [Parties -> SomeNetwork] /\ events' \in Seq(Events)
  BY DEF Restart, Hotspots, SomeNetwork
<1> QED BY <1>1, <1>2, <1>3, <1>4, <1>5 DEF Restart, StateTyped, Phases

LEMMA TaskPhaseTyped == TypeOK /\ TaskPhase => TypeOK'
<1> SUFFICES ASSUME StateTyped, BoundsTyped, TaskPhase PROVE StateTyped' /\ BoundsTyped'
  BY TypeParts
<1>1. BoundsTyped'
  BY DEF TaskPhase, BoundsTyped
<1>2. CASE Restart
  BY <1>1, <1>2, RestartTyped
<1>3. CASE /\ ServiceBootstrap \/ ServiceConnecting \/ ServiceConnected \/ ServiceFallback \/ TestOver
           /\ step' = "scan" /\ mode' = mode
  BY <1>1, <1>3, ConnectingTyped, OtherPhasesTyped
<1> QED BY <1>2, <1>3 DEF TaskPhase

-----------------------------------------------------------------------------
\* Users, the driver and time.

LEMMA CommandTyped == ASSUME TypeOK, NEW c, Command(c) PROVE TypeOK'
<1> SUFFICES ASSUME StateTyped, BoundsTyped PROVE StateTyped' /\ BoundsTyped'
  BY TypeParts
<1>1. BoundsTyped' /\ step' = step
  BY LimitsTyped DEF Command, BoundsTyped
<1>2. \A n \in Networks : n \in SomeNetwork
  BY DEF SomeNetwork
<1>3. 0 \in 0..RetryLimit /\ "user" \in Parties
  BY LimitsTyped DEF Parties
<1>4. \A n \in Networks : Saved(n) \in Nets /\ [Saved(n) EXCEPT !.candidate = n] \in Nets
  BY <1>2 DEF Saved, StateTyped, Nets, SomeNetwork
<1>5. ASSUME NEW n \in Networks, Test(n) PROVE StateTyped'
  <2>1. net' \in Nets
    BY <1>2, <1>5 DEF Test, StateTyped, Nets
  <2>2. QED
    BY <1>1, <1>2, <1>3, <1>5, <2>1, BeginTyped DEF Test, StateTyped
<1>6. ASSUME NEW n \in Networks, ConnectNow(n) PROVE StateTyped'
  BY <1>1, <1>2, <1>3, <1>4, <1>6, BeginTyped DEF ConnectNow, StateTyped
<1>7. ASSUME NEW n \in Networks, Save(n) PROVE StateTyped'
  BY <1>1, <1>4, <1>7 DEF Save, StateTyped
<1>8. CASE Reconnect
  <2>1. scan' \in Scans
    BY <1>8 DEF Reconnect, StateTyped, Scans
  <2>2. net' \in Nets
    BY <1>8 DEF Reconnect, StateTyped, Nets, SomeNetwork
  <2>3. conn' \in Conns
    BY <1>3, <1>8 DEF Reconnect, StateTyped, Conns
  <2>4. radio' \in Radios
    BY <1>8, EventsTyped DEF Reconnect, StateTyped, Radios
  <2>5. QED
    BY <1>1, <1>8, <2>1, <2>2, <2>3, <2>4, EventsTyped DEF Reconnect, StateTyped, Phases
<1>9. CASE RequestScan
  <2>1. scan' \in Scans
    BY <1>9 DEF RequestScan, StateTyped, Scans
  <2>2. QED
    BY <1>1, <1>9, <2>1 DEF RequestScan, StateTyped
<1>10. CASE Hotspot \/ Off
  <2>1. scan' \in Scans
    BY <1>10 DEF Hotspot, Off, StopSta, ScanDropped, StateTyped, Scans
  <2>2. radio' \in Radios
    BY <1>10, EventsTyped, HotspotTyped DEF Hotspot, Off, Radios
  <2>3. ap' \in Hotspots
    BY <1>10, HotspotTyped DEF Hotspot, Off, StateTyped, Hotspots
  <2>4. QED
    BY <1>1, <1>10, <2>1, <2>2, <2>3, EventsTyped DEF Hotspot, Off, StopSta, StateTyped, Phases
<1> QED BY <1>1, <1>5, <1>6, <1>7, <1>8, <1>9, <1>10 DEF Command

LEMMA DriverTyped ==
  ASSUME TypeOK,
         Deliver \/ ScanFinishes \/ JoinEnds \/ LinkBreaks \/ LinkFades \/ AirChanges
  PROVE  TypeOK'
<1> SUFFICES ASSUME StateTyped, BoundsTyped PROVE StateTyped' /\ BoundsTyped'
  BY TypeParts
<1>1. \A e \in Events : Append(events, e) \in Seq(Events)
  BY DEF StateTyped
<1>2. CASE Deliver
  <2>1. Head(events) \in Events /\ events' \in Seq(Events)
    BY <1>2 DEF Deliver, StateTyped
  <2>2. CASE Head(events) = "scan"
    <3>1. scan' \in Scans
      BY <1>2, <2>2 DEF Deliver, StateTyped, Scans
    <3>2. QED
      BY <1>2, <2>1, <2>2, <3>1 DEF Deliver, StateTyped, BoundsTyped
  <2>3. CASE Head(events) # "scan"
    <3>1. conn' \in Conns
      <4>1. PICK e \in Reasons : e = Head(events)
        BY <2>1, <2>3 DEF Events
      <4>2. conn' = [conn EXCEPT !.reason = e, !.lost = TRUE, !.comeback = (e = "comeback")]
        BY <1>2, <2>3, <4>1 DEF Deliver
      <4>3. QED
        BY <4>2 DEF StateTyped, Conns
    <3>2. QED
      BY <1>2, <2>1, <2>3, <3>1 DEF Deliver, StateTyped, BoundsTyped
  <2>4. QED
    BY <2>2, <2>3
<1>3. ASSUME NEW reasons, reasons \subseteq Reasons, LinkDown(reasons)
      PROVE  radio' \in Radios /\ events' \in Seq(Events)
  BY <1>1, <1>3, EventsTyped DEF LinkDown, Events
<1>4. CASE JoinEnds \/ LinkBreaks \/ LinkFades
  <2>1. radio' \in Radios /\ events' \in Seq(Events)
    <3>1. CASE radio' = [radio EXCEPT !.link = "joined"] /\ UNCHANGED events
      BY <3>1 DEF StateTyped, Radios
    <3>2. CASE \E reasons \in SUBSET Reasons : LinkDown(reasons)
      BY <1>3, <3>2
    <3>3. /\ {"comeback", "other"} \in SUBSET Reasons /\ {"auth", "other"} \in SUBSET Reasons
          /\ {"noAp"} \in SUBSET Reasons /\ {"other"} \in SUBSET Reasons
      BY DEF Reasons
    <3>4. QED
      BY <1>4, <3>1, <3>2, <3>3 DEF JoinEnds, LinkBreaks, LinkFades
  <2>2. External /\ (UNCHANGED faults \/ FaultOccurs)
    BY <1>4 DEF JoinEnds, LinkBreaks, LinkFades
  <2>3. QED
    BY <2>1, <2>2, FaultTyped DEF External, StateTyped, BoundsTyped
<1>5. CASE ScanFinishes
  <2>1. radio' \in Radios /\ scan' \in Scans
    BY <1>5 DEF ScanFinishes, StateTyped, Radios, Scans
  <2>2. events' \in Seq(Events)
    BY <1>1, <1>5 DEF ScanFinishes, StateTyped, Events
  <2>3. QED
    BY <1>5, <2>1, <2>2, FaultTyped DEF ScanFinishes, StateTyped, BoundsTyped
<1>6. CASE AirChanges
  <2>1. radio' \in Radios
    BY <1>6 DEF AirChanges, StateTyped, Radios
  <2>2. QED
    BY <1>6, <2>1, FaultTyped DEF AirChanges, External, StateTyped, BoundsTyped
<1> QED BY <1>2, <1>4, <1>5, <1>6

LEMMA TimeTyped ==
  TypeOK /\ (CooldownEnds \/ \E t \in Timers : Elapse(t)) => TypeOK'
<1> SUFFICES ASSUME StateTyped, BoundsTyped, CooldownEnds \/ \E t \in Timers : Elapse(t)
             PROVE  StateTyped' /\ BoundsTyped'
  BY TypeParts
<1>1. CASE CooldownEnds
  <2>1. net' \in Nets
    BY <1>1 DEF CooldownEnds, StateTyped, Nets, SomeNetwork
  <2>2. QED
    BY <1>1, <2>1 DEF CooldownEnds, StateTyped, BoundsTyped
<1>2. CASE \E t \in Timers : Elapse(t)
  BY <1>2 DEF Elapse, StateTyped, BoundsTyped
<1> QED BY <1>1, <1>2

LEMMA NextTyped == TypeOK /\ [Next]_vars => TypeOK'
BY StutterTyped, TaskScanTyped, TaskPhaseTyped, ConnectTyped, CommandTyped, DriverTyped, TimeTyped
DEF Next

\* Every reachable state of the manager is well-typed; in particular it never counts
\* more retries of an attempt than kAssocRetryLimit, whatever the driver reports late.
THEOREM WifiTypeCorrect == Spec => []TypeOK
<1>1. Init => TypeOK
  BY InitTyped
<1>2. TypeOK /\ [Next]_vars => TypeOK'
  BY NextTyped
<1>3. QED
  BY <1>1, <1>2, PTL DEF Spec

-----------------------------------------------------------------------------
\* The power lock.

\* The lock is held only for an attempt that is under way: from its beginning to its
\* end, or while the task waits to join.
LockHeld == lock => phase = "connecting" \/ joining["task"] # None

\* Without users the manager is on, tries out nothing, and never looks for networks while
\* it joins one: a scan that times out then would end the attempt and keep the lock.
Unattended ==
  /\ mode = "auto" /\ net.test = None /\ joining["user"] = None
  /\ phase \notin {"success", "failure"}
  /\ scan.purpose # "none" => phase # "connecting" /\ joining["task"] = None
LockInv == commands = 0 => Unattended /\ LockHeld

LEMMA InitLock == Init => LockInv
BY DEF Init, LockInv, Unattended, LockHeld, Parties

LEMMA BeginLock ==
  ASSUME StateTyped, Unattended, NEW network, NEW retries, Begin("task", network, FALSE, retries),
         network # None, UNCHANGED <<mode, phase>>, net'.test = net.test, scan'.purpose = "none"
  PROVE  Unattended' /\ LockHeld'
<1>1. joining' = [joining EXCEPT !["task"] = network] /\ joining \in [Parties -> SomeNetwork]
  BY DEF Begin, StateTyped
<1>2. joining'["task"] = network /\ joining'["user"] = joining["user"]
  BY <1>1 DEF Parties
<1> QED BY <1>2 DEF Unattended, LockHeld

LEMMA ScanLock ==
  ASSUME StateTyped, Unattended, LockHeld, TaskScan PROVE Unattended' /\ LockHeld'
<1>1. joining["task"] = None /\ UNCHANGED mode
  BY DEF TaskScan
<1>2. CASE ScanIdle
  <2>1. CASE UNCHANGED scan
    BY <1>1, <1>2, <2>1 DEF ScanIdle, Unattended, LockHeld
  <2>2. CASE ScanWanted # "none"
    <3>1. phase # "connecting"
      BY <2>2 DEF ScanWanted
    <3>2. QED
      BY <1>1, <1>2, <3>1 DEF ScanIdle, Unattended, LockHeld
  <2>3. QED
    BY <1>2, <2>1, <2>2 DEF ScanIdle
<1>3. CASE ScanRuns
  BY <1>1, <1>3 DEF ScanRuns, Unattended, LockHeld
<1>4. CASE ScanTimesOut
  <2>1. ~lock /\ scan'.purpose = "none"
    BY <1>4 DEF ScanTimesOut, Unattended, LockHeld, StateTyped, Scans
  <2>2. QED
    BY <1>1, <1>4, <2>1 DEF ScanTimesOut, Unattended, LockHeld
<1>5. CASE ScanDone
  <2>1. scan'.purpose = "none" /\ phase # "connecting" /\ ~lock
    BY <1>5 DEF ScanDone, Results, Unattended, LockHeld, StateTyped, Scans
  <2>2. CASE UNCHANGED <<phase, net, lock, joining>>
    BY <1>1, <2>1, <2>2 DEF Unattended, LockHeld
  <2>3. ASSUME NEW n \in Choices, UNCHANGED phase,
               net' = [net EXCEPT !.candidate = n, !.chosen = @ \/ net.failed # None],
               Begin("task", n, FALSE, conn.retries)
        PROVE  Unattended' /\ LockHeld'
    <3>1. n # None
      BY DEF Choices, Blocked
    <3>2. net'.test = net.test
      BY <2>3 DEF StateTyped, Nets
    <3>3. QED
      BY <1>1, <2>1, <2>3, <3>1, <3>2, BeginLock
  <2>4. CASE /\ net' = [net EXCEPT !.candidate = None, !.chosen = @ \/ net.failed # None]
             /\ phase' = "fallback" /\ UNCHANGED <<lock, joining>>
    <3>1. net'.test = net.test
      BY <2>4 DEF StateTyped, Nets
    <3>2. QED
      BY <1>1, <2>1, <2>4, <3>1 DEF Unattended, LockHeld
  <2>5. QED
    BY <1>5, <2>2, <2>3, <2>4 DEF ScanDone
<1> QED BY <1>2, <1>3, <1>4, <1>5 DEF TaskScan, ServiceScan

\* However an attempt ends, the task gives the lock back.
LEMMA PhaseLock ==
  ASSUME StateTyped, Unattended, LockHeld, TaskPhase PROVE Unattended' /\ LockHeld'
<1>1. joining["task"] = None
  BY DEF TaskPhase
<1>2. phase \notin {"success", "failure"} /\ net.test = None
  BY DEF Unattended
<1>3. mode' = mode
  BY <1>2 DEF TaskPhase, Restart
<1>4. CASE AttemptFails /\ phase = "connecting"
  <2>1. phase' = "fallback" /\ lock' = FALSE /\ UNCHANGED joining
    BY <1>2, <1>4 DEF AttemptFails, Unlock
  <2>2. net'.test = net.test /\ scan'.purpose = scan.purpose
    BY <1>2, <1>4 DEF AttemptFails, StateTyped, Nets, Scans
  <2>3. QED
    BY <1>1, <1>3, <2>1, <2>2 DEF Unattended, LockHeld
<1>5. CASE Retry /\ phase = "connecting"
  <2>1. net.candidate # None /\ Begin("task", net.candidate, FALSE, conn.retries)
        /\ UNCHANGED <<phase, scan, net>>
    BY <1>2, <1>5 DEF Retry
  <2>2. scan'.purpose = "none"
    BY <1>5, <2>1 DEF Unattended
  <2>3. QED
    BY <1>3, <2>1, <2>2, BeginLock
<1>6. CASE Succeed /\ phase = "connecting"
  <2>1. phase' = "connected" /\ lock' = FALSE /\ UNCHANGED joining
    BY <1>2, <1>6 DEF Succeed, Unlock
  <2>2. net'.test = net.test /\ scan'.purpose = scan.purpose
    BY <1>6 DEF Succeed, StateTyped, Nets, Scans
  <2>3. QED
    BY <1>1, <1>3, <2>1, <2>2 DEF Unattended, LockHeld
<1>7. CASE UNCHANGED <<phase, scan, net, lock, joining>>
  BY <1>3, <1>7 DEF Unattended, LockHeld
<1>8. CASE /\ phase # "connecting" /\ phase' \in {"connected", "fallback", "bootstrap"}
           /\ scan'.purpose = scan.purpose /\ UNCHANGED <<net, lock, joining>>
  BY <1>1, <1>3, <1>8 DEF Unattended, LockHeld
<1>9. CASE ServiceConnecting
  <2>1. CASE FailAtOnce \/ RetriesUsedUp \/ FailInTime
    BY <1>4, <1>9, <2>1 DEF ServiceConnecting, FailAtOnce, RetriesUsedUp, FailInTime
  <2>2. CASE RetryLater \/ StillJoining
    BY <1>7, <2>2 DEF RetryLater, StillJoining
  <2>3. QED
    BY <1>5, <1>6, <1>9, <2>1, <2>2 DEF ServiceConnecting
<1>10. CASE ServiceBootstrap \/ ServiceConnected \/ ServiceFallback
  <2>1. scan'.purpose = scan.purpose
    BY <1>10 DEF ServiceBootstrap, ServiceConnected, ServiceFallback, Scheduled, StateTyped, Scans
  <2>2. phase # "connecting" /\ phase' \in {"connected", "fallback", "bootstrap"}
        /\ UNCHANGED <<net, lock, joining>>
    BY <1>10 DEF ServiceBootstrap, ServiceConnected, ServiceFallback
  <2>3. QED
    BY <1>8, <2>1, <2>2
<1> QED BY <1>2, <1>9, <1>10 DEF TaskPhase, TestOver, Restart

LEMMA ConnectLock ==
  ASSUME StateTyped, Unattended, LockHeld, NEW who \in Parties, Connect(who)
  PROVE  Unattended' /\ LockHeld'
<1>1. who = "task" /\ joining["task"] # None /\ joining' = [joining EXCEPT !["task"] = None]
  BY DEF Connect, Unattended, Parties
<1>2. joining'["task"] = None /\ joining'["user"] = None
  BY <1>1 DEF StateTyped, Unattended, Parties
<1>3. UNCHANGED <<mode, scan, net>> /\ scan.purpose = "none"
  BY <1>1 DEF Connect, Unattended
<1>4. (phase' = "connecting" /\ UNCHANGED lock) \/ (UNCHANGED phase /\ lock' = FALSE)
  BY DEF Connect, ConnectAccepted, ConnectRefused, Unlock
<1> QED BY <1>2, <1>3, <1>4 DEF Unattended, LockHeld

LEMMA NextLock == TypeOK /\ LockInv /\ [Next]_vars => LockInv'
<1> SUFFICES ASSUME TypeOK, LockInv, [Next]_vars, commands' = 0 PROVE Unattended' /\ LockHeld'
  BY DEF LockInv
<1>1. commands \in Nat /\ StateTyped
  BY TypeParts, LimitsTyped DEF BoundsTyped
<1>2. commands = 0 /\ ~\E c \in Commands : Command(c)
  <2>1. ~\E c \in Commands : Command(c)
    BY <1>1 DEF Command
  <2>2. commands' = commands
    BY <2>1 DEF Next, TaskScan, TaskHotspot, TaskPhase, Connect, Deliver, ScanFinishes, JoinEnds,
       LinkBreaks, LinkFades, AirChanges, External, CooldownEnds, Elapse, vars
  <2>3. QED
    BY <2>1, <2>2
<1>3. Unattended /\ LockHeld
  BY <1>2 DEF LockInv
<1>4. CASE TaskScan \/ TaskPhase \/ \E who \in Parties : Connect(who)
  BY <1>1, <1>3, <1>4, ScanLock, PhaseLock, ConnectLock
<1>5. CASE TaskHotspot
  BY <1>3, <1>5 DEF TaskHotspot, Unattended
<1>6. CASE /\ scan'.purpose = scan.purpose /\ net'.test = net.test
           /\ UNCHANGED <<mode, phase, lock, joining>>
  BY <1>3, <1>6 DEF Unattended, LockHeld
<1>7. CASE Deliver \/ ScanFinishes \/ CooldownEnds
  <2>1. scan'.purpose = scan.purpose /\ net'.test = net.test
    BY <1>1, <1>7 DEF Deliver, ScanFinishes, CooldownEnds, StateTyped, Scans, Nets
  <2>2. QED
    BY <1>6, <1>7, <2>1 DEF Deliver, ScanFinishes, CooldownEnds
<1>8. CASE JoinEnds \/ LinkBreaks \/ LinkFades \/ AirChanges \/ UNCHANGED vars
           \/ \E t \in Timers : Elapse(t)
  BY <1>6, <1>8 DEF JoinEnds, LinkBreaks, LinkFades, AirChanges, External, vars, Elapse
<1> QED BY <1>2, <1>4, <1>5, <1>7, <1>8 DEF Next

\* Until a user's first call the manager holds the power lock WifiReconnect only for an
\* attempt that is under way: however that ends, the lock is given back, and no scan
\* that times out can cut it short.
THEOREM LockOnlyForAttempt == Spec => [](commands = 0 => LockHeld)
<1>1. Init => TypeOK /\ LockInv
  BY InitTyped, InitLock
<1>2. TypeOK /\ LockInv /\ [Next]_vars => TypeOK' /\ LockInv'
  BY NextTyped, NextLock
<1>3. LockInv => (commands = 0 => LockHeld)
  BY DEF LockInv
<1>4. QED
  BY <1>1, <1>2, <1>3, PTL DEF Spec
=============================================================================
