----------------------------- MODULE WifiManager -----------------------------
(***************************************************************************)
(* The Wi-Fi manager of the S3.  Its task looks for networks, joins one,   *)
(* joins again when the link is lost, and offers a hotspot in between; it  *)
(* also tries out credentials that a user enters, and restarts the S3 once *)
(* they work.                                                              *)
(*                                                                         *)
(* Three parties share the manager's variables without a lock: the task,   *)
(* the web and shell tasks that call the manager, and the event task of    *)
(* the Wi-Fi driver, which delivers scan results and lost links later than *)
(* they happen.  A pass of the task is split where the others can come in: *)
(* after service_scan, and in the 20 ms that begin_sta_attempt waits       *)
(* between leaving the old network and joining the new one.                *)
(*                                                                         *)
(* The driver and the air are external.  Times are timers that elapse at   *)
(* some moment; passwords, signal strength, LEDs and counters are left     *)
(* out.                                                                    *)
(*                                                                         *)
(* Definitions whose name starts with Bug are not part of the model: each  *)
(* is a wrong version of the definition below it, kept to show that a      *)
(* property notices the mistake.                                           *)
(***************************************************************************)
EXTENDS Naturals, Sequences

CONSTANTS
  Networks,
  None,         \* no network
  Known,        \* known_networks
  Good,         \* networks whose password we have right
  SavedFirst,   \* the network saved in NVS, or None
  RetryLimit,   \* kAssocRetryLimit
  ApReady,      \* ap_credentials_ready
  Commands,     \* what users do
  MaxCommands,  \* bound: how often; a scan, which only sets a mark, may come on top
  MaxFaults,    \* bound: links that break, joins refused or put off, scans lost
  Mixed         \* bound: whether both happen in one behaviour

ASSUME WifiManagerAssumption ==
  /\ Known \subseteq Networks /\ Good \subseteq Networks /\ None \notin Networks
  /\ SavedFirst \in Networks \cup {None}
  /\ {RetryLimit, MaxCommands, MaxFaults} \subseteq Nat /\ {ApReady, Mixed} \subseteq BOOLEAN
  /\ Commands \subseteq {"test", "connect", "save", "reconnect", "scan", "hotspot", "off"}

VARIABLES
  mode,     \* "off": not g_manager_enabled; "hotspot": g_hotspot_only; else "auto"
  phase,    \* g_phase
  scan,     \* g_scan_purpose, g_scan_started_with_idf, g_idf_scan_done_pending,
            \* g_bootstrap_scan_pending, g_manual_scan_requested, and the networks found,
            \* which the driver keeps until they are read
  net,      \* the networks g_candidate, g_test, g_last_good, g_saved, the one
            \* saved in NVS, and g_failed_candidate; chosen: a candidate was selected
            \* since it failed
  conn,     \* g_retry_due_ms # 0, g_assoc_retry_count, g_assoc_comeback_too_long,
            \* g_disconnect_event_pending and last_disconnect_reason
  ap,       \* ap_active, and g_ap_grace_until_ms # 0
  lock,     \* the power lock WifiReconnect
  timers,   \* the times that have not come yet
  step,     \* the task: "scan", or "phase" after service_scan
  joining,  \* the network that begin_sta_attempt of the task or a user is about to join
  radio,    \* the driver, and the networks on the air
  events,   \* events the driver has not delivered
  commands, faults

vars == <<mode, phase, scan, net, conn, ap, lock, timers, step, joining, radio, events,
          commands, faults>>

Parties == {"task", "user"}
Timers == {"backoff", "rescan", "scan", "retry", "connect", "apGrace"}
Reasons == {"noAp", "auth", "comeback", "other"}
SomeNetwork == Networks \cup {None}

TypeOK ==
  /\ mode \in {"auto", "hotspot", "off"}
  /\ phase \in {"bootstrap", "connecting", "connected", "fallback", "success", "failure"}
  /\ scan \in [purpose : {"none", "bootstrap", "manual"}, started : BOOLEAN,
               done : BOOLEAN, boot : BOOLEAN, manual : BOOLEAN, found : SUBSET Networks]
  /\ net \in [candidate : SomeNetwork, test : SomeNetwork, lastGood : SomeNetwork,
              saved : SomeNetwork,
              stored : SomeNetwork, failed : SomeNetwork, chosen : BOOLEAN]
  /\ conn \in [retry : BOOLEAN, retries : 0..RetryLimit, comeback : BOOLEAN,
               lost : BOOLEAN, reason : Reasons \cup {"none", "refused"}]
  /\ ap \in [on : BOOLEAN, grace : BOOLEAN] /\ lock \in BOOLEAN
  /\ timers \subseteq Timers /\ step \in {"scan", "phase"}
  /\ joining \in [Parties -> SomeNetwork]
  /\ radio \in [sta : BOOLEAN, link : {"off", "joining", "joined"}, to : SomeNetwork,
                scanning : BOOLEAN, up : SUBSET Networks]
  /\ events \in Seq(Reasons \cup {"scan"})
  /\ commands \in 0..MaxCommands + 1 /\ faults \in 0..MaxFaults

FaultOccurs ==
  /\ Mixed \/ commands = 0
  /\ faults < MaxFaults /\ faults' = faults + 1
Joined == radio.link = "joined"

-----------------------------------------------------------------------------
\* Calls of the driver.

\* esp_wifi_disconnect and esp_wifi_scan_stop are answered by an event.
LinkOff == [radio EXCEPT !.link = "off", !.to = None]
AfterDisconnect == IF radio.link = "off" THEN events ELSE Append(events, "other")
AfterScanStop(evs) == IF radio.scanning THEN Append(evs, "scan") ELSE evs

\* start_ap_mode, and the stations' side it switches on with it.
\* Only without the stations' side.
BugApStarted == [ap EXCEPT !.on = @ \/ (ApReady /\ ~radio.sta)]
ApStarted == [ap EXCEPT !.on = @ \/ ApReady]
StaAfterAp == radio.sta \/ (ApReady /\ ~ap.on)

StartAp ==
  /\ ap' = ApStarted
  /\ radio' = [radio EXCEPT !.sta = StaAfterAp]

\* The power lock is given back.  Only after a success:
BugUnlock == lock' = (lock /\ ~Joined)
Unlock == lock' = FALSE

-----------------------------------------------------------------------------
\* begin_sta_attempt, up to its wait.

Begin(who, network, hotspot, retries) ==
  /\ joining' = [joining EXCEPT ![who] = network] /\ lock' = TRUE
  /\ conn' = [retry |-> FALSE, retries |-> retries, comeback |-> FALSE, lost |-> FALSE,
              reason |-> "none"]
  /\ timers' = (timers \ {"retry"}) \cup {"connect"}
  /\ ap' = [ap EXCEPT !.on = @ \/ hotspot]
  /\ IF Joined \/ phase = "connecting"
     THEN radio' = [LinkOff EXCEPT !.sta = TRUE] /\ events' = AfterDisconnect
     ELSE radio' = [radio EXCEPT !.sta = TRUE] /\ UNCHANGED events

\* The rest: the driver joins, unless it is joining already or is off by now.
ConnectAccepted(who) ==
  /\ radio.sta /\ radio.link # "joining"
  /\ radio' = [radio EXCEPT !.link = "joining", !.to = joining[who]]
  /\ events' = AfterDisconnect /\ phase' = "connecting"
  /\ UNCHANGED <<conn, lock, faults>>

ConnectRefused ==
  /\ \/ (~radio.sta \/ radio.link = "joining") /\ UNCHANGED faults
     \/ FaultOccurs
  /\ conn' = [conn EXCEPT !.reason = "refused"] /\ Unlock
  /\ UNCHANGED <<phase, radio, events>>

Connect(who) ==
  /\ joining[who] # None /\ joining' = [joining EXCEPT ![who] = None]
  /\ ConnectAccepted(who) \/ ConnectRefused
  /\ UNCHANGED <<mode, scan, net, ap, timers, step, commands>>

-----------------------------------------------------------------------------
\* service_scan.

\* start_async_scan: no second scan while one is marked as started.
StartScan(purpose) ==
  IF scan.started \/ ~radio.sta \/ radio.link = "joining"
  THEN UNCHANGED <<scan, radio, timers>>
  ELSE /\ scan' = [scan EXCEPT !.purpose = purpose, !.started = TRUE, !.done = FALSE,
                               !.manual = @ /\ purpose # "manual",
                               !.boot = @ /\ purpose # "bootstrap"]
       /\ radio' = [radio EXCEPT !.scanning = TRUE]
       /\ timers' = timers \cup {"scan"}

Finalizing == phase \in {"success", "failure"}

ScanWanted ==
  IF scan.manual /\ phase # "connecting" /\ ~Finalizing THEN "manual"
  ELSE IF /\ scan.boot /\ "backoff" \notin timers /\ ~Joined
          /\ phase \notin {"connected", "connecting"} /\ ~Finalizing
       THEN "bootstrap" ELSE "none"

ScanIdle ==
  /\ scan.purpose = "none"
  /\ IF ScanWanted = "none" THEN UNCHANGED <<scan, radio, timers>> ELSE StartScan(ScanWanted)
  /\ UNCHANGED <<phase, net, conn, ap, lock, joining, events>>

ScanRuns ==
  /\ scan.purpose # "none" /\ ~scan.done /\ "scan" \in timers
  /\ UNCHANGED <<phase, scan, net, conn, ap, lock, timers, joining, radio, events>>

ScanTimesOut ==
  /\ scan.purpose # "none" /\ ~scan.done /\ "scan" \notin timers
  /\ scan' = [scan EXCEPT !.purpose = "none", !.started = FALSE, !.boot = TRUE]
  /\ phase' = "fallback" /\ events' = AfterScanStop(events)
  /\ ap' = ApStarted
  /\ radio' = [radio EXCEPT !.sta = StaAfterAp, !.scanning = FALSE]
  /\ UNCHANGED <<net, conn, lock, timers, joining>>

\* select_candidate_from_scan: the last good network, the saved one, a known one, and
\* then those that were not found.  The network that failed last has to wait.
\* Without the wait.
BugBlocked(network) == network = None
Blocked(network) == network \in {None, net.failed}

Choices ==
  LET Of(networks) == {n \in networks : ~Blocked(n)}
      Found(networks) == Of(networks) \cap scan.found
  IN  IF Found({net.lastGood}) # {} THEN Found({net.lastGood})
      ELSE IF Found({net.saved}) # {} THEN Found({net.saved})
      ELSE IF Found(Known) # {} THEN Found(Known)
      ELSE IF Of({net.saved}) # {} THEN Of({net.saved})
      ELSE Of(Known)

\* handle_scan_result.
Results == [scan EXCEPT !.purpose = "none", !.started = FALSE, !.done = FALSE,
                         !.found = {}]

NoCandidateNeeded == scan.purpose = "manual" \/ Joined \/ phase = "connected"

ScanDone ==
  /\ scan.purpose # "none" /\ scan.done
  /\ \/ /\ NoCandidateNeeded
        /\ scan' = IF scan.purpose = "manual" THEN Results
                   ELSE [Results EXCEPT !.boot = FALSE]
        /\ UNCHANGED <<phase, net, conn, ap, lock, timers, joining, radio, events>>
     \/ /\ ~NoCandidateNeeded /\ "backoff" \in timers
        /\ scan' = [Results EXCEPT !.boot = TRUE]
        /\ UNCHANGED <<phase, net, conn, ap, lock, timers, joining, radio, events>>
     \/ /\ ~NoCandidateNeeded /\ "backoff" \notin timers
        /\ scan' = Results
        /\ \E n \in Choices :
             /\ net' = [net EXCEPT !.candidate = n, !.chosen = @ \/ net.failed # None]
             /\ Begin("task", n, FALSE, conn.retries) /\ UNCHANGED phase
     \/ /\ ~NoCandidateNeeded /\ "backoff" \notin timers /\ Choices = {}
        /\ scan' = Results /\ net' = [net EXCEPT !.candidate = None, !.chosen = @ \/ net.failed # None]
        /\ phase' = "fallback" /\ StartAp
        /\ UNCHANGED <<conn, lock, timers, joining, events>>

ServiceScan == ScanIdle \/ ScanRuns \/ ScanTimesOut \/ ScanDone

\* wifi_manager_loop up to service_scan.
TaskScan ==
  /\ step = "scan" /\ joining["task"] = None
  /\ mode = "auto" /\ step' = "phase" /\ ServiceScan
  /\ UNCHANGED <<mode, commands, faults>>

\* With the hotspot alone there are only the scans that users ask for.
TaskHotspot ==
  /\ step = "scan" /\ joining["task"] = None /\ mode = "hotspot" /\ UNCHANGED step
  /\ \/ ~ap.on /\ ApReady /\ StartAp
        /\ UNCHANGED <<phase, scan, net, conn, lock, timers, joining, events>>
     \/ (ap.on \/ ~ApReady) /\ (scan.manual \/ scan.purpose # "none") /\ ServiceScan
  /\ UNCHANGED <<mode, commands, faults>>

-----------------------------------------------------------------------------
\* The rest of the pass, by phase.

\* An attempt has failed: the candidate waits, or the test is over.
TimersOfFailure == (timers \ {"connect"}) \cup {"backoff"}

AttemptFails ==
  /\ Unlock
  /\ IF net.test = None
     THEN /\ net' = IF net.candidate = None THEN net
                    ELSE [net EXCEPT !.failed = net.candidate, !.chosen = FALSE]
          /\ timers' = TimersOfFailure
          /\ scan' = [scan EXCEPT !.boot = TRUE] /\ phase' = "fallback" /\ StartAp
     ELSE phase' = "failure" /\ UNCHANGED <<net, timers, scan, ap, radio>>
  /\ UNCHANGED <<joining, events>>

\* service_connecting.
Retry ==
  /\ conn.retry /\ "retry" \notin timers
  /\ LET network == IF net.test = None THEN net.candidate ELSE net.test
     IN  network # None /\ Begin("task", network, net.test # None, conn.retries)
  /\ UNCHANGED <<phase, scan, net>>

Heard == [conn EXCEPT !.lost = FALSE]

\* The link stands: the hotspot ends after kApGraceAfterStaMs.  Or it stays.
BugApEnding == ap
ApEnding == [ap EXCEPT !.grace = ap.on]
RefusedByNetwork == ~conn.retry /\ conn.lost /\ conn.reason \in {"noAp", "auth"}

FailAtOnce == RefusedByNetwork /\ conn' = Heard /\ AttemptFails

Succeed ==
  /\ ~conn.retry /\ ~RefusedByNetwork /\ Joined
  /\ conn' = [Heard EXCEPT !.retries = 0] /\ Unlock
  /\ scan' = [scan EXCEPT !.boot = FALSE]
  /\ net' = [net EXCEPT !.lastGood = radio.to,
                        !.failed = IF @ = radio.to THEN None ELSE @,
                        !.stored = IF net.test = None THEN @ ELSE net.test]
  /\ phase' = IF net.test = None THEN "connected" ELSE "success"
  /\ ap' = ApEnding
  /\ timers' = (timers \ {"backoff", "connect"})
                 \cup (IF ap.on THEN {"apGrace"} ELSE {})
  /\ UNCHANGED <<joining, radio, events>>

ComebackTooLong == ~conn.retry /\ ~RefusedByNetwork /\ ~Joined /\ conn.comeback

\* The network asks to come back later.  Once too often:
BugMayRetry == conn.retries <= RetryLimit
MayRetry == conn.retries < RetryLimit

RetryLater ==
  /\ ComebackTooLong /\ MayRetry
  /\ conn' = [Heard EXCEPT !.comeback = FALSE, !.retry = TRUE, !.retries = @ + 1]
  /\ timers' = timers \cup {"retry"}
  /\ UNCHANGED <<phase, scan, net, ap, lock, joining, radio, events>>

RetriesUsedUp ==
  /\ ComebackTooLong /\ ~MayRetry
  /\ conn' = [Heard EXCEPT !.comeback = FALSE] /\ AttemptFails

\* kConnectStatusGraceMs may have passed or not when the network has refused.
TooLong == "connect" \notin timers
MaybeTooLong == TooLong \/ conn.reason \in {"noAp", "auth"}

FailInTime ==
  /\ ~conn.retry /\ ~RefusedByNetwork /\ ~Joined /\ ~conn.comeback /\ MaybeTooLong
  /\ conn' = Heard /\ AttemptFails

StillJoining ==
  /\ \/ conn.retry /\ "retry" \in timers /\ UNCHANGED conn
     \/ /\ ~conn.retry /\ ~RefusedByNetwork /\ ~Joined /\ ~conn.comeback /\ ~TooLong
        /\ conn' = Heard
  /\ UNCHANGED <<phase, scan, net, ap, lock, timers, joining, radio, events>>

ServiceConnecting ==
  /\ phase = "connecting"
  /\ \/ Retry \/ FailAtOnce \/ Succeed \/ RetryLater \/ RetriesUsedUp \/ FailInTime
     \/ StillJoining

\* schedule_bootstrap_scan.
Scheduled == [scan EXCEPT !.boot = @ \/ scan.purpose = "none"]

ServiceBootstrap ==
  /\ phase = "bootstrap"
  /\ IF Joined
     THEN /\ phase' = "connected" /\ ap' = ApEnding
          /\ timers' = timers \cup {"apGrace"} /\ UNCHANGED scan
     ELSE /\ scan' = Scheduled /\ timers' = timers \cup {"rescan"} /\ UNCHANGED <<phase, ap>>
  /\ UNCHANGED <<net, conn, lock, joining, radio, events>>

ServiceConnected ==
  /\ phase = "connected"
  /\ \/ /\ Joined /\ ap.on /\ ap.grace /\ "apGrace" \notin timers
        /\ ap' = [on |-> FALSE, grace |-> FALSE]
        /\ UNCHANGED <<phase, scan, conn, timers>>
     \/ /\ Joined /\ (~ap.on \/ ~ap.grace \/ "apGrace" \in timers)
        /\ UNCHANGED <<phase, scan, conn, ap, timers>>
     \/ /\ ~Joined /\ phase' = "fallback"
        /\ scan' = [scan EXCEPT !.boot = TRUE] /\ conn' = Heard
        /\ timers' = timers \cup {"rescan"} \cup (IF conn.lost THEN {"backoff"} ELSE {})
        /\ UNCHANGED ap
  /\ UNCHANGED <<net, lock, joining, radio, events>>

ServiceFallback ==
  /\ phase = "fallback"
  /\ radio' = [radio EXCEPT !.sta = StaAfterAp]
  /\ \/ /\ Joined /\ phase' = "connected" /\ ap' = [ApStarted EXCEPT !.grace = TRUE]
        /\ timers' = timers \cup {"apGrace"} /\ UNCHANGED scan
     \/ /\ ~Joined /\ ap' = ApStarted
        /\ IF timers \cap {"backoff", "rescan"} = {} /\ scan.purpose = "none"
           THEN scan' = Scheduled /\ timers' = timers \cup {"rescan"}
           ELSE UNCHANGED <<scan, timers>>
        /\ UNCHANGED phase
  /\ UNCHANGED <<net, conn, lock, joining, events>>

\* mros_system_restart, after credentials that were tested worked.
Restart ==
  /\ phase = "success" /\ phase' = "bootstrap" /\ mode' = "auto" /\ step' = "scan"
  /\ scan' = [purpose |-> "none", started |-> FALSE, done |-> FALSE, boot |-> TRUE,
              manual |-> FALSE, found |-> {}]
  /\ net' = [net EXCEPT !.candidate = None, !.test = None, !.saved = net.stored,
                        !.failed = None, !.chosen = FALSE]
  /\ conn' = [retry |-> FALSE, retries |-> 0, comeback |-> FALSE, lost |-> FALSE,
              reason |-> "none"]
  /\ ap' = [on |-> FALSE, grace |-> FALSE] /\ lock' = FALSE /\ timers' = {}
  /\ joining' = [p \in Parties |-> None] /\ events' = <<>>
  /\ radio' = [LinkOff EXCEPT !.sta = TRUE, !.scanning = FALSE]

TestOver ==
  /\ phase = "failure" /\ phase' = "fallback" /\ net' = [net EXCEPT !.test = None]
  /\ StartAp
  /\ UNCHANGED <<scan, conn, lock, timers, joining, events>>

TaskPhase ==
  /\ step = "phase" /\ joining["task"] = None
  /\ \/ /\ \/ ServiceBootstrap \/ ServiceConnecting \/ ServiceConnected
           \/ ServiceFallback \/ TestOver
        /\ step' = "scan" /\ UNCHANGED mode
     \/ Restart
  /\ UNCHANGED <<commands, faults>>

-----------------------------------------------------------------------------
\* Users.

Test(n) ==
  /\ ~Finalizing /\ net' = [net EXCEPT !.test = n]
  /\ Begin("user", n, TRUE, 0)
  /\ UNCHANGED <<mode, phase, scan>>

Saved(n) ==
  [net EXCEPT !.saved = n, !.stored = n, !.failed = IF @ = n THEN None ELSE @]

ConnectNow(n) ==
  /\ mode' = "auto" /\ net' = [Saved(n) EXCEPT !.candidate = n]
  /\ Begin("user", n, FALSE, 0)
  /\ UNCHANGED <<phase, scan>>

Save(n) ==
  /\ net' = Saved(n)
  /\ UNCHANGED <<mode, phase, scan, conn, ap, lock, timers, joining, radio, events>>

\* wifi_manager_request_reconnect, alone or after wifi_manager_set_enabled(true).
Reconnect ==
  /\ mode' = "auto" /\ phase' = "bootstrap"
  /\ scan' = [scan EXCEPT !.boot = TRUE] /\ net' = [net EXCEPT !.failed = None, !.chosen = FALSE]
  /\ conn' = [conn EXCEPT !.retry = FALSE, !.retries = 0]
  /\ timers' = timers \ {"backoff", "retry"}
  /\ \E on \in {radio.sta, TRUE} :
       radio' = [LinkOff EXCEPT !.sta = on]
  /\ events' = AfterDisconnect
  /\ UNCHANGED <<ap, lock, joining>>

RequestScan ==
  /\ scan' = [scan EXCEPT !.manual = TRUE]
  /\ UNCHANGED <<mode, phase, net, conn, ap, lock, timers, joining, radio, events>>

\* What wifi_manager_force_hotspot and wifi_manager_set_enabled(false) do alike.
ScanDropped == [scan EXCEPT !.boot = FALSE, !.manual = FALSE, !.purpose = "none"]

StopSta ==
  /\ phase' = "fallback" /\ scan' = ScanDropped
  /\ events' = AfterScanStop(AfterDisconnect)
  /\ UNCHANGED <<net, conn, lock, timers, joining>>

Hotspot ==
  /\ mode' = "hotspot" /\ StopSta /\ ap' = ApStarted
  /\ radio' = [LinkOff EXCEPT !.sta = StaAfterAp, !.scanning = FALSE]

Off ==
  /\ mode' = "off" /\ StopSta /\ ap' = [ap EXCEPT !.on = FALSE]
  /\ radio' = [LinkOff EXCEPT !.sta = FALSE, !.scanning = FALSE]

Command(c) ==
  /\ Mixed \/ faults = 0
  /\ commands < MaxCommands \/ (c = "scan" /\ commands = MaxCommands)
  /\ commands' = commands + 1
  /\ joining["user"] = None
  /\ \/ c = "test" /\ \E n \in Networks : Test(n)
     \/ c = "connect" /\ \E n \in Networks : ConnectNow(n)
     \/ c = "save" /\ \E n \in Networks : Save(n)
     \/ c = "reconnect" /\ Reconnect
     \/ c = "scan" /\ RequestScan
     \/ c = "hotspot" /\ Hotspot
     \/ c = "off" /\ Off
  /\ UNCHANGED <<step, faults>>

-----------------------------------------------------------------------------
\* The event task of the driver, and the air.

Deliver ==
  /\ events # <<>> /\ events' = Tail(events)
  /\ IF Head(events) = "scan"
     THEN /\ scan' = [scan EXCEPT !.done = TRUE] /\ timers' = timers \ {"scan"}
          /\ UNCHANGED conn
     ELSE /\ conn' = [conn EXCEPT !.reason = Head(events), !.lost = TRUE,
                                  !.comeback = Head(events) = "comeback"]
          /\ UNCHANGED <<scan, timers>>
  /\ UNCHANGED <<mode, phase, net, ap, lock, step, joining, radio, commands, faults>>

External ==
  UNCHANGED <<mode, phase, scan, net, conn, ap, lock, timers, step, joining, commands>>

ScanFinishes ==
  /\ radio.scanning
  /\ radio' = [radio EXCEPT !.scanning = FALSE] /\ scan' = [scan EXCEPT !.found = radio.up]
  /\ \/ events' = Append(events, "scan") /\ UNCHANGED faults
     \/ FaultOccurs /\ UNCHANGED events
  /\ UNCHANGED <<mode, phase, net, conn, ap, lock, timers, step, joining, commands>>

LinkDown(reasons) ==
  /\ radio' = LinkOff
  /\ \E r \in reasons : events' = Append(events, r)

JoinEnds ==
  /\ radio.link = "joining"
  /\ \/ /\ radio.to \in radio.up \cap Good
        /\ radio' = [radio EXCEPT !.link = "joined"] /\ UNCHANGED <<events, faults>>
     \/ radio.to \in radio.up \cap Good /\ LinkDown({"comeback", "other"}) /\ FaultOccurs
     \/ radio.to \in radio.up \ Good /\ LinkDown({"auth", "other"}) /\ UNCHANGED faults
     \/ radio.to \notin radio.up /\ LinkDown({"noAp"}) /\ UNCHANGED faults
  /\ External

LinkBreaks == Joined /\ LinkDown({"other"}) /\ FaultOccurs /\ External
LinkFades ==
  Joined /\ radio.to \notin radio.up /\ LinkDown({"other"}) /\ UNCHANGED faults /\ External

AirChanges ==
  /\ FaultOccurs
  /\ \E up \in SUBSET Networks : radio' = [radio EXCEPT !.up = up]
  /\ UNCHANGED events /\ External

\* A join takes less than kConnectTimeoutMs, and a scan whose end is reported less than
\* kBootScanTimeoutMs.
Elapse(t) ==
  /\ t \in timers /\ timers' = timers \ {t}
  /\ t = "connect" => radio.link # "joining"
  /\ t = "scan" => ~radio.scanning /\ \A i \in DOMAIN events : events[i] # "scan"
  /\ UNCHANGED <<mode, phase, scan, net, conn, ap, lock, step, joining, radio, events,
                 commands, faults>>

\* The network that failed has waited: for longer than it takes to choose another.
CooldownEnds ==
  /\ net.failed # None /\ net.chosen /\ net' = [net EXCEPT !.failed = None, !.chosen = FALSE]
  /\ UNCHANGED <<mode, phase, scan, conn, ap, lock, timers, step, joining, radio, events,
                 commands, faults>>

-----------------------------------------------------------------------------

Init ==
  /\ mode = "auto" /\ phase = "bootstrap" /\ step = "scan" /\ lock = FALSE
  /\ scan = [purpose |-> "none", started |-> FALSE, done |-> FALSE, boot |-> TRUE,
             manual |-> FALSE, found |-> {}]
  /\ net = [candidate |-> None, test |-> None, lastGood |-> SavedFirst, saved |-> SavedFirst,
            stored |-> SavedFirst, failed |-> None, chosen |-> FALSE]
  /\ conn = [retry |-> FALSE, retries |-> 0, comeback |-> FALSE, lost |-> FALSE,
             reason |-> "none"]
  /\ ap = [on |-> FALSE, grace |-> FALSE] /\ timers = {}
  /\ joining = [p \in Parties |-> None]
  /\ \E up \in SUBSET Networks :
       radio = [sta |-> TRUE, link |-> "off", to |-> None, scanning |-> FALSE, up |-> up]
  /\ events = <<>> /\ commands = 0 /\ faults = 0

Next ==
  \/ TaskScan \/ TaskHotspot \/ TaskPhase
  \/ \E who \in Parties : Connect(who)
  \/ \E c \in Commands : Command(c)
  \/ Deliver \/ ScanFinishes \/ JoinEnds \/ LinkBreaks \/ LinkFades
  \/ AirChanges \/ CooldownEnds
  \/ \E t \in Timers : Elapse(t)

Spec == Init /\ [][Next]_vars

\* The tasks run, the driver reports, times pass.  Nobody has to call the manager.
Fairness ==
  /\ WF_vars(TaskScan) /\ WF_vars(TaskHotspot) /\ WF_vars(TaskPhase)
  /\ \A who \in Parties : WF_vars(Connect(who))
  /\ WF_vars(Deliver) /\ WF_vars(ScanFinishes) /\ WF_vars(JoinEnds)
  /\ WF_vars(LinkFades)
  /\ \A t \in Timers : WF_vars(Elapse(t))
  /\ WF_vars(CooldownEnds)

FairSpec == Spec /\ Fairness
=============================================================================
