---------------------------- MODULE WifiProperties ----------------------------
(***************************************************************************)
(* What the Wi-Fi manager is meant to guarantee.                           *)
(***************************************************************************)
EXTENDS WifiManager, FiniteSets

\* Switching Wi-Fi off or to the hotspot in the middle of a scan leaves the scan
\* marked as started for ever, and no other is begun.
ScanForgotten == scan.started /\ scan.purpose = "none"

\* The manager is left to itself, and can scan.
AtWork == mode = "auto" /\ radio.sta /\ ~ScanForgotten

\* At most one network refuses us.  What failed last has one slot, g_failed_candidate:
\* where two networks that come first in the choice fail in turn, each is forgotten as
\* the other one fails, and a third is never tried.
OneRefuses == Cardinality(Networks \ Good) <= 1

\* As long as a network that is known is within reach, with the right password, the
\* link stands in the end: whatever was lost, refused or put off before, and though
\* one network that comes first in the choice fails again and again.
Reconnects ==
  OneRefuses =>
    (<>[](AtWork /\ radio.up \cap Good \cap Known # {}) => <>[]Joined)

\* The power lock that an attempt to join takes is given back, however the attempt
\* ends, if no user has come between.
LockReleased == [](AtWork /\ commands = 0) => []<>~lock

\* With no network within reach the hotspot is there in the end, and it is gone in
\* the end when the link stands.
HotspotOffered == <>[](AtWork /\ radio.up = {}) /\ ApReady => <>[]ap.on
HotspotEnds == <>[](AtWork /\ Joined) => <>[]~ap.on

\* Restarting the auto-connect flow makes the manager scan, or join, again.
FlowRestarts ==
  <>[](mode = "auto" /\ radio.sta) => []<>(scan.purpose # "none" \/ radio.link # "off")
=============================================================================
