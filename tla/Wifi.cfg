\* Two known networks, the password of one of them wrong; one command and a scan, or two faults. With the Wi-Fi off or the hotspot alone the task has nothing to do.
SPECIFICATION FairSpec
CONSTANTS
  home = home
  work = work
  None = None
  Networks = {home, work}
  Known = {home, work}
  Good = {work}
  SavedFirst = home
  RetryLimit = 1
  ApReady = TRUE
  Commands = {"test", "connect", "save", "reconnect", "scan", "hotspot", "off"}
  MaxCommands = 1
  MaxFaults = 2
  Mixed = FALSE
INVARIANTS TypeOK
PROPERTIES Reconnects LockReleased HotspotOffered HotspotEnds
CHECK_DEADLOCK FALSE
