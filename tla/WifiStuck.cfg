\* Two commands: the Wi-Fi is switched off or to the hotspot in a scan, and then restarted. With the Wi-Fi off or the hotspot alone the task has nothing to do.
SPECIFICATION FairSpec
CONSTANTS
  home = home
  work = work
  None = None
  Networks = {home, work}
  Known = {home, work}
  Good = {work}
  SavedFirst = home
  RetryLimit = 1
  ApReady = TRUE
  Commands = {"off", "hotspot", "reconnect"}
  MaxCommands = 2
  MaxFaults = 0
  Mixed = TRUE
PROPERTIES FlowRestarts
CHECK_DEADLOCK FALSE
