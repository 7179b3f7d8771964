SPECIFICATION FairSpec
CONSTANTS
  Configs <- MCConfigs
  Clients = {"local", "remote"}
  Network <- MCNetwork
  PrivateNetworks = {"lan", "vpn"}
INVARIANTS TypeOK GraceBeforeClose NothingStaysOpen FakeNeverServes
PROPERTY StopsOnSignal
CHECK_DEADLOCK FALSE
