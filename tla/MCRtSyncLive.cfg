SPECIFICATION FairSpec
CONSTANTS
  c1 = c1
  c2 = c2
  Clients = {c1, c2}
  Pids = {c1, c2}
  PidOf <- MCPidOf
  MAX_CLIENTS_SUPPORT = 3
  Stdin = stdin
  Master = master
  NoFd = nofd
  NoPid = nopid
  ZeroPid = zeropid
  Backlog = 1
  FdLimit = 2
  BufCap = 2
  Keys = {"", "a", "b"}
  Vias = {"", "x", "y"}
  NoKey = ""
  NoVia = ""
  Macs = {"", "m"}
  NoMac = ""
  Inputs <- MCLiveInputs
  IpAnswers = {"valid", "invalid", "blank"}
  Faults = {"server", "interrupt", "crash"}
  MaxInputs = 2
CHECK_DEADLOCK FALSE
INVARIANTS
  LiveClientsRegistered
PROPERTIES
  ConnectionsAccepted
  MembersCatchUp
  QuitStopsClients
