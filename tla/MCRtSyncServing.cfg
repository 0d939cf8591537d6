SPECIFICATION Spec
CONSTANTS
  c1 = c1
  c2 = c2
  Clients = {c1, c2}
  Pids = {c1, c2}
  PidOf <- MCPidOf
  MAX_CLIENTS_SUPPORT = 4
  Stdin = stdin
  Master = master
  NoFd = nofd
  NoPid = nopid
  ZeroPid = zeropid
  Backlog = 1
  FdLimit = 2
  BufCap = 1
  Keys = {"", "a", "b"}
  Vias = {"", "x", "y"}
  NoKey = ""
  NoVia = ""
  Macs = {"", "m"}
  NoMac = ""
  Inputs <- MCInputs
  IpAnswers = {"valid"}
  Faults = {"interrupt"}
  MaxInputs = 3
CHECK_DEADLOCK FALSE
INVARIANT
  ServerKeepsServing
