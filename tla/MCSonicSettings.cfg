CONSTANTS
  a = a
  b = b
  pool = pool
  log = log
  public = public
  private = private
  Settings = {1}
  MaxFires = 2
  None = None
  Hosts = {pool, log}
  Pool <- MCPool
  Addr <- MCAddr
  Communities = {public, private}
  Pushes <- MCPushes
  Factory <- MCFactory
  NoAddr = NoAddr
  NoCommunity = NoCommunity
  MaxFaults = 2
SPECIFICATION Spec
INVARIANTS
  UndoneStaysDown
  Returns
  OnlyThePush
  NoChurn
