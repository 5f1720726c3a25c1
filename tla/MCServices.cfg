CONSTANTS
  s1 = s1
  s2 = s2
  Conds = {"on_battery", "low_battery"}
  Hysteresis = {"low_battery"}
  Tests = {"", "passed", "running"}
  CommLostAfter = 3
  RecoverPolls = 2
  Sessions = {s1, s2}
  Ips = {"ip1", "ip2"}
  Specs <- MCSpecs
  Ids = {"ups", "lab"}
  Logins = {"right", "wrong"}
  Stopped = Stopped
  NoLogin = NoLogin
  MaxPushes = 3
  MaxSize = 2
  Keep = 2
  Sizes = {1, 3}
  MaxLines = 5
  Max404s = 3
  NoFile = NoFile
  Cards = {"pdu", "ups", "backups"}
  Outlets = {1, 2}
  Main = 1
  ControlOutlets = {1, 2}
  Names = {"a name too", "a name too long to keep"}
  Truncate <- MCTruncate
  Addresses = {"a1", "lease"}
  Lease = "lease"
  Servers = {"h1", "h2"}
  HostLists <- MCLists
  NumServers = 2
  MaxMisses = 2
  Allow = FALSE
  NoUpload = NoUpload
  NoAddress = NoAddress
  Nobody = Nobody
  MaxEdits = 2
  MaxTroubles = 1
SPECIFICATION Spec
INVARIANTS
  OneOutage
  ClientsAreLoggedIn
PROPERTIES
  LogKept
  OutagesEnd
  ServesThePush
  NoSurprise
  RelaysReach
  SettingsReach
