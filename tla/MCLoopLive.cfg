\* One port with address mode and device-wide settings, under fairness.
SPECIFICATION FairSpec
CONSTANTS
    Cfgs <- MCCfgs
    NoCfg = NoCfg
    Firmwares = {}
    NoFw = NoFw
    NumSlots = 1
    Addrs = {"dhcp", "static"}
    Devs = {"d0", "d1"}
    DefaultDev = "d0"
    NoLayout = NoLayout
    NoJob = NoJob
    Kinds = {"ports"}
    Controls = {TRUE}
    Planner = TRUE
    AllowInitial = FALSE
    Seeding = TRUE
    StaleAfter = 2
    Bounds <- MCBounds
    Faults = 1
    Crashes = 1
    Moves = 0
    Drifts = 1
    Edits = 1
    Forgets = 1
INVARIANTS
    InSync
    StateAgrees
PROPERTIES
    Converges
    Completes
