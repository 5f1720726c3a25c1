\* A device is forgotten and adopted again; nothing else goes wrong.
SPECIFICATION Spec
CONSTANTS
    Cfgs <- MCCfgs
    NoCfg = NoCfg
    Firmwares = {}
    NoFw = NoFw
    NumSlots = 1
    Addrs = {"dhcp"}
    Devs = {"d0"}
    DefaultDev = "d0"
    NoLayout = NoLayout
    NoJob = NoJob
    Kinds = {"ports"}
    Controls = {TRUE}
    Planner = TRUE
    AllowInitial = FALSE
    Seeding = TRUE
    StaleAfter = 2
    Bounds <- MCBounds
    Faults = 0
    Crashes = 0
    Moves = 0
    Drifts = 0
    Edits = 0
    Forgets = 1
PROPERTIES
    WrittenOnlyIfAgreed
