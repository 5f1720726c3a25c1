\* Two slots: partial writes, arrivals next to settled ports, outlets, control
\* switched on and off between restarts.
SPECIFICATION Spec
CONSTANTS
    Cfgs <- MCCfgs
    NoCfg = NoCfg
    Firmwares = {}
    NoFw = NoFw
    NumSlots = 2
    Addrs = {"dhcp"}
    Devs = {"d0"}
    DefaultDev = "d0"
    NoLayout = NoLayout
    NoJob = NoJob
    Kinds = {"ports", "outlets"}
    Controls = {TRUE, FALSE}
    Planner = TRUE
    AllowInitial = FALSE
    Seeding = TRUE
    StaleAfter = 2
    Bounds <- MCBounds
    Faults = 1
    Crashes = 1
    Moves = 1
    Drifts = 1
    Edits = 0
    Forgets = 0
INVARIANTS
    TypeOK
PROPERTIES
    ClaimedIsWritten
    NoBlindWrite
