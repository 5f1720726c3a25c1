\* Two pushes (versions 2 and 3), an emulated and a real firmware version,
\* one restart, two real firmware changes and one failed write.
SPECIFICATION Spec
CONSTANTS
    Cfgs = {"cfgA", "cfgB"}
    NoCfg = NoCfg
    Firmwares = {"fw1", "fw2"}
    NoFw = NoFw
    CfgOf <- MCCfgOf
    MgmtVersion = 1
    Pins = {"fw2", NoFw}
    MaxMoves = 2
    MaxFailures = 1
    MaxCrashes = 1
INVARIANTS
    ClaimMatchesText
    TruthWins
    NothingLost
