\* Two nodes with one uplink each, three guests, two slots for them; a node
\* with three NICs.
SPECIFICATION DriverSpec
CONSTANTS
    HostA = "a"
    HostB = "b"
    Hosts = {"a", "b"}
    Nowhere = "nowhere"
    NumGuests = 3
    NumPorts = 3
    UplinksA = 1
    UplinksB = 1
    Uplinks <- MCUplinks
    Numberings = {"cluster", "node"}
    Placements <- MCPlacements
    EditPorts = {2}
    EditClaims <- MCEditClaims
    MaxTags = 2
    Budget = 2
    Nics = {1, 2, 3}
    Bond = 9
    Nets <- MCNets
    Wirings <- MCWirings
    Uncabled = "none"
    Intents <- MCIntents
    MaxChanges = 1
    MaxFailures = 2
    NoView = NoView
INVARIANTS
    OnePortEach
PROPERTIES
    KeepsPort
    Settles
    Follows
