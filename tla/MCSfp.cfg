CONSTANTS
    dhcp = dhcp
    ppp = ppp
    ae = ae
    gpon = gpon
    ether = ether
    wan = wan
    None = None
    Modes <- MCModes
    Types = {gpon, ether}
    SupportedSFPTypes <- MCSupported
    Intf <- MCIntf
    Cages = {wan}
    Faults = {"ApplyFails", "Restart"}
    MaxEvents = 6
SPECIFICATION Spec
INVARIANTS
    TypeOK
    FlagMeansRemoved
    ModesAgree
PROPERTIES
    PluggedIsDetected
