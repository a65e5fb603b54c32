CONSTANTS
    dhcp = dhcp
    ppp = ppp
    ae = ae
    gpon = gpon
    ether = ether
    wan = wan
    None = None
    Modes <- MCModes
    Types = {gpon, ether}
    SupportedSFPTypes <- MCSupported
    Intf <- MCIntf
    Cages = {wan}
    Faults = {}
    MaxEvents = 6
SPECIFICATION Spec
PROPERTIES
    NoDetectionWithoutSfp
