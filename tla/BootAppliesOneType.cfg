CONSTANTS
    gpon = gpon
    wifi = wifi
    eth = eth
    xpon = xpon
    MaxNames = 2
    Modes = {dhcp, gpon}
    Unknown = nomode
    NoType = notype
    PhysTypes <- MCPhysTypes
    physical <- MCphysical
    Values <- MCValues
    Broken = {}
    Bridged = {}
    SkipDisable = {}
    Switchable = {eth, xpon}
    SystemModule = TRUE
    Disturbances = {}
    MaxEvents = 2
SPECIFICATION BootSpec
INVARIANT AppliedAtBoot
