CONSTANTS
    gpon = gpon
    wifi = wifi
    eth = eth
    xpon = xpon
    MaxNames = 2
    Modes = {dhcp, wifi}
    Unknown = nomode
    NoType = notype
    PhysTypes <- MCPhysTypes
    physical <- MCphysical
    Values <- MCValues
    Broken = {}
    Bridged = {dhcp}
    SkipDisable = {}
    Switchable = {eth}
    SystemModule = TRUE
    Disturbances = {"UnknownName", "EarlyRequest", "Rewire", "SharedType", "DnsOutage", "PortRefused"}
    MaxEvents = 2
SPECIFICATION Spec
INVARIANTS
    TypeOK
    DisabledIsTornDown
PROPERTIES
    EventsAreHandled
    RefusedWriteIsUndone
