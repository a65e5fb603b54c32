CONSTANTS
    gpon = gpon
    wifi = wifi
    eth = eth
    xpon = xpon
    MaxNames = 2
    Modes = {dhcp, ppp, gpon, wifi}
    Unknown = nomode
    NoType = notype
    PhysTypes <- MCPhysTypes
    physical <- MCphysical
    Values <- MCValues
    Broken = {}
    Bridged = {}
    SkipDisable = {ppp}
    Switchable = {eth, xpon}
    SystemModule = TRUE
    Disturbances = {"SfpUnreadable", "UpdateFails"}
    MaxEvents = 2
SPECIFICATION Spec
INVARIANTS
    CalmInv
    EnabledIsConfigured
    DisabledIsTornDown
    OnlyListedModesConfigured
    OneModePerPhysicalType
    UplinkOfEnabledModeIsOn
PROPERTIES
    TornDownOnlyWhenDropped
    ClearedOnlyWhenApplied
    ImplementsManager
