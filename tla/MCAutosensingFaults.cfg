CONSTANTS
    v4 = v4
    v6 = v6
    dual = dual
    Modes = {dhcp, dual}
    Versions <- MCVersions
    Needed <- MCNeeded
    Policies = {"Continuous", "Sticky"}
    Faults = {"Reset", "RefusedRequest", "StartFails", "SfpDetected", "SetFails",
              "NetworkSelector"}
    MaxEvents = 2
SPECIFICATION Spec
INVARIANTS
    TypeOK
    NoSensingInManual
    NoClash
    NoStaleUpFlag
PROPERTIES
    StickyWaits
