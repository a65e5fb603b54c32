CONSTANTS
    v4 = v4
    v6 = v6
    dual = dual
    Modes = {dhcp, dual}
    Versions <- MCVersions
    Needed <- MCNeeded
    Policies = {"AtBoot", "Continuous"}
    Faults = {}
    MaxEvents = 2
SPECIFICATION Spec
INVARIANTS
    NeverIdle
PROPERTIES
    FixedAtBoot
