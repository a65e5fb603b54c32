CONSTANTS
    Interfaces = {eth, gpon}
    Routed = {eth, gpon}
    Faults = {}
SPECIFICATION Spec
PROPERTIES
    RoutesOfOthersStay
