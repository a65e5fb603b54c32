CONSTANTS
    twoIntf = twoIntf
    oneIntf = oneIntf
    pathless = pathless
    s1 = s1
    s2 = s2
    s3 = s3
    s4 = s4
    None = None
    Modes <- MCModes
    Servers <- MCServers
    DNSServers <- MCDNSServers
    Pathless <- MCPathless
    DNSMode <- MCDNSMode
    DNSModes = {"Static", "Dynamic"}
    MaxForwardings = 4
    Faults = {}
SPECIFICATION Spec
INVARIANT StaticServersRelayed
