\* Checks AuthRequiredForRequest alone; TLC reports the counterexample.
CONSTANTS
    c1 = c1  c2 = c2  c3 = c3  i1 = i1  i2 = i2  alice = alice
    NoIp = NoIp  NoConn = NoConn  Anonymous = Anonymous
    Conns <- MCConns
    Ips <- MCIps
    Users <- MCUsers
    Whitelist <- MCWhitelist
    MaxConnections = 2
    MaxPerIp = 1
    GlobalThreshold = 2
    FloodThreshold = 1
    MaxFailures = 2
    AuthEnabled = TRUE
SPECIFICATION Spec
INVARIANT AuthRequiredForRequest
SYMMETRY ConnSymmetry
