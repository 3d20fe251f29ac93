\* The bounds of the DDoS part of MC_GatesApi: at most one connection per
\* IP in a window of two ticks, one-tick base blocks, ticks 0 to 3.
CONSTANTS
    d1 = d1
    d2 = d2
    t1 = t1
    Ips <- MCDdIps
    Tasks = {t1}
    Threshold = 1
    Window = 2
    BlockBase = 1
    MaxPerIp = 1
    GlobalThreshold = 1
    CleanupAge = 3
    ManualDurations = {2}
    MaxManual = 2
    MaxTime = 3
INIT DdInit
NEXT DdNext
INVARIANT
    ProgressiveBans
