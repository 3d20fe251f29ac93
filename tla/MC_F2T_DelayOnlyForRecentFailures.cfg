\* check_auth_attempt delays only for failures within the window.  The
\* fail2ban world of MC_ResourcesSecurity.
CONSTANTS
    i1 = i1  i2 = i2  i3 = i3
    Ips <- MCIps
    Whitelist <- MCWhitelist
    MaxFailures = 2
    WindowLen = 2
    BanBase = 2
    BanMultiplier = 2
    MaxBan = 3
    CleanupInterval = 1
    EnableDelays = TRUE
    BaseDelay = 1000
    MaxDelay = 30000
    ManualDurations = {0, 1}
    MaxTime = 5
    MaxBans = 2
SPECIFICATION F2tSpec
INVARIANT DelayOnlyForRecentFailures
