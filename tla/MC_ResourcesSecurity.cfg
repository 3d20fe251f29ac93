\* Resources: three tasks, a budget of 2, memory modulo 8 (no sum of held
\* allocations reaches it) for 2^64, one upstream whose pool keeps two of
\* three streams.  Fail2ban: three addresses, one whitelisted; two failures
\* within a window of two ticks ban, for 2 ticks and then 3 (the cap);
\* cleanup every tick; delays of 1000 ms doubling to at most 30000 ms;
\* ban_ip for 0 or 1 tick; six instants, at most two bans per address.
\* Secrets: the configurations, environments and files of MC_Secrets.
CONSTANTS
    t1 = t1  t2 = t2  t3 = t3  s1 = s1  s2 = s2  s3 = s3  k1 = k1
    NoStream = NoStream
    Tasks <- MCTasks
    Streams <- MCStreams
    Keys <- MCKeys
    Sizes = {1, 2}
    MaxMemory = 2
    MemModulus = 8
    MaxPoolSize = 2
    MaxPoolGets = 3
    i1 = i1  i2 = i2  i3 = i3
    Ips <- MCIps
    Whitelist <- MCWhitelist
    MaxFailures = 2
    WindowLen = 2
    BanBase = 2
    BanMultiplier = 2
    MaxBan = 3
    CleanupInterval = 1
    EnableDelays = TRUE
    BaseDelay = 1000
    MaxDelay = 30000
    ManualDurations = {0, 1}
    MaxTime = 5
    MaxBans = 2
    NoneV = NoneV
    None <- NoneV
    NoFileV = NoFileV
    NoFile <- NoFileV
    FileConfigs <- MCFileConfigs
    TomlOf <- MCTomlOf
    InitFiles <- MCInitFiles
    Envs <- MCEnvs
    Settings <- MCSettings
    KeyVar = "KEY"
    Names <- MCNames
    Passwords <- MCPasswords
    CacheKeys <- MCCacheKeys
    CacheValues <- MCCacheValues
INIT RfInit
NEXT RfNext
SYMMETRY RfSymmetry
INVARIANTS ResTypeOK AcceptedWithinBudget PeakIsHighWater SecTypeOK FileRoundTrip AcceptedOnlyFromSources
PROPERTIES ImplementsAbstractFail2Ban BanCountKept
