\* Two IPs, a burst of two connection tokens refilled at half a token a
\* second, one auth token refilled at one a second, a global bucket of ten, four-second blocks, a
\* four-second eviction age (long enough to refill a whole burst), and
\* seconds 0 to 4.  The management API's model: two usernames and one
\* password besides the empty and the over-long string, the two methods
\* validate_auth_config accepts, and at most three users.  The DDoS
\* protector's bounds are given in MC_GatesApi.
CONSTANTS
    EmptyStrV = EmptyStrV
    LongStrV = LongStrV
    EmptyStr <- EmptyStrV
    LongStr <- LongStrV
    Names = {"alice", "bob"}
    Passwords = {"pw"}
    Methods = {"none", "userpass"}
    InitConfigs <- MCInitConfigs
    UpdateConfigs <- MCUpdateConfigs
    MaxUsers = 3
    i1 = i1
    i2 = i2
    Ips <- MCIps
    Burst = 2
    PerMinute = 30
    AuthBurst = 1
    AuthPerMinute = 60
    GlobalPerSecond = 1
    BlockSecs = 4
    CleanupSecs = 2
    MaxTime = 4
INIT GaInit
NEXT GaNext
INVARIANTS
    RlTypeOK
    RateBound
    ApiTypeOK
    UsersWellFormed
    NoDuplicateCreated
    DdtTypeOK
    FloodBound
SYMMETRY IpPerms
PROPERTIES
    BlockHonoured
