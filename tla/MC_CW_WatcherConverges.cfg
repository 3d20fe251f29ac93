\* Hot reload with one reload() caller racing the notify callback; the
\* world stops after two changes of the file.
CONSTANTS
    f1 = f1  f2 = f2  r1 = r1
    Bad = Bad  Empty = Empty  Absent = Absent  DefaultCfg = DefaultCfg
    Configs <- MCConfigs
    Callers <- MCCallers
    MaxFileOps = 2
SPECIFICATION CwSpec
PROPERTY WatcherConverges
CHECK_DEADLOCK FALSE
