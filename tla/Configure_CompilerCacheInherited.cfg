CONSTANTS
    OS = "linux"
    Hosts <- LinuxHosts
    Args <- LinuxArgs
    MaxRuns = 2
    None = None
SPECIFICATION Spec
INVARIANT CompilerCacheInherited
