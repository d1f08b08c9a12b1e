CONSTANTS
    OS = "linux"
    Hosts <- BuildHosts
    Args <- ConfigureArgs
    MaxRuns = 2
    None = None
    BuildArgs <- LinuxBuildArgs
    MaxBuilds = 2
INIT BuildInit
NEXT BuildNext
INVARIANT ExplicitTypeBuilt
