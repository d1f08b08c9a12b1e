CONSTANTS
    OS = "linux"
    Hosts <- BuildHosts
    Args <- ConfigureArgs
    MaxRuns = 3
    None = None
    BuildArgs <- TypedBuildArgs
    MaxBuilds = 3
INIT BuildInit
NEXT BuildNext
INVARIANT BuiltWhatConfigured
