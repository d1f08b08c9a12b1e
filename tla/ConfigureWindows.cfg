CONSTANTS
    OS = "windows"
    Hosts <- WindowsHosts
    Args <- WindowsArgs
    MaxRuns = 2
    None = None
SPECIFICATION Spec
INVARIANTS
    ConanConsistent
    ToolchainReadyForCMake
PROPERTY
    WorkspaceLifecycle
