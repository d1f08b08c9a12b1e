CONSTANTS
    OS = "linux"
    Hosts <- LinuxHosts
    Args <- LinuxArgs
    MaxRuns = 2
    None = None
SPECIFICATION Spec
INVARIANTS
    TypeOK
    ConanConsistent
    ExplicitArgsPersist
PROPERTY
    GeneratorSwitchNeedsConsent
