SPECIFICATION Spec
CONSTANTS
    None = None
    MountKinds = {"mount", "keep"}
    Faults = {"hard", "less"}
    MaxData = 2
    MaxChanges = 1
    MaxCrashes = 1
    MaxFaults = 1
INVARIANTS Recoverable CleanIsPermanent QuickMountAgrees
PROPERTIES AtomicCommit
