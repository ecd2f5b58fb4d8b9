CONSTANTS
    Threads = {t1, t2, t3}
    None = None
SPECIFICATION FairSpec
INVARIANTS
    IInv
    MutualExclusion
    DowngradePremise
PROPERTIES
    Implements
    Granted
