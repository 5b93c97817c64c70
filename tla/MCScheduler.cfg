\* Three workers compete for the two stacks that the GUI thread leaves.
CONSTANTS
    Threads = {t1, t2, t3, t4}
    Main = Main
    NoThread = NoThread
    MaxThreads = 3
SPECIFICATION FairSpec
INVARIANTS TypeOK MutualExclusion CountMatchesSlots StacksExclusive
PROPERTIES OnlyOwnerReleases ImplementsPool CallsReturn
CHECK_DEADLOCK FALSE
