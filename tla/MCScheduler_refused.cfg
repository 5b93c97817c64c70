\* One creation too many, and then a worker ends.
CONSTANTS
    Threads = {t1, t2, t3}
    Main = Main
    NoThread = NoThread
    MaxThreads = 2
SPECIFICATION FairSpec
PROPERTY EndedThreadsEnd
CHECK_DEADLOCK FALSE
