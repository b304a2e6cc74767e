\* Two servers work on the same queue and crash.
SPECIFICATION FairSpec
CONSTANTS
    c1 = c1  c2 = c2  c3 = c3  w1 = w1  w2 = w2
    Catches = {c1, c2}
    Workers = {w1, w2}
    MaxAttempts = 3
    Batch = 2
    BadBodies = {c1}
    MaxLag = 1
    MaxFaults = 2
    NoWorker = NoWorker
INVARIANTS TypeOK OneStory RetriesKept
PROPERTIES SettledForGood ImplementsBinding EverySettles
