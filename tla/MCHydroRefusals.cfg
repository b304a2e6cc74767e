\* One job whose refusal cannot be stored.
SPECIFICATION SpecRefusals
CONSTANTS
    c1 = c1  c2 = c2  c3 = c3  w1 = w1  w2 = w2
    Catches = {c1}
    Workers = {w1}
    MaxAttempts = 3
    Batch = 1
    BadBodies = {c1}
    MaxLag = 1
    MaxFaults = 0
    NoWorker = NoWorker
INVARIANTS RefusalNotRetried
