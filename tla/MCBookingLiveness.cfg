\* Two requests, one slot in each of two activities, weak fairness.
SPECIFICATION FairSpec
CONSTANTS
    u1 = u1  u2 = u2  s1 = s1  s2 = s2  a1 = a1  a2 = a2
    r1 = r1  r2 = r2  r3 = r3  r4 = r4
    Users = {u1}
    Slots = {s1, s2}
    Activities = {a1, a2}
    Requests = {r1, r2}
    Home <- OwnActivity
    TTL = 1
    MaxTime = 1
    NoUser = NoUser
    NoSlot = NoSlot
    NoActivity = NoActivity
    NoRequest = NoRequest
PROPERTIES EveryRequestAnswered LeaseEnds
CHECK_DEADLOCK FALSE
