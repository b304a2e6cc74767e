\* Redis does not answer: the claim is refused.
SPECIFICATION Spec
CONSTANTS
    u1 = u1  u2 = u2  s1 = s1  s2 = s2  a1 = a1  a2 = a2
    r1 = r1  r2 = r2  r3 = r3  r4 = r4
    Users = {u1, u2}
    Slots = {s1}
    Activities = {a1}
    Requests = {r1, r2, r3}
    Home <- OneActivity
    TTL = 1
    MaxTime = 1
    NoUser = NoUser
    NoSlot = NoSlot
    NoActivity = NoActivity
    NoRequest = NoRequest
PROPERTIES TakenMeansContended
CHECK_DEADLOCK FALSE
