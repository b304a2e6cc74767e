\* Three servers that start together on an empty database.
SPECIFICATION FairSpec
CONSTANTS
    sv1 = sv1  sv2 = sv2  sv3 = sv3
    Servers = {sv1, sv2, sv3}
    UserRows = 2  SeedRows = 4  MaxTries = 2  MaxFaults = 3
    NoServer = NoServer
INVARIANTS TypeOK MigrationsFirst SeededInOrder
PROPERTIES EveryoneServes
\* Nothing is left to do when all serve and no fault is left.
CHECK_DEADLOCK FALSE
