\* Three calls; an access token lapses at the first tick.
SPECIFICATION OrderedSpec
CONSTANTS
    c1 = c1  c2 = c2  c3 = c3  alice = alice  bob = bob
    Users = {alice, bob}
    Calls = {c1, c2, c3}
    AccessTTL = 1
    RefreshTTL = 2
    Nobody = Nobody
INVARIANTS TypeOK EnteredOnce ShownOwnsTokens StaysSignedIn
PROPERTIES NothingHangs
CHECK_DEADLOCK FALSE
