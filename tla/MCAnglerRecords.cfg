\* Three requests of two anglers.
SPECIFICATION OrderedSpec
CONSTANTS
    r1 = r1  r2 = r2  r3 = r3  alice = alice  bob = bob
    nickname = nickname  lure_pref = lure_pref
    Requests = {r1, r2, r3}
    Users = {alice, bob}
    Members = {alice}
    Fields = {nickname, lure_pref}
    Species = {"PERCH", "BASS"}
    NoSpecies = ""
    Entries <- Catch
    Limit = 1
    Nobody = Nobody
INVARIANTS TypeOK BookAgrees PhotosInPlace ReadYourWrites PatchStands
PROPERTIES EveryRequestAnswered
\* The instance stops when its requests are answered.
CHECK_DEADLOCK FALSE
