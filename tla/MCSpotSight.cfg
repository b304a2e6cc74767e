\* Three requests around one spot, one club of the seed and one new club.
SPECIFICATION ScanSpec
CONSTANTS
    anna = anna  ben = ben  cleo = cleo  c1 = c1  c2 = c2  s1 = s1
    r1 = r1  r2 = r2  r3 = r3
    Users = {anna, ben, cleo}
    Clubs = {c1, c2}
    Spots = {s1}
    Requests = {r1, r2, r3}
    Friends <- AnnaAndBen
    SeedOwner <- AnnasClub
    SeedMembers <- JustAnna
    Samples = 1
    ScanLimit = 2
    NoUser = NoUser  NoClub = NoClub  NoSpot = NoSpot
SYMMETRY Symmetry
INVARIANTS TypeOK DetailMeansAllowed ListedSeenExactly ClubSpotsOfMembers OkMeansWhole
    ScanWindow
\* The instance stops when its requests are used up.
CHECK_DEADLOCK FALSE
