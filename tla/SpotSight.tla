------------------------------ MODULE SpotSight ------------------------------
(***************************************************************************)
(* Spots, and who is shown what of them: CreateSpot, ListSpots,            *)
(* NearbySpots and GetSpot of internal/httpapi/handlers_spot.go, the       *)
(* queries they share in router.go, CanSeeExact of internal/spot, and the  *)
(* clubs of handlers_misc.go, whose members see the club's spots.          *)
(*                                                                         *)
(* Every statement is a step of its own, on a connection of its own; none  *)
(* of these handlers runs a transaction.  Nothing of this is ever deleted. *)
(* NearbySpots is a listing behind a scan limit, whose counters Redis      *)
(* keeps (allowScan, IncrWindow of internal/redisx).                       *)
(* Coordinates are either exact or fuzzed; of the depth samples only the   *)
(* number counts.                                                          *)
(***************************************************************************)
EXTENDS Integers, FiniteSets

CONSTANTS
    Users, Clubs, Spots,
    Requests,       \* identities of HTTP requests; each is used once
    Friends,        \* the accepted friendships, as sets of two users: rows
                    \* that only the seed inserts
    SeedOwner,      \* the owner of each club of the seed
    SeedMembers,    \* its club_members
    Samples,        \* depth samples in the body of a CreateSpot
    ScanLimit,      \* NearbySpots a caller is granted in a minute: 60
    NoUser,         \* nobody: an anonymous viewer
    NoClub, NoSpot

ASSUME NobodyAssumption ==
    NoUser \notin Users /\ NoClub \notin Clubs /\ NoSpot \notin Spots
ASSUME FriendsAssumption == Friends \subseteq {{u, v} : u, v \in Users}
ASSUME SeedAssumption ==
    /\ SeedOwner \in [Clubs -> Users \cup {NoUser}]
    /\ SeedMembers \subseteq Clubs \X Users
    /\ \A c \in Clubs : SeedOwner[c] # NoUser => <<c, SeedOwner[c]>> \in SeedMembers
ASSUME SamplesAssumption == Samples \in Nat
ASSUME ScanLimitAssumption == ScanLimit \in Nat \ {0}

VARIABLES
    clubOwner,      \* clubs.owner_id; NoUser where there is no such club
    member,         \* the APPROVED rows of club_members
    spots,          \* the rows of table spots; NoRow where there is none
    depths,         \* how many rows of spot_depths a spot has
    scans,          \* Redis: the counter of each caller; all of those whom
                    \* no token names share one (those of one address)
    ending,         \* Redis: whose counter has an expiry
    lost,           \* history: who has had a call to Redis fail since then
    granted,        \* history: scans the counter has let pass in its window
    pc, req,        \* where each request is, and what it asks for
    todo,           \* rows its listing has still to go through
    view,           \* the row it is at and what it knows about it
    out,            \* what it has put into its answer
    hitch,          \* whether one of its queries has failed unnoticed
    verdict

limiter == <<scans, ending, lost, granted>>
shared == <<clubOwner, member, spots, depths, limiter>>
locals == <<pc, req, todo, view, out, hitch, verdict>>
vars == <<shared, locals>>

-----------------------------------------------------------------------------
Visibilities == {"PRIVATE", "CLUB", "FRIENDS", "PUBLIC"}

Callers == Users \cup {NoUser}
Row == [owner : Users, club : Clubs \cup {NoClub}, vis : Visibilities]
NoRow == [owner |-> NoUser, club |-> NoClub, vis |-> "PRIVATE"]
NoView == [spot |-> NoSpot, depths |-> 0]
NoReq == [op |-> "none", user |-> NoUser, club |-> NoClub, spot |-> NoSpot, vis |-> "PRIVATE"]

Stored(s) == spots[s] # NoRow
AreFriends(u, v) == u # v /\ {u, v} \in Friends
IsClubMember(c, u) == <<c, u>> \in member

(* The WHERE clause of the listings.                                       *)
Listed(u, s) ==
    LET row == spots[s]
    IN  /\ Stored(s)
        /\ \/ row.vis = "PUBLIC"
           \/ /\ u # NoUser
              /\ \/ row.owner = u
                 \/ row.vis = "CLUB" /\ IsClubMember(row.club, u)
                 \/ row.vis = "FRIENDS" /\ AreFriends(u, row.owner)

(* Slip: the friends, whom the WHERE clause lets through, are forgotten.   *)
CanSeeExact_NoFriends(row, u, same, friend) ==
    \/ u # NoUser /\ u = row.owner
    \/ row.vis = "PUBLIC"
    \/ row.vis = "CLUB" /\ same /\ row.club # NoClub

(* CanSeeExact of internal/spot, and canListSpot of router.go.             *)
CanSeeExact(row, u, same, friend) ==
    \/ u # NoUser /\ u = row.owner
    \/ row.vis = "PUBLIC"
    \/ row.vis = "CLUB" /\ same /\ row.club # NoClub
    \/ row.vis = "FRIENDS" /\ friend

CanListSpot(row, u, same, friend) ==
    \/ u # NoUser /\ u = row.owner
    \/ row.vis = "PUBLIC"
    \/ row.vis = "CLUB" /\ same
    \/ row.vis = "FRIENDS" /\ friend

-----------------------------------------------------------------------------
Init ==
    /\ clubOwner = SeedOwner
    /\ member = SeedMembers
    /\ spots = [s \in Spots |-> NoRow]
    /\ depths = [s \in Spots |-> 0]
    /\ scans = [u \in Callers |-> 0]
    /\ ending = {}
    /\ lost = {}
    /\ granted = [u \in Callers |-> 0]
    /\ pc = [r \in Requests |-> "idle"]
    /\ req = [r \in Requests |-> NoReq]
    /\ todo = [r \in Requests |-> {}]
    /\ view = [r \in Requests |-> NoView]
    /\ out = [r \in Requests |-> {}]
    /\ hitch = [r \in Requests |-> FALSE]
    /\ verdict = [r \in Requests |-> "none"]

At(r, label) == pc[r] = label
Goto(r, label) == pc' = [pc EXCEPT ![r] = label]
Answer(r, v) == Goto(r, "done") /\ verdict' = [verdict EXCEPT ![r] = v]
User(r) == req[r].user
Ask(r, q) == At(r, "idle") /\ req' = [req EXCEPT ![r] = q]

(* A statement fails and its handler answers with the error.               *)
Fail(r) ==
    /\ pc[r] \in {"owner", "insert", "depth", "query", "row", "load"}
    /\ Answer(r, "ERROR")
    /\ UNCHANGED <<shared, req, todo, view, out, hitch>>

-----------------------------------------------------------------------------
(* Clubs: the club's row, and then its owner's membership.                 *)
CreateClub(r, u, c) ==
    /\ Ask(r, [NoReq EXCEPT !.op = "club", !.user = u, !.club = c])
    /\ clubOwner[c] = NoUser
    /\ clubOwner' = [clubOwner EXCEPT ![c] = u]
    /\ Goto(r, "owner")
    /\ UNCHANGED <<member, spots, depths, limiter, todo, view, out, hitch, verdict>>

AddOwner(r) ==
    /\ At(r, "owner")
    /\ member' = member \cup {<<req[r].club, User(r)>>}
    /\ Answer(r, "OK")
    /\ UNCHANGED <<clubOwner, spots, depths, limiter, req, todo, view, out, hitch>>

(* Clubs are never deleted, so the count that JoinClub takes first cannot  *)
(* go stale before its INSERT.  A count that fails is taken for a club     *)
(* that is not there; loadClub may fail when the member is in.             *)
JoinClub(r, u, c) ==
    /\ Ask(r, [NoReq EXCEPT !.op = "join", !.user = u, !.club = c])
    /\ \/ /\ clubOwner[c] # NoUser
          /\ member' = member \cup {<<c, u>>}
          /\ \E v \in {"OK", "ERROR"} : Answer(r, v)
       \/ Answer(r, "NOT_FOUND") /\ UNCHANGED member
    /\ UNCHANGED <<clubOwner, spots, depths, limiter, todo, view, out, hitch>>

-----------------------------------------------------------------------------
(* Slip: the membership is not asked for.                                  *)
MayCreate_AnyClub(u, c, vis) == vis = "CLUB" => c # NoClub

(* CreateSpot: the checks, the spot's row, its samples one by one.  With a *)
(* visibility other than CLUB any existing club may be named.  Where the   *)
(* membership is asked for, a failed query counts as a no.                 *)
MayCreate(u, c, vis) == vis = "CLUB" => c # NoClub /\ IsClubMember(c, u)

CreateSpot(r, u, s, c, vis) ==
    /\ Ask(r, [op |-> "create", user |-> u, club |-> c, spot |-> s, vis |-> vis])
    /\ \A q \in Requests : req[q].op = "create" => req[q].spot # s
    /\ c # NoClub => clubOwner[c] # NoUser
    /\ \/ MayCreate(u, c, vis) /\ Goto(r, "insert") /\ UNCHANGED verdict
       \/ vis = "CLUB" /\ c = NoClub /\ Answer(r, "VALIDATION")
       \/ vis = "CLUB" /\ c # NoClub /\ Answer(r, "FORBIDDEN")
    /\ UNCHANGED <<shared, todo, view, out, hitch>>

InsertSpot(r) ==
    /\ At(r, "insert")
    /\ spots' = [spots EXCEPT ![req[r].spot] =
           [owner |-> User(r), club |-> req[r].club, vis |-> req[r].vis]]
    /\ Goto(r, "depth")
    /\ UNCHANGED <<clubOwner, member, depths, limiter, req, todo, view, out, hitch,
                   verdict>>

(* Slip: a sample that cannot be stored is passed over.                    *)
InsertDepth_Lenient(r) ==
    /\ At(r, "depth")
    /\ \/ /\ depths[req[r].spot] < Samples
          /\ depths' = [depths EXCEPT ![req[r].spot] = @ + 1]
          /\ UNCHANGED <<pc, verdict>>
       \/ Answer(r, "OK") /\ UNCHANGED depths
    /\ UNCHANGED <<clubOwner, member, spots, limiter, req, todo, view, out, hitch>>

(* Slip: the loop runs once too often.                                     *)
InsertDepth_OneMore(r) ==
    /\ At(r, "depth")
    /\ depths' = [depths EXCEPT ![req[r].spot] = @ + 1]
    /\ IF depths[req[r].spot] < Samples THEN UNCHANGED <<pc, verdict>>
       ELSE Answer(r, "OK")
    /\ UNCHANGED <<clubOwner, member, spots, limiter, req, todo, view, out, hitch>>

InsertDepth(r) ==
    /\ At(r, "depth")
    /\ \/ /\ depths[req[r].spot] < Samples
          /\ depths' = [depths EXCEPT ![req[r].spot] = @ + 1]
          /\ UNCHANGED <<pc, verdict>>
       \/ /\ depths[req[r].spot] = Samples
          /\ Answer(r, "OK")
          /\ UNCHANGED depths
    /\ UNCHANGED <<clubOwner, member, spots, limiter, req, todo, view, out, hitch>>

-----------------------------------------------------------------------------
(* ListSpots and NearbySpots: the query, whose rows are those of the       *)
(* moment it starts, and then row by row loadDepths and toSpotDTO.         *)
BeginList(r, u) ==
    /\ Ask(r, [NoReq EXCEPT !.op = "list", !.user = u])
    /\ Goto(r, "query")
    /\ UNCHANGED <<shared, todo, view, out, hitch, verdict>>

(* NearbySpots is the same behind the scan limit.                          *)
BeginNearby(r, u) ==
    /\ Ask(r, [NoReq EXCEPT !.op = "list", !.user = u])
    /\ Goto(r, "scan")
    /\ UNCHANGED <<shared, todo, view, out, hitch, verdict>>

Counted(u) == [scans EXCEPT ![u] = @ + 1]

(* The scan of r passes the limiter.                                       *)
Grant(r, label) ==
    /\ granted' = [granted EXCEPT ![User(r)] = @ + 1]
    /\ Goto(r, label)
    /\ UNCHANGED verdict

(* Slip: the window is opened at a count of zero.                          *)
IncrWindow_FromZero(r) ==
    LET u == User(r)
    IN  /\ At(r, "scan")
        /\ scans' = Counted(u)
        /\ \/ scans[u] + 1 = 0 /\ Grant(r, "expire")
           \/ scans[u] + 1 \in 1 .. ScanLimit /\ Grant(r, "query")
           \/ scans[u] + 1 > ScanLimit /\ Answer(r, "RATE_LIMITED") /\ UNCHANGED granted
        /\ UNCHANGED <<clubOwner, member, spots, depths, ending, lost,
                       req, todo, view, out, hitch>>

(* Slip: the count before the scan is compared with the limit.             *)
IncrWindow_OneMore(r) ==
    LET u == User(r)
    IN  /\ At(r, "scan")
        /\ scans' = Counted(u)
        /\ \/ scans[u] = 0 /\ Grant(r, "expire")
           \/ scans[u] \in 1 .. ScanLimit /\ Grant(r, "query")
           \/ scans[u] > ScanLimit /\ Answer(r, "RATE_LIMITED") /\ UNCHANGED granted
        /\ UNCHANGED <<clubOwner, member, spots, depths, ending, lost,
                       req, todo, view, out, hitch>>

(* INCR, whose first count opens the window.                               *)
IncrWindow(r) ==
    LET u == User(r)
    IN  /\ At(r, "scan")
        /\ scans' = Counted(u)
        /\ \/ scans[u] = 0 /\ Grant(r, "expire")
           \/ scans[u] + 1 \in 2 .. ScanLimit /\ Grant(r, "query")
           \/ scans[u] >= ScanLimit /\ Answer(r, "RATE_LIMITED") /\ UNCHANGED granted
        /\ UNCHANGED <<clubOwner, member, spots, depths, ending, lost,
                       req, todo, view, out, hitch>>

(* Redis is not there, or its answer is not: the scan is allowed, and may  *)
(* have been counted.                                                      *)
IncrFails(r) ==
    /\ At(r, "scan")
    /\ \/ UNCHANGED <<scans, lost>>
       \/ scans' = Counted(User(r)) /\ lost' = lost \cup {User(r)}
    /\ Goto(r, "query")
    /\ UNCHANGED <<clubOwner, member, spots, depths, ending, granted,
                   req, todo, view, out, hitch, verdict>>

(* EXPIRE, whose error nobody looks at.                                    *)
Expire(r) ==
    /\ At(r, "expire")
    /\ \/ ending' = ending \cup {User(r)} /\ UNCHANGED lost
       \/ lost' = lost \cup {User(r)} /\ UNCHANGED ending
    /\ Goto(r, "query")
    /\ UNCHANGED <<clubOwner, member, spots, depths, scans, granted,
                   req, todo, view, out, hitch, verdict>>

(* The minute is over.                                                     *)
WindowEnds(u) ==
    /\ u \in ending
    /\ scans' = [scans EXCEPT ![u] = 0]
    /\ ending' = ending \ {u}
    /\ lost' = lost \ {u}
    /\ granted' = [granted EXCEPT ![u] = 0]
    /\ UNCHANGED <<clubOwner, member, spots, depths, locals>>

ListQuery(r) ==
    /\ At(r, "query")
    /\ todo' = [todo EXCEPT ![r] = {s \in Spots : Listed(User(r), s)}]
    /\ Goto(r, "row")
    /\ UNCHANGED <<shared, req, view, out, hitch, verdict>>

(* loadDepths, which answers a failed query with no samples.               *)
Load(r, s, keep) ==
    \/ /\ view' = [view EXCEPT ![r] = [spot   |-> s,
                                       depths |-> IF keep THEN depths[s] ELSE 0]]
       /\ UNCHANGED hitch
    \/ /\ view' = [view EXCEPT ![r] = [spot |-> s, depths |-> 0]]
       /\ hitch' = [hitch EXCEPT ![r] = TRUE]

(* One row of the listing, or its end.  rows.Err is not asked, so that a   *)
(* result that breaks off looks like one that ends.                        *)
ListRow(r) ==
    /\ At(r, "row")
    /\ \/ /\ hitch' = [hitch EXCEPT ![r] = @ \/ todo[r] # {}]
          /\ Answer(r, "OK")
          /\ UNCHANGED <<todo, view>>
       \/ /\ \E s \in todo[r] :
                todo' = [todo EXCEPT ![r] = @ \ {s}] /\ Load(r, s, TRUE)
          /\ Goto(r, "dto")
          /\ UNCHANGED verdict
    /\ UNCHANGED <<shared, req, out>>

(* GetSpot: the row; whether the viewer may list it; its samples.          *)
GetSpot(r, u, s) ==
    /\ Ask(r, [NoReq EXCEPT !.op = "get", !.user = u, !.spot = s])
    /\ Goto(r, "load")
    /\ UNCHANGED <<shared, todo, view, out, hitch, verdict>>

LoadSpot(r) ==
    /\ At(r, "load")
    /\ \/ Stored(req[r].spot) /\ Goto(r, "ask") /\ UNCHANGED verdict
       \/ ~Stored(req[r].spot) /\ Answer(r, "NOT_FOUND")
    /\ UNCHANGED <<shared, req, todo, view, out, hitch>>

(* isClubMember and areFriends, each of which takes a failure for a no.    *)
Knows(r, row, same, friend) ==
    \/ /\ same = IsClubMember(row.club, User(r))
       /\ friend = AreFriends(User(r), row.owner)
       /\ UNCHANGED hitch
    \/ /\ same \in {FALSE, IsClubMember(row.club, User(r))}
       /\ friend \in {FALSE, AreFriends(User(r), row.owner)}
       /\ hitch' = [hitch EXCEPT ![r] = TRUE]

AskSpot(r) ==
    LET s == req[r].spot
    IN  /\ At(r, "ask")
        /\ \E same, friend \in BOOLEAN :
              /\ Knows(r, spots[s], same, friend)
              /\ Goto(r, IF CanListSpot(spots[s], User(r), same, friend)
                         THEN "samples" ELSE "nosamples")
        /\ UNCHANGED <<shared, req, todo, view, out, verdict>>

LoadSamples(r) ==
    /\ pc[r] \in {"samples", "nosamples"}
    /\ Load(r, req[r].spot, At(r, "samples"))
    /\ Goto(r, "dto")
    /\ UNCHANGED <<shared, req, todo, out, verdict>>

(* Slip: a fuzzed spot keeps its note and its samples.                     *)
Shown_AsIs(op, exact, n) == [exact |-> exact, depths |-> n, note |-> TRUE]

(* GetSpot strips a fuzzed spot; the listings do not.                      *)
Shown(op, exact, n) ==
    IF op = "get" /\ ~exact THEN [exact |-> FALSE, depths |-> 0, note |-> FALSE]
    ELSE [exact |-> exact, depths |-> n, note |-> TRUE]

(* toSpotDTO, which asks for membership and friendship once more.          *)
ToSpotDTO(r) ==
    LET s == view[r].spot
    IN  /\ At(r, "dto")
        /\ \E same, friend \in BOOLEAN :
              /\ Knows(r, spots[s], same, friend)
              /\ out' = [out EXCEPT ![r] = @ \cup
                     {<<s, Shown(req[r].op,
                                 CanSeeExact(spots[s], User(r), same, friend),
                                 view[r].depths)>>}]
        /\ \/ req[r].op = "list" /\ Goto(r, "row") /\ UNCHANGED verdict
           \/ req[r].op = "get" /\ Answer(r, "OK")
        /\ UNCHANGED <<shared, req, todo, view>>

-----------------------------------------------------------------------------
Step(r) ==
    \/ AddOwner(r) \/ InsertSpot(r) \/ InsertDepth(r)
    \/ IncrWindow(r) \/ IncrFails(r) \/ Expire(r)
    \/ ListQuery(r) \/ ListRow(r) \/ LoadSpot(r) \/ AskSpot(r) \/ LoadSamples(r)
    \/ ToSpotDTO(r)

Arrive(r) ==
    \/ \E u \in Users, c \in Clubs : CreateClub(r, u, c) \/ JoinClub(r, u, c)
    \/ \E u \in Users, s \in Spots, c \in Clubs \cup {NoClub}, vis \in Visibilities :
          CreateSpot(r, u, s, c, vis)
    \/ \E u \in Users \cup {NoUser} :
          BeginList(r, u) \/ BeginNearby(r, u) \/ \E s \in Spots : GetSpot(r, u, s)

Next ==
    \/ \E r \in Requests : Arrive(r) \/ Step(r) \/ Fail(r)
    \/ \E u \in Callers : WindowEnds(u)

Spec == Init /\ [][Next]_vars

-----------------------------------------------------------------------------
(* Every variable keeps its type.                                          *)
TypeOK ==
    /\ clubOwner \in [Clubs -> Users \cup {NoUser}]
    /\ member \subseteq Clubs \X Users
    /\ spots \in [Spots -> Row \cup {NoRow}]
    /\ depths \in [Spots -> 0 .. Samples]
    /\ scans \in [Callers -> Nat]
    /\ ending \subseteq Callers /\ lost \subseteq Callers
    /\ granted \in [Callers -> Nat]
    /\ todo \in [Requests -> SUBSET Spots]
    /\ view \in [Requests -> [spot : Spots \cup {NoSpot}, depths : 0 .. Samples]]

(* Who may see a spot's place, samples and note: its owner; everybody if   *)
(* it is public; the members of its club; the friends of its owner.        *)
Allowed(u, s) ==
    \/ spots[s].vis = "PUBLIC"
    \/ u = spots[s].owner
    \/ spots[s].vis = "CLUB" /\ <<spots[s].club, u>> \in member
    \/ spots[s].vis = "FRIENDS" /\ AreFriends(u, spots[s].owner)

(* No answer, not one whose queries failed or that was overtaken by a new  *)
(* membership, shows exact coordinates, samples or the note of a spot to   *)
(* somebody who may not see them.                                          *)
DetailMeansAllowed ==
    \A r \in Requests : \A shown \in out[r] :
        shown[2].exact \/ shown[2].depths > 0 \/ shown[2].note
            => Allowed(User(r), shown[1])

(* The three rules agree: whatever the WHERE clause lets through is shown  *)
(* exactly, although membership is asked for again later and elsewhere.    *)
(* Only a failed query makes a listing show a fuzzed spot.                 *)
ListedSeenExactly ==
    \A r \in Requests : req[r].op = "list" /\ ~hitch[r] =>
        \A shown \in out[r] : shown[2].exact

(* A spot that only a club sees belongs to one of the club's members,      *)
(* although CreateSpot checks that long before it inserts.                 *)
ClubSpotsOfMembers ==
    \A s \in Spots : spots[s].vis = "CLUB" => IsClubMember(spots[s].club, spots[s].owner)

(* A creation that is reported as done is there in full: the spot with all *)
(* its samples, the club with its owner as a member.                       *)
OkMeansWhole ==
    \A r \in Requests : verdict[r] = "OK" =>
        /\ req[r].op = "create" =>
              Stored(req[r].spot) /\ depths[req[r].spot] = Samples
        /\ req[r].op = "club" => IsClubMember(req[r].club, User(r))

(* Nobody is held to the scan limit for good: a counter has an expiry, or  *)
(* a request is about to give it one, or a call to Redis for this caller   *)
(* has failed.  (Then it may really stay: IncrWindow sets the expiry at    *)
(* the count of one only.)                                                 *)
LimitLifts ==
    \A u \in Callers : scans[u] > 0 /\ u \notin ending \cup lost =>
        \E r \in Requests : At(r, "expire") /\ User(r) = u

(* Nobody is let through more often than the limit in one window of a      *)
(* counter, however many scans are under way at once; scans that pass      *)
(* because Redis does not answer are not counted here.                     *)
LimitHolds == \A u \in Callers : granted[u] <= ScanLimit

(* The scan limit limits, and it lifts.                                    *)
ScanWindow == LimitHolds /\ LimitLifts
=============================================================================
