--------------------------- MODULE SpotSightProofs ---------------------------
(***************************************************************************)
(* Theorems about SpotSight, for any users, clubs, spots, friendships and  *)
(* number of requests.  What they rest on: a request never changes what it *)
(* asks for, memberships and spots only ever come to be, and every spot is *)
(* the work of one request.                                                *)
(***************************************************************************)
EXTENDS SpotSight, TLAPS

Ops == {"none", "club", "join", "create", "list", "get"}
Req == [op : Ops, user : Users \cup {NoUser}, club : Clubs \cup {NoClub},
        spot : Spots \cup {NoSpot}, vis : Visibilities]
Labels == {"idle", "owner", "insert", "depth", "scan", "expire", "query", "row",
           "load", "ask", "samples", "nosamples", "dto", "done"}
Verdicts == {"none", "OK", "ERROR", "NOT_FOUND", "VALIDATION", "FORBIDDEN",
             "RATE_LIMITED"}
Shape == [exact : BOOLEAN, depths : 0 .. Samples, note : BOOLEAN]

(* The types of the local variables that TypeOK does not name.             *)
LocalTypes ==
    /\ pc \in [Requests -> Labels]
    /\ req \in [Requests -> Req]
    /\ out \in [Requests -> SUBSET (Spots \X Shape)]
    /\ hitch \in [Requests -> BOOLEAN]
    /\ verdict \in [Requests -> Verdicts]

(* A request is only ever at the steps of its own handler.                 *)
InItsHandler ==
    \A r \in Requests :
        /\ pc[r] = "idle" => req[r] = NoReq /\ out[r] = {}
        /\ pc[r] = "owner" => req[r].op = "club"
        /\ pc[r] \in {"insert", "depth"} =>
              req[r].op = "create" /\ User(r) \in Users /\ req[r].spot \in Spots
        /\ pc[r] \in {"scan", "expire", "query", "row"} => req[r].op = "list"
        /\ pc[r] \in {"load", "ask", "samples", "nosamples"} =>
              req[r].op = "get" /\ req[r].spot \in Spots
        /\ pc[r] = "dto" => req[r].op \in {"list", "get"} /\ view[r].spot \in Spots
        /\ req[r].op = "create" => req[r].spot \in Spots
        /\ req[r].op = "club" => <<req[r].club, User(r)>> \in Clubs \X Users
        /\ verdict[r] = "OK" => pc[r] = "done"

(* A spot comes from the one request that names it in a CreateSpot.        *)
OneCreator ==
    /\ \A r, q \in Requests :
          req[r].op = "create" /\ req[q].op = "create" /\ req[r].spot = req[q].spot
              => r = q
    /\ \A s \in Spots : Stored(s) =>
          \E q \in Requests : req[q].op = "create" /\ req[q].spot = s
    /\ \A r \in Requests :
          /\ pc[r] = "insert" => ~Stored(req[r].spot)
          /\ pc[r] = "depth" => Stored(req[r].spot)

(* What a handler has read of a spot is still so.                          *)
SeenStored ==
    \A r \in Requests :
        /\ \A s \in todo[r] :
          pc[r] \in {"row", "dto"} /\ req[r].op = "list" => Listed(User(r), s)
        /\ pc[r] \in {"ask", "samples", "nosamples"} => Stored(req[r].spot)
        /\ pc[r] = "dto" => Stored(view[r].spot)
        /\ pc[r] = "dto" /\ req[r].op = "list" => Listed(User(r), view[r].spot)
        /\ \A shown \in out[r] : Stored(shown[1])

(* Who was a member when CreateSpot asked is one when it inserts.          *)
CreatorsAreMembers ==
    \A r \in Requests : pc[r] = "insert" /\ req[r].vis = "CLUB" =>
        IsClubMember(req[r].club, User(r))

(* Every scan that was let through was counted, and none beyond the limit. *)
GrantsCounted ==
    \A u \in Callers : granted[u] <= scans[u] /\ granted[u] <= ScanLimit

Types == TypeOK /\ LocalTypes
Control == InItsHandler /\ OneCreator /\ SeenStored
Promises == /\ DetailMeansAllowed /\ ListedSeenExactly
            /\ CreatorsAreMembers /\ ClubSpotsOfMembers /\ OkMeansWhole
            /\ LimitLifts /\ GrantsCounted
IInv == Types /\ Control /\ Promises

-----------------------------------------------------------------------------
LEMMA InitHolds == Init => IInv
<1> SUFFICES ASSUME Init PROVE IInv
  OBVIOUS
<1>1. Types
  BY SeedAssumption, SamplesAssumption
     DEF Init, Types, TypeOK, LocalTypes, Callers, Req, NoReq, NoView, Ops, Visibilities,
         Labels, Verdicts
<1>2. Control
  BY DEF Init, Control, InItsHandler, OneCreator, SeenStored, Stored, NoReq, User
<1>3. Promises
  BY ScanLimitAssumption
     DEF Init, Promises, DetailMeansAllowed, ListedSeenExactly, CreatorsAreMembers,
         ClubSpotsOfMembers, OkMeansWhole, LimitLifts, GrantsCounted, NoRow
<1> QED  BY <1>1, <1>2, <1>3 DEF IInv

(* Whose counter a request is counted on.                                  *)
LEMMA UsersAreCallers == Types => \A r \in Requests : User(r) \in Callers
BY DEF Types, LocalTypes, Req, User, Callers

(* A row is never the row of no spot.                                      *)
LEMMA RowsAreRows == \A row \in Row : row # NoRow /\ row.owner # NoUser
BY NobodyAssumption DEF Row, NoRow

(* What loadDepths leaves behind.                                          *)
LEMMA LoadTypes ==
    ASSUME Types, NEW r \in Requests, NEW s \in Spots, NEW keep \in BOOLEAN,
           Load(r, s, keep)
    PROVE  /\ view' \in [Requests -> [spot : Spots \cup {NoSpot}, depths : 0 .. Samples]]
           /\ view'[r].spot = s
           /\ \A q \in Requests \ {r} : view'[q] = view[q]
           /\ hitch' \in [Requests -> BOOLEAN]
           /\ \A q \in Requests : hitch[q] => hitch'[q]
<1>1. PICK n \in 0 .. Samples : view' = [view EXCEPT ![r] = [spot |-> s, depths |-> n]]
  <2>1. 0 \in 0 .. Samples /\ depths[s] \in 0 .. Samples
    BY SamplesAssumption DEF Types, TypeOK
  <2> QED  BY <2>1 DEF Load
<1>2. [spot |-> s, depths |-> n] \in [spot : Spots \cup {NoSpot}, depths : 0 .. Samples]
  OBVIOUS
<1>3. view \in [Requests -> [spot : Spots \cup {NoSpot}, depths : 0 .. Samples]]
  BY DEF Types, TypeOK
<1>4. hitch' \in [Requests -> BOOLEAN] /\ \A q \in Requests : hitch[q] => hitch'[q]
  BY DEF Load, Types, LocalTypes
<1> QED  BY <1>1, <1>2, <1>3, <1>4

-----------------------------------------------------------------------------
(* Types, action by action.                                                *)
LEMMA TypesKept == Types /\ InItsHandler /\ [Next]_vars => Types'
<1> SUFFICES ASSUME Types, InItsHandler, [Next]_vars PROVE Types'
  OBVIOUS
<1> USE SamplesAssumption DEF Types, TypeOK, LocalTypes, Goto, Answer, At, Ask, shared,
           limiter, Labels, Verdicts
<1>1. ASSUME NEW r \in Requests, NEW u \in Users, NEW c \in Clubs, CreateClub(r, u, c)
      PROVE  Types'
  BY <1>1 DEF CreateClub, Req, NoReq, Ops, Visibilities
<1>2. ASSUME NEW r \in Requests, NEW u \in Users, NEW c \in Clubs, JoinClub(r, u, c)
      PROVE  Types'
  <2>1. [NoReq EXCEPT !.op = "join", !.user = u, !.club = c] \in Req
    BY DEF Req, NoReq, Ops, Visibilities
  <2>2. member' \subseteq Clubs \X Users
    BY <1>2 DEF JoinClub
  <2>3. verdict' \in [Requests -> Verdicts] /\ pc' \in [Requests -> Labels]
    BY <1>2 DEF JoinClub
  <2> QED  BY <1>2, <2>1, <2>2, <2>3 DEF JoinClub
<1>3. ASSUME NEW r \in Requests, NEW u \in Users, NEW s \in Spots,
             NEW c \in Clubs \cup {NoClub}, NEW vis \in Visibilities,
             CreateSpot(r, u, s, c, vis)
      PROVE  Types'
  <2>1. [op |-> "create", user |-> u, club |-> c, spot |-> s, vis |-> vis] \in Req
    BY DEF Req, Ops
  <2> QED  BY <1>3, <2>1 DEF CreateSpot
<1>4. ASSUME NEW r \in Requests, NEW u \in Users \cup {NoUser}, BeginList(r, u)
      PROVE  Types'
  BY <1>4 DEF BeginList, Req, NoReq, Ops, Visibilities
<1>5. ASSUME NEW r \in Requests, NEW u \in Users \cup {NoUser}, NEW s \in Spots,
             GetSpot(r, u, s)
      PROVE  Types'
  BY <1>5 DEF GetSpot, Req, NoReq, Ops, Visibilities
<1>6. ASSUME NEW r \in Requests, AddOwner(r) PROVE Types'
  BY <1>6 DEF AddOwner, InItsHandler, User
<1>7. ASSUME NEW r \in Requests, InsertSpot(r) PROVE Types'
  <2>1. req[r] \in Req /\ User(r) \in Users
    BY <1>7 DEF InsertSpot, InItsHandler
  <2>2. [owner |-> User(r), club |-> req[r].club, vis |-> req[r].vis] \in Row
    BY <2>1 DEF Row, Req, User
  <2> QED  BY <1>7, <2>2 DEF InsertSpot
<1>8. ASSUME NEW r \in Requests, InsertDepth(r) PROVE Types'
  <2>1. req[r].spot \in Spots
    BY <1>8 DEF InsertDepth, InItsHandler
  <2>2. depths[req[r].spot] \in 0 .. Samples
    BY <2>1
  <2>3. depths' \in [Spots -> 0 .. Samples]
    BY <1>8, <2>1, <2>2 DEF InsertDepth
  <2>4. verdict' \in [Requests -> Verdicts] /\ pc' \in [Requests -> Labels]
    BY <1>8 DEF InsertDepth
  <2> QED  BY <1>8, <2>3, <2>4 DEF InsertDepth
<1>9. ASSUME NEW r \in Requests, ListQuery(r) PROVE Types'
  BY <1>9 DEF ListQuery
<1>10. ASSUME NEW r \in Requests, ListRow(r) PROVE Types'
  <2>1. CASE \E s \in todo[r] : todo' = [todo EXCEPT ![r] = @ \ {s}] /\ Load(r, s, TRUE)
    <3>1. PICK s \in todo[r] : todo' = [todo EXCEPT ![r] = @ \ {s}] /\ Load(r, s, TRUE)
      BY <2>1
    <3>2. s \in Spots
      OBVIOUS
    <3>3. /\ view' \in [Requests -> [spot : Spots \cup {NoSpot}, depths : 0 .. Samples]]
          /\ hitch' \in [Requests -> BOOLEAN]
      BY <3>1, <3>2, LoadTypes
    <3>4. verdict' \in [Requests -> Verdicts] /\ pc' \in [Requests -> Labels]
      BY <1>10 DEF ListRow
    <3> QED  BY <1>10, <3>1, <3>3, <3>4 DEF ListRow
  <2>2. CASE UNCHANGED <<todo, view>> /\ hitch' = [hitch EXCEPT ![r] = @ \/ todo[r] # {}]
    BY <1>10, <2>2 DEF ListRow
  <2> QED  BY <1>10, <2>1, <2>2 DEF ListRow
<1>11. ASSUME NEW r \in Requests, LoadSpot(r) PROVE Types'
  BY <1>11 DEF LoadSpot
<1>12. ASSUME NEW r \in Requests, AskSpot(r) PROVE Types'
  BY <1>12 DEF AskSpot, Knows
<1>13. ASSUME NEW r \in Requests, LoadSamples(r) PROVE Types'
  <2>1. req[r].spot \in Spots
    BY <1>13 DEF LoadSamples, InItsHandler
  <2>2. /\ view' \in [Requests -> [spot : Spots \cup {NoSpot}, depths : 0 .. Samples]]
        /\ hitch' \in [Requests -> BOOLEAN]
    BY <1>13, <2>1, LoadTypes DEF LoadSamples
  <2> QED  BY <1>13, <2>2 DEF LoadSamples
<1>14. ASSUME NEW r \in Requests, ToSpotDTO(r) PROVE Types'
  <2>1. view[r].spot \in Spots /\ view[r].depths \in 0 .. Samples
    BY <1>14 DEF ToSpotDTO, InItsHandler
  <2>2. PICK same \in BOOLEAN, friend \in BOOLEAN :
           /\ Knows(r, spots[view[r].spot], same, friend)
           /\ out' = [out EXCEPT ![r] = @ \cup
                  {<<view[r].spot,
                     Shown(req[r].op,
                           CanSeeExact(spots[view[r].spot], User(r), same, friend),
                           view[r].depths)>>}]
    BY <1>14 DEF ToSpotDTO
  <2>3. CanSeeExact(spots[view[r].spot], User(r), same, friend) \in BOOLEAN
    BY DEF CanSeeExact
  <2>4. Shown(req[r].op, CanSeeExact(spots[view[r].spot], User(r), same, friend),
              view[r].depths) \in Shape
    BY <2>1, <2>3 DEF Shown, Shape
  <2>5. out' \in [Requests -> SUBSET (Spots \X Shape)]
    BY <2>1, <2>2, <2>4
  <2>6. hitch' \in [Requests -> BOOLEAN]
    BY <2>2 DEF Knows
  <2>7. verdict' \in [Requests -> Verdicts] /\ pc' \in [Requests -> Labels]
    BY <1>14 DEF ToSpotDTO
  <2> QED  BY <1>14, <2>5, <2>6, <2>7 DEF ToSpotDTO
<1>15. ASSUME NEW r \in Requests, Fail(r) PROVE Types'
  BY <1>15 DEF Fail
<1>16. ASSUME UNCHANGED vars PROVE Types'
  BY <1>16 DEF vars, shared, locals
<1>17. ASSUME NEW r \in Requests, NEW u \in Callers, BeginNearby(r, u)
      PROVE  Types'
  BY <1>17 DEF BeginNearby, Req, NoReq, Ops, Visibilities, Callers
<1>18. ASSUME NEW r \in Requests, IncrWindow(r) PROVE Types'
  <2>1. scans' \in [Callers -> Nat] /\ granted' \in [Callers -> Nat]
    BY <1>18, UsersAreCallers DEF IncrWindow, Counted, Grant
  <2>2. verdict' \in [Requests -> Verdicts] /\ pc' \in [Requests -> Labels]
    BY <1>18 DEF IncrWindow, Grant
  <2> QED  BY <1>18, <2>1, <2>2 DEF IncrWindow
<1>19. ASSUME NEW r \in Requests, IncrFails(r) PROVE Types'
  <2>1. scans' \in [Callers -> Nat] /\ lost' \subseteq Callers
    BY <1>19, UsersAreCallers DEF IncrFails, Counted
  <2> QED  BY <1>19, <2>1 DEF IncrFails
<1>20. ASSUME NEW r \in Requests, Expire(r) PROVE Types'
  <2>1. ending' \subseteq Callers /\ lost' \subseteq Callers
    BY <1>20, UsersAreCallers DEF Expire
  <2> QED  BY <1>20, <2>1 DEF Expire
<1>21. ASSUME NEW u \in Callers, WindowEnds(u) PROVE Types'
  <2>1. scans' \in [Callers -> Nat] /\ ending' \subseteq Callers /\ lost' \subseteq Callers
        /\ granted' \in [Callers -> Nat]
    BY <1>21 DEF WindowEnds
  <2> QED  BY <1>21, <2>1 DEF WindowEnds, locals
<1> QED
  BY <1>1, <1>2, <1>3, <1>4, <1>5, <1>6, <1>7, <1>8, <1>9, <1>10, <1>11, <1>12,
     <1>13, <1>14, <1>15, <1>16, <1>17, <1>18, <1>19, <1>20, <1>21
     DEF Next, Arrive, Step, Callers

-----------------------------------------------------------------------------
(* What every step leaves as it was: memberships, the rows of spots, what  *)
(* a request asks for, and that one of its queries has failed.             *)
Grows ==
    /\ member \subseteq member'
    /\ \A s \in Spots : Stored(s) => spots'[s] = spots[s]
    /\ \A q \in Requests : pc[q] # "idle" => pc'[q] # "idle" /\ req'[q] = req[q]
    /\ \A q \in Requests : pc'[q] = "idle" => pc[q] = "idle" /\ req'[q] = req[q]
    /\ \A q \in Requests : hitch[q] => hitch'[q]

LEMMA StepGrows == Types /\ InItsHandler /\ OneCreator /\ [Next]_vars => Grows
<1> SUFFICES ASSUME Types, InItsHandler, OneCreator, [Next]_vars PROVE Grows
  OBVIOUS
<1> USE DEF Types, LocalTypes, Grows, Goto, Answer, At, Ask, shared
<1>1. ASSUME NEW r \in Requests, NEW u \in Users, NEW c \in Clubs, CreateClub(r, u, c)
      PROVE  Grows
  BY <1>1 DEF CreateClub
<1>2. ASSUME NEW r \in Requests, NEW u \in Users, NEW c \in Clubs, JoinClub(r, u, c)
      PROVE  Grows
  BY <1>2 DEF JoinClub
<1>3. ASSUME NEW r \in Requests, NEW u \in Users, NEW s \in Spots,
             NEW c \in Clubs \cup {NoClub}, NEW vis \in Visibilities,
             CreateSpot(r, u, s, c, vis)
      PROVE  Grows
  BY <1>3 DEF CreateSpot
<1>4. ASSUME NEW r \in Requests, NEW u \in Users \cup {NoUser}, BeginList(r, u)
      PROVE  Grows
  BY <1>4 DEF BeginList
<1>5. ASSUME NEW r \in Requests, NEW u \in Users \cup {NoUser}, NEW s \in Spots,
             GetSpot(r, u, s)
      PROVE  Grows
  BY <1>5 DEF GetSpot
<1>6. ASSUME NEW r \in Requests, AddOwner(r) PROVE Grows
  BY <1>6 DEF AddOwner
<1>7. ASSUME NEW r \in Requests, InsertSpot(r) PROVE Grows
  BY <1>7 DEF InsertSpot, InItsHandler, OneCreator, TypeOK
<1>8. ASSUME NEW r \in Requests, InsertDepth(r) PROVE Grows
  BY <1>8 DEF InsertDepth
<1>9. ASSUME NEW r \in Requests, ListQuery(r) PROVE Grows
  BY <1>9 DEF ListQuery
<1>10. ASSUME NEW r \in Requests, ListRow(r) PROVE Grows
  BY <1>10 DEF ListRow, Load
<1>11. ASSUME NEW r \in Requests, LoadSpot(r) PROVE Grows
  BY <1>11 DEF LoadSpot
<1>12. ASSUME NEW r \in Requests, AskSpot(r) PROVE Grows
  BY <1>12 DEF AskSpot, Knows
<1>13. ASSUME NEW r \in Requests, LoadSamples(r) PROVE Grows
  BY <1>13 DEF LoadSamples, Load
<1>14. ASSUME NEW r \in Requests, ToSpotDTO(r) PROVE Grows
  BY <1>14 DEF ToSpotDTO, Knows
<1>15. ASSUME NEW r \in Requests, Fail(r) PROVE Grows
  BY <1>15 DEF Fail
<1>16. ASSUME UNCHANGED vars PROVE Grows
  BY <1>16 DEF vars, locals
<1>17. ASSUME NEW r \in Requests, NEW u \in Callers, BeginNearby(r, u)
      PROVE  Grows
  BY <1>17 DEF BeginNearby
<1>18. ASSUME NEW r \in Requests, IncrWindow(r) PROVE Grows
  BY <1>18 DEF IncrWindow, Grant
<1>19. ASSUME NEW r \in Requests, IncrFails(r) PROVE Grows
  BY <1>19 DEF IncrFails
<1>20. ASSUME NEW r \in Requests, Expire(r) PROVE Grows
  BY <1>20 DEF Expire
<1>21. ASSUME NEW u \in Callers, WindowEnds(u) PROVE Grows
  BY <1>21 DEF WindowEnds, locals
<1> QED
  BY <1>1, <1>2, <1>3, <1>4, <1>5, <1>6, <1>7, <1>8, <1>9, <1>10, <1>11, <1>12,
     <1>13, <1>14, <1>15, <1>16, <1>17, <1>18, <1>19, <1>20, <1>21
     DEF Next, Arrive, Step, Callers

(* A request is only ever at the steps of its own handler.                 *)
LEMMA HandlerKept == Types /\ InItsHandler /\ [Next]_vars => InItsHandler'
<1> SUFFICES ASSUME Types, InItsHandler, [Next]_vars PROVE InItsHandler'
  OBVIOUS
<1> USE DEF Types, LocalTypes, InItsHandler, User, Goto, Answer, At, Ask, shared
<1>1. ASSUME NEW r \in Requests, NEW u \in Users, NEW c \in Clubs, CreateClub(r, u, c)
      PROVE  InItsHandler'
  BY <1>1 DEF CreateClub, NoReq
<1>2. ASSUME NEW r \in Requests, NEW u \in Users, NEW c \in Clubs, JoinClub(r, u, c)
      PROVE  InItsHandler'
  BY <1>2 DEF JoinClub, NoReq
<1>3. ASSUME NEW r \in Requests, NEW u \in Users, NEW s \in Spots,
             NEW c \in Clubs \cup {NoClub}, NEW vis \in Visibilities,
             CreateSpot(r, u, s, c, vis)
      PROVE  InItsHandler'
  BY <1>3 DEF CreateSpot
<1>4. ASSUME NEW r \in Requests, NEW u \in Users \cup {NoUser}, BeginList(r, u)
      PROVE  InItsHandler'
  BY <1>4 DEF BeginList, NoReq
<1>5. ASSUME NEW r \in Requests, NEW u \in Users \cup {NoUser}, NEW s \in Spots,
             GetSpot(r, u, s)
      PROVE  InItsHandler'
  BY <1>5 DEF GetSpot, NoReq
<1>6. ASSUME NEW r \in Requests, AddOwner(r) PROVE InItsHandler'
  BY <1>6 DEF AddOwner
<1>7. ASSUME NEW r \in Requests, InsertSpot(r) PROVE InItsHandler'
  BY <1>7 DEF InsertSpot
<1>8. ASSUME NEW r \in Requests, InsertDepth(r) PROVE InItsHandler'
  BY <1>8 DEF InsertDepth
<1>9. ASSUME NEW r \in Requests, ListQuery(r) PROVE InItsHandler'
  BY <1>9 DEF ListQuery
<1>10. ASSUME NEW r \in Requests, ListRow(r) PROVE InItsHandler'
  <2>1. pc'[r] \in {"dto", "done"} /\ (pc'[r] = "dto" => view'[r].spot \in Spots)
    <3>1. CASE \E s \in todo[r] : Load(r, s, TRUE)
      <4>1. PICK s \in todo[r] : Load(r, s, TRUE)
        BY <3>1
      <4>2. s \in Spots
        BY DEF TypeOK
      <4>3. view'[r].spot = s
        BY <4>1, <4>2, LoadTypes
      <4> QED  BY <1>10, <4>2, <4>3 DEF ListRow
    <3>2. CASE Answer(r, "OK")
      BY <1>10, <3>2 DEF ListRow
    <3> QED  BY <1>10, <3>1, <3>2 DEF ListRow
  <2>2. \A q \in Requests \ {r} : pc'[q] = pc[q] /\ verdict'[q] = verdict[q]
    BY <1>10 DEF ListRow
  <2>3. \A q \in Requests \ {r} : view'[q] = view[q]
    BY <1>10 DEF ListRow, Load, TypeOK
  <2>4. verdict'[r] = "OK" => pc'[r] = "done"
    BY <1>10 DEF ListRow
  <2> QED  BY <1>10, <2>1, <2>2, <2>3, <2>4 DEF ListRow
<1>11. ASSUME NEW r \in Requests, LoadSpot(r) PROVE InItsHandler'
  BY <1>11 DEF LoadSpot
<1>12. ASSUME NEW r \in Requests, AskSpot(r) PROVE InItsHandler'
  BY <1>12 DEF AskSpot, Knows
<1>13. ASSUME NEW r \in Requests, LoadSamples(r) PROVE InItsHandler'
  <2>1. /\ view'[r].spot = req[r].spot
        /\ \A q \in Requests \ {r} : view'[q] = view[q]
    BY <1>13, LoadTypes DEF LoadSamples
  <2> QED  BY <1>13, <2>1 DEF LoadSamples
<1>14. ASSUME NEW r \in Requests, ToSpotDTO(r) PROVE InItsHandler'
  BY <1>14 DEF ToSpotDTO
<1>15. ASSUME NEW r \in Requests, Fail(r) PROVE InItsHandler'
  BY <1>15 DEF Fail
<1>16. ASSUME UNCHANGED vars PROVE InItsHandler'
  BY <1>16 DEF vars, locals
<1>17. ASSUME NEW r \in Requests, NEW u \in Callers, BeginNearby(r, u)
      PROVE  InItsHandler'
  BY <1>17 DEF BeginNearby, NoReq
<1>18. ASSUME NEW r \in Requests, IncrWindow(r) PROVE InItsHandler'
  BY <1>18 DEF IncrWindow, Grant
<1>19. ASSUME NEW r \in Requests, IncrFails(r) PROVE InItsHandler'
  BY <1>19 DEF IncrFails
<1>20. ASSUME NEW r \in Requests, Expire(r) PROVE InItsHandler'
  BY <1>20 DEF Expire
<1>21. ASSUME NEW u \in Callers, WindowEnds(u) PROVE InItsHandler'
  BY <1>21 DEF WindowEnds, locals
<1> QED
  BY <1>1, <1>2, <1>3, <1>4, <1>5, <1>6, <1>7, <1>8, <1>9, <1>10, <1>11, <1>12,
     <1>13, <1>14, <1>15, <1>16, <1>17, <1>18, <1>19, <1>20, <1>21
     DEF Next, Arrive, Step, Callers

(* A request that enters and names no spot to create changes none of this. *)
LEMMA NotACreator ==
    ASSUME Types, InItsHandler, OneCreator, UNCHANGED spots,
           NEW r \in Requests, pc[r] = "idle",
           NEW q, q.op # "create", req' = [req EXCEPT ![r] = q],
           pc'[r] \notin {"insert", "depth"},
           \A p \in Requests \ {r} : pc'[p] = pc[p]
    PROVE  OneCreator'
<1>1. \A p \in Requests \ {r} : req'[p] = req[p]
  BY DEF Types, LocalTypes
<1>2. req'[r].op # "create" /\ req[r].op # "create"
  <2>1. req'[r] = q
    BY DEF Types, LocalTypes
  <2>2. req[r] = NoReq
    BY DEF InItsHandler
  <2> QED  BY <2>1, <2>2 DEF NoReq
<1> QED  BY <1>1, <1>2 DEF OneCreator, Stored

(* A spot comes from the one request that names it in a CreateSpot.        *)
LEMMA CreatorKept == Types /\ InItsHandler /\ OneCreator /\ [Next]_vars => OneCreator'
<1> SUFFICES ASSUME Types, InItsHandler, OneCreator, [Next]_vars PROVE OneCreator'
  OBVIOUS
<1> USE DEF Types, LocalTypes, OneCreator, Stored, Goto, Answer, At, Ask, shared
<1>1. ASSUME NEW r \in Requests, NEW u \in Users, NEW c \in Clubs, CreateClub(r, u, c)
      PROVE  OneCreator'
  BY <1>1, NotACreator DEF CreateClub, NoReq
<1>2. ASSUME NEW r \in Requests, NEW u \in Users, NEW c \in Clubs, JoinClub(r, u, c)
      PROVE  OneCreator'
  <2>1. pc[r] = "idle" /\ pc'[r] = "done"
        /\ \A p \in Requests \ {r} : pc'[p] = pc[p]
    BY <1>2 DEF JoinClub
  <2> QED  BY <1>2, <2>1, NotACreator DEF JoinClub, NoReq
<1>3. ASSUME NEW r \in Requests, NEW u \in Users, NEW s \in Spots,
             NEW c \in Clubs \cup {NoClub}, NEW vis \in Visibilities,
             CreateSpot(r, u, s, c, vis)
      PROVE  OneCreator'
  <2>1. /\ req'[r].op = "create" /\ req'[r].spot = s
        /\ pc'[r] \in {"insert", "done"}
        /\ \A q \in Requests \ {r} : req'[q] = req[q] /\ pc'[q] = pc[q]
    BY <1>3 DEF CreateSpot
  <2>2. \A q \in Requests : req[q].op = "create" => q # r /\ req[q].spot # s
    <3>1. req[r] = NoReq
      BY <1>3 DEF CreateSpot, InItsHandler
    <3> QED  BY <1>3, <3>1 DEF CreateSpot, NoReq
  <2>3. ~Stored(s) /\ spots' = spots
    BY <1>3, <2>2 DEF CreateSpot
  <2>4. \A q, p \in Requests :
           req'[p].op = "create" /\ req'[q].op = "create" /\ req'[p].spot = req'[q].spot
             => p = q
    BY <2>1, <2>2
  <2>5. \A t \in Spots : Stored(t) =>
           \E q \in Requests : req'[q].op = "create" /\ req'[q].spot = t
    BY <2>1, <2>2
  <2> QED  BY <2>1, <2>3, <2>4, <2>5
<1>4. ASSUME NEW r \in Requests, NEW u \in Users \cup {NoUser}, BeginList(r, u)
      PROVE  OneCreator'
  BY <1>4, NotACreator DEF BeginList, NoReq
<1>5. ASSUME NEW r \in Requests, NEW u \in Users \cup {NoUser}, NEW s \in Spots,
             GetSpot(r, u, s)
      PROVE  OneCreator'
  BY <1>5, NotACreator DEF GetSpot, NoReq
<1>6. ASSUME NEW r \in Requests, AddOwner(r) PROVE OneCreator'
  BY <1>6 DEF AddOwner
<1>7. ASSUME NEW r \in Requests, InsertSpot(r) PROVE OneCreator'
  <2>1. /\ req[r].op = "create" /\ req[r].spot \in Spots /\ User(r) \in Users
        /\ \A q \in Requests \ {r} : pc'[q] = pc[q]
        /\ pc'[r] = "depth" /\ req' = req
    <3>1. pc[r] = "insert"
      BY <1>7 DEF InsertSpot
    <3>2. req[r].op = "create" /\ req[r].spot \in Spots /\ User(r) \in Users
      BY <3>1 DEF InItsHandler
    <3>3. pc'[r] = "depth" /\ req' = req /\ \A q \in Requests \ {r} : pc'[q] = pc[q]
      BY <1>7 DEF InsertSpot
    <3> QED  BY <3>2, <3>3
  <2>2. /\ spots'[req[r].spot] # NoRow
        /\ \A s \in Spots : s # req[r].spot => spots'[s] = spots[s]
    BY <1>7, <2>1, NobodyAssumption DEF InsertSpot, TypeOK, NoRow
  <2>3. \A q \in Requests : pc[q] \in {"insert", "depth"} =>
           req[q].op = "create" /\ req[q].spot \in Spots
    BY DEF InItsHandler
  <2> QED  BY <2>1, <2>2, <2>3
<1>8. ASSUME NEW r \in Requests, InsertDepth(r) PROVE OneCreator'
  BY <1>8 DEF InsertDepth
<1>9. ASSUME NEW r \in Requests, ListQuery(r) PROVE OneCreator'
  BY <1>9 DEF ListQuery
<1>10. ASSUME NEW r \in Requests, ListRow(r) PROVE OneCreator'
  <2>1. pc'[r] \in {"dto", "done"} /\ \A q \in Requests \ {r} : pc'[q] = pc[q]
    <3>1. CASE Goto(r, "dto")
      BY <3>1
    <3>2. CASE Answer(r, "OK")
      BY <3>2
    <3> QED  BY <1>10, <3>1, <3>2 DEF ListRow
  <2> QED  BY <1>10, <2>1 DEF ListRow
<1>11. ASSUME NEW r \in Requests, LoadSpot(r) PROVE OneCreator'
  BY <1>11 DEF LoadSpot
<1>12. ASSUME NEW r \in Requests, AskSpot(r) PROVE OneCreator'
  BY <1>12 DEF AskSpot
<1>13. ASSUME NEW r \in Requests, LoadSamples(r) PROVE OneCreator'
  BY <1>13 DEF LoadSamples
<1>14. ASSUME NEW r \in Requests, ToSpotDTO(r) PROVE OneCreator'
  BY <1>14 DEF ToSpotDTO
<1>15. ASSUME NEW r \in Requests, Fail(r) PROVE OneCreator'
  BY <1>15 DEF Fail
<1>16. ASSUME UNCHANGED vars PROVE OneCreator'
  BY <1>16 DEF vars, locals
<1>17. ASSUME NEW r \in Requests, NEW u \in Callers, BeginNearby(r, u)
      PROVE  OneCreator'
  BY <1>17, NotACreator DEF BeginNearby, NoReq
<1>18. ASSUME NEW r \in Requests, IncrWindow(r) PROVE OneCreator'
  BY <1>18 DEF IncrWindow, Grant
<1>19. ASSUME NEW r \in Requests, IncrFails(r) PROVE OneCreator'
  BY <1>19 DEF IncrFails
<1>20. ASSUME NEW r \in Requests, Expire(r) PROVE OneCreator'
  BY <1>20 DEF Expire
<1>21. ASSUME NEW u \in Callers, WindowEnds(u) PROVE OneCreator'
  BY <1>21 DEF WindowEnds, locals
<1> QED
  BY <1>1, <1>2, <1>3, <1>4, <1>5, <1>6, <1>7, <1>8, <1>9, <1>10, <1>11, <1>12,
     <1>13, <1>14, <1>15, <1>16, <1>17, <1>18, <1>19, <1>20, <1>21
     DEF Next, Arrive, Step, Callers

-----------------------------------------------------------------------------
(* A step of one request leaves the others where they are.                 *)
Same(q) == /\ pc'[q] = pc[q] /\ req'[q] = req[q] /\ todo'[q] = todo[q]
           /\ view'[q] = view[q] /\ out'[q] = out[q] /\ hitch'[q] = hitch[q]
           /\ verdict'[q] = verdict[q]

LEMMA StepIsLocal ==
    ASSUME Types, NEW r \in Requests, Arrive(r) \/ Step(r) \/ Fail(r)
    PROVE  \A q \in Requests \ {r} : Same(q)
<1> USE DEF Types, TypeOK, LocalTypes, Same, Goto, Answer, At, Ask, shared
<1> DEFINE Local == \A q \in Requests \ {r} : Same(q)
<1>1. ASSUME NEW u \in Users, NEW c \in Clubs, CreateClub(r, u, c)
      PROVE  Local
  BY <1>1 DEF CreateClub
<1>2. ASSUME NEW u \in Users, NEW c \in Clubs, JoinClub(r, u, c)
      PROVE  Local
  BY <1>2 DEF JoinClub
<1>3. ASSUME NEW u \in Users, NEW s \in Spots,
             NEW c \in Clubs \cup {NoClub}, NEW vis \in Visibilities,
             CreateSpot(r, u, s, c, vis)
      PROVE  Local
  BY <1>3 DEF CreateSpot
<1>4. ASSUME NEW u \in Users \cup {NoUser}, BeginList(r, u)
      PROVE  Local
  BY <1>4 DEF BeginList
<1>5. ASSUME NEW u \in Users \cup {NoUser}, NEW s \in Spots,
             GetSpot(r, u, s)
      PROVE  Local
  BY <1>5 DEF GetSpot
<1>6. ASSUME AddOwner(r) PROVE Local
  BY <1>6 DEF AddOwner
<1>7. ASSUME InsertSpot(r) PROVE Local
  BY <1>7 DEF InsertSpot
<1>8. ASSUME InsertDepth(r) PROVE Local
  BY <1>8 DEF InsertDepth
<1>9. ASSUME ListQuery(r) PROVE Local
  BY <1>9 DEF ListQuery
<1>10. ASSUME ListRow(r) PROVE Local
  BY <1>10 DEF ListRow, Load
<1>11. ASSUME LoadSpot(r) PROVE Local
  BY <1>11 DEF LoadSpot
<1>12. ASSUME AskSpot(r) PROVE Local
  BY <1>12 DEF AskSpot, Knows
<1>13. ASSUME LoadSamples(r) PROVE Local
  BY <1>13 DEF LoadSamples, Load
<1>14. ASSUME ToSpotDTO(r) PROVE Local
  BY <1>14 DEF ToSpotDTO, Knows
<1>15. ASSUME Fail(r) PROVE Local
  BY <1>15 DEF Fail
<1>16. ASSUME NEW u \in Callers, BeginNearby(r, u) PROVE Local
  BY <1>16 DEF BeginNearby
<1>17. ASSUME IncrWindow(r) PROVE Local
  BY <1>17 DEF IncrWindow, Grant
<1>18. ASSUME IncrFails(r) PROVE Local
  BY <1>18 DEF IncrFails
<1>19. ASSUME Expire(r) PROVE Local
  BY <1>19 DEF Expire
<1> QED
  BY <1>1, <1>2, <1>3, <1>4, <1>5, <1>6, <1>7, <1>8, <1>9, <1>10, <1>11, <1>12,
     <1>13, <1>14, <1>15, <1>16, <1>17, <1>18, <1>19 DEF Arrive, Step, Callers

(* The end of a window touches neither the tables nor any request.         *)
Quiet == UNCHANGED <<clubOwner, member, spots, depths, locals>>

LEMMA RequestOrQuiet ==
    [Next]_vars => Quiet \/ \E r \in Requests : Arrive(r) \/ Step(r) \/ Fail(r)
<1>1. \A u : WindowEnds(u) => Quiet
  BY DEF WindowEnds, Quiet
<1>2. UNCHANGED vars => Quiet
  BY DEF Quiet, vars, shared
<1> QED  BY <1>1, <1>2 DEF Next

(* Being listed and being allowed to see last, and what is seen is stored. *)
LEMMA SightGrows ==
    ASSUME Types, Grows, NEW u, NEW s \in Spots, Stored(s)
    PROVE  /\ Stored(s)'
           /\ Listed(u, s) => Listed(u, s)'
           /\ Allowed(u, s) => Allowed(u, s)'
<1>1. spots'[s] = spots[s] /\ member \subseteq member'
  BY DEF Grows
<1> QED  BY <1>1 DEF Stored, Listed, Allowed, IsClubMember, AreFriends

(* The part of SeenStored that speaks of one request.                      *)
SeenOf(r) ==
    /\ \A s \in todo[r] :
          pc[r] \in {"row", "dto"} /\ req[r].op = "list" => Listed(User(r), s)
    /\ pc[r] \in {"ask", "samples", "nosamples"} => Stored(req[r].spot)
    /\ pc[r] = "dto" => Stored(view[r].spot)
    /\ pc[r] = "dto" /\ req[r].op = "list" => Listed(User(r), view[r].spot)
    /\ \A shown \in out[r] : Stored(shown[1])

LEMMA SeenSame ==
    ASSUME Types, InItsHandler, Grows, NEW q \in Requests, Same(q), SeenOf(q)
    PROVE  SeenOf(q)'
<1>1. /\ \A s \in todo[q] : s \in Spots
      /\ \A shown \in out[q] : shown[1] \in Spots
  BY DEF Types, TypeOK, LocalTypes
<1>2. PICK u : u = User(q) /\ u = User(q)'
  BY DEF User, Same
<1>3. pc[q] \in {"ask", "samples", "nosamples"} => req[q].spot \in Spots
  BY DEF InItsHandler
<1>4. pc[q] = "dto" => view[q].spot \in Spots
  BY DEF InItsHandler
<1>5. \A s \in todo[q] :
         pc[q] \in {"row", "dto"} /\ req[q].op = "list" => Listed(u, s)'
  <2> SUFFICES ASSUME NEW s \in todo[q], pc[q] \in {"row", "dto"}, req[q].op = "list"
               PROVE  Listed(u, s)'
    OBVIOUS
  <2>1. s \in Spots /\ Listed(u, s)
    BY <1>1, <1>2 DEF SeenOf
  <2>2. Stored(s)
    BY <2>1 DEF Listed
  <2> QED  BY <2>1, <2>2, SightGrows
<1>6. \A shown \in out[q] : Stored(shown[1])'
  BY <1>1, SightGrows DEF SeenOf
<1>7. pc[q] \in {"ask", "samples", "nosamples"} => spots'[req[q].spot] # NoRow
  BY <1>3, SightGrows DEF SeenOf, Stored
<1>8. pc[q] = "dto" => spots'[view[q].spot] # NoRow
  BY <1>4, SightGrows DEF SeenOf, Stored
<1>9. ASSUME pc[q] = "dto", req[q].op = "list", NEW s, s = view[q].spot
      PROVE  Listed(u, s)'
  <2>1. s \in Spots /\ Stored(s) /\ Listed(u, s)
    BY <1>2, <1>4, <1>9 DEF SeenOf
  <2> QED  BY <2>1, SightGrows
<1> QED  BY <1>2, <1>5, <1>6, <1>7, <1>8, <1>9 DEF SeenOf, Same, Stored, Listed, User

(* The acting request itself, step by step of its handler.                 *)
LEMMA SeenByActor ==
    ASSUME Types, InItsHandler, Grows, SeenStored,
           NEW r \in Requests, Arrive(r) \/ Step(r) \/ Fail(r)
    PROVE  SeenOf(r)'
<1> USE DEF Types, TypeOK, LocalTypes, Goto, Answer, At, Ask, shared
<1>a. SeenOf(r) /\ \A shown \in out[r] : shown[1] \in Spots /\ Stored(shown[1])'
  <2>1. SeenOf(r) /\ \A shown \in out[r] : shown[1] \in Spots
    BY DEF SeenStored, SeenOf
  <2> QED  BY <2>1, SightGrows DEF SeenOf
<1>b. ASSUME out'[r] = out[r],
             pc'[r] \in {"owner", "done", "insert", "scan", "expire", "query", "load",
                         "depth"}
      PROVE  SeenOf(r)'
  BY <1>a, <1>b DEF SeenOf, Stored
<1>1. ASSUME NEW u \in Users, NEW c \in Clubs, CreateClub(r, u, c) PROVE SeenOf(r)'
  BY <1>b, <1>1 DEF CreateClub
<1>2. ASSUME NEW u \in Users, NEW c \in Clubs, JoinClub(r, u, c) PROVE SeenOf(r)'
  BY <1>b, <1>2 DEF JoinClub
<1>3. ASSUME NEW u \in Users, NEW s \in Spots, NEW c \in Clubs \cup {NoClub},
             NEW vis \in Visibilities, CreateSpot(r, u, s, c, vis)
      PROVE  SeenOf(r)'
  BY <1>b, <1>3 DEF CreateSpot
<1>4. ASSUME NEW u \in Users \cup {NoUser}, BeginList(r, u) PROVE SeenOf(r)'
  BY <1>b, <1>4 DEF BeginList
<1>5. ASSUME NEW u \in Users \cup {NoUser}, NEW s \in Spots, GetSpot(r, u, s)
      PROVE  SeenOf(r)'
  BY <1>b, <1>5 DEF GetSpot
<1>6. ASSUME AddOwner(r) PROVE SeenOf(r)'
  BY <1>b, <1>6 DEF AddOwner
<1>7. ASSUME InsertSpot(r) PROVE SeenOf(r)'
  BY <1>b, <1>7 DEF InsertSpot
<1>8. ASSUME InsertDepth(r) PROVE SeenOf(r)'
  BY <1>b, <1>8 DEF InsertDepth
<1>9. ASSUME ListQuery(r) PROVE SeenOf(r)'
  <2>1. /\ pc'[r] = "row" /\ out'[r] = out[r] /\ UNCHANGED <<shared, req>>
        /\ todo'[r] = {s \in Spots : Listed(User(r), s)}
    BY <1>9 DEF ListQuery
  <2> QED  BY <1>a, <2>1 DEF SeenOf, Stored, Listed, User, IsClubMember
<1>10. ASSUME ListRow(r) PROVE SeenOf(r)'
  <2>1. CASE Answer(r, "OK")
    BY <1>b, <1>10, <2>1 DEF ListRow
  <2>2. CASE /\ \E s \in todo[r] :
                   todo' = [todo EXCEPT ![r] = @ \ {s}] /\ Load(r, s, TRUE)
             /\ Goto(r, "dto")
    <3>1. PICK s \in todo[r] :
             todo' = [todo EXCEPT ![r] = @ \ {s}] /\ Load(r, s, TRUE)
      BY <2>2
    <3>2. s \in Spots /\ view'[r].spot = s
      BY <3>1, LoadTypes
    <3>3. pc[r] = "row" /\ pc'[r] = "dto" /\ UNCHANGED <<shared, req, out>>
          /\ req[r].op = "list"
      BY <1>10, <2>2 DEF ListRow, InItsHandler
    <3>4. todo'[r] \subseteq todo[r]
      BY <3>1
    <3>5. \A t \in todo[r] : Listed(User(r), t)
      BY <1>a, <3>3 DEF SeenOf
    <3>6. Listed(User(r), s) /\ Stored(s)
      BY <3>5 DEF Listed
    <3> QED  BY <1>a, <3>2, <3>3, <3>4, <3>5, <3>6
             DEF SeenOf, Stored, Listed, User, IsClubMember
  <2> QED  BY <1>10, <2>1, <2>2 DEF ListRow
<1>11. ASSUME LoadSpot(r) PROVE SeenOf(r)'
  <2>1. UNCHANGED <<shared, req, out>>
        /\ (pc'[r] = "done" \/ (pc'[r] = "ask" /\ Stored(req[r].spot)))
    <3>1. CASE Stored(req[r].spot) /\ Goto(r, "ask")
      BY <1>11, <3>1 DEF LoadSpot
    <3>2. CASE Answer(r, "NOT_FOUND")
      <4>1. UNCHANGED <<shared, req, out>>
        BY <1>11 DEF LoadSpot
      <4>2. pc'[r] = "done"
        BY <3>2
      <4> QED  BY <4>1, <4>2
    <3> QED  BY <1>11, <3>1, <3>2 DEF LoadSpot
  <2> QED  BY <1>a, <2>1 DEF SeenOf, Stored
<1>12. ASSUME AskSpot(r) PROVE SeenOf(r)'
  <2>1. /\ UNCHANGED <<shared, req, out>> /\ pc[r] = "ask"
        /\ pc'[r] \in {"samples", "nosamples"}
    BY <1>12 DEF AskSpot
  <2> QED  BY <1>a, <2>1 DEF SeenOf, Stored
<1>13. ASSUME LoadSamples(r) PROVE SeenOf(r)'
  <2>1. /\ UNCHANGED <<shared, req, out>> /\ pc[r] \in {"samples", "nosamples"}
        /\ pc'[r] = "dto" /\ req[r].op = "get" /\ req[r].spot \in Spots
    BY <1>13 DEF LoadSamples, InItsHandler
  <2>2. view'[r].spot = req[r].spot
    BY <1>13, <2>1, LoadTypes DEF LoadSamples
  <2> QED  BY <1>a, <2>1, <2>2 DEF SeenOf, Stored
<1>14. ASSUME ToSpotDTO(r) PROVE SeenOf(r)'
  <2>1. /\ UNCHANGED <<shared, req, todo>> /\ pc[r] = "dto" /\ pc'[r] \in {"row", "done"}
        /\ \E x : out'[r] = out[r] \cup {<<view[r].spot, x>>}
    BY <1>14 DEF ToSpotDTO
  <2>2. \A shown \in out'[r] : shown \in out[r] \/ shown[1] = view[r].spot
    BY <2>1
  <2> QED  BY <1>a, <2>1, <2>2 DEF SeenOf, Stored, Listed, User, IsClubMember
<1>15. ASSUME Fail(r) PROVE SeenOf(r)'
  BY <1>b, <1>15 DEF Fail
<1>16. ASSUME NEW u \in Callers, BeginNearby(r, u) PROVE SeenOf(r)'
  BY <1>b, <1>16 DEF BeginNearby
<1>17. ASSUME IncrWindow(r) PROVE SeenOf(r)'
  BY <1>b, <1>17 DEF IncrWindow, Grant
<1>18. ASSUME IncrFails(r) PROVE SeenOf(r)'
  BY <1>b, <1>18 DEF IncrFails
<1>19. ASSUME Expire(r) PROVE SeenOf(r)'
  BY <1>b, <1>19 DEF Expire
<1> QED
  BY <1>1, <1>2, <1>3, <1>4, <1>5, <1>6, <1>7, <1>8, <1>9, <1>10, <1>11, <1>12,
     <1>13, <1>14, <1>15, <1>16, <1>17, <1>18, <1>19 DEF Arrive, Step, Callers

(* What a handler has read of a spot is still so.                          *)
LEMMA SeenKept == Types /\ InItsHandler /\ Grows /\ SeenStored /\ [Next]_vars => SeenStored'
<1> SUFFICES ASSUME Types, InItsHandler, Grows, SeenStored, [Next]_vars,
                    NEW q \in Requests
             PROVE  SeenOf(q)'
  BY DEF SeenStored, SeenOf
<1>1. SeenOf(q)
  BY DEF SeenStored, SeenOf
<1>2. CASE Quiet
  BY <1>1, <1>2, SeenSame DEF Quiet, locals, Same
<1>3. ASSUME NEW r \in Requests, Arrive(r) \/ Step(r) \/ Fail(r)
      PROVE  SeenOf(q)'
  <2>1. CASE q = r
    BY <1>3, <2>1, SeenByActor
  <2>2. CASE q # r
    BY <1>1, <1>3, <2>2, StepIsLocal, SeenSame
  <2> QED  BY <2>1, <2>2
<1> QED  BY <1>2, <1>3, RequestOrQuiet

-----------------------------------------------------------------------------
(* What the three rules have to do with each other.                        *)
LEMMA RulesAgree ==
    ASSUME Types, NEW u, NEW s \in Spots, NEW same, NEW friend, Stored(s)
    PROVE  /\ Listed(u, s) => Allowed(u, s)
           /\ CanSeeExact(spots[s], u, same, friend)
                 /\ (same => IsClubMember(spots[s].club, u))
                 /\ (friend => AreFriends(u, spots[s].owner))
              => Allowed(u, s)
           /\ Listed(u, s) /\ same = IsClubMember(spots[s].club, u)
                 /\ friend = AreFriends(u, spots[s].owner)
              => CanSeeExact(spots[s], u, same, friend)
<1>1. member \subseteq Clubs \X Users
  BY DEF Types, TypeOK
<1>2. \A c : IsClubMember(c, u) => c # NoClub
  BY <1>1, NobodyAssumption DEF IsClubMember
<1> QED  BY <1>2 DEF Listed, Allowed, CanSeeExact, IsClubMember

(* What an answer shows, in the terms of DetailMeansAllowed and            *)
(* ListedSeenExactly, for one request.                                     *)
Detailed(shown) == shown[2].exact \/ shown[2].depths > 0 \/ shown[2].note
ShowsOf(r) ==
    /\ \A shown \in out[r] : Detailed(shown) => Allowed(User(r), shown[1])
    /\ req[r].op = "list" /\ ~hitch[r] => \A shown \in out[r] : shown[2].exact

(* A spot put into an answer.                                              *)
LEMMA ShownIsAllowed ==
    ASSUME Types, InItsHandler, SeenStored, NEW r \in Requests, ToSpotDTO(r)
    PROVE  \E x : /\ out'[r] = out[r] \cup {<<view[r].spot, x>>}
                  /\ Detailed(<<view[r].spot, x>>) => Allowed(User(r), view[r].spot)
                  /\ req[r].op = "list" /\ ~hitch'[r] => x.exact
<1> DEFINE s == view[r].spot  u == User(r)
<1>1. pc[r] = "dto" /\ s \in Spots /\ Stored(s) /\ req[r].op \in {"list", "get"}
  BY DEF ToSpotDTO, At, InItsHandler, SeenStored
<1>2. req[r].op = "list" => Listed(u, s)
  BY <1>1 DEF SeenStored
<1>3. PICK same \in BOOLEAN, friend \in BOOLEAN :
         /\ Knows(r, spots[s], same, friend)
         /\ out' = [out EXCEPT ![r] = @ \cup
                {<<s, Shown(req[r].op, CanSeeExact(spots[s], u, same, friend),
                            view[r].depths)>>}]
  BY DEF ToSpotDTO
<1> DEFINE e == CanSeeExact(spots[s], u, same, friend)
           x == Shown(req[r].op, e, view[r].depths)
<1>4. out'[r] = out[r] \cup {<<s, x>>}
  BY <1>3 DEF Types, LocalTypes
<1>5. hitch[r] \in BOOLEAN /\ hitch'[r] \in BOOLEAN
  BY <1>3 DEF Types, LocalTypes, Knows
<1>6. /\ same => IsClubMember(spots[s].club, u)
      /\ friend => AreFriends(u, spots[s].owner)
      /\ ~hitch'[r] => /\ same = IsClubMember(spots[s].club, u)
                       /\ friend = AreFriends(u, spots[s].owner)
  BY <1>3, <1>5 DEF Knows, Types, LocalTypes
<1>7. e \in BOOLEAN
  BY DEF CanSeeExact
<1>8. e => Allowed(u, s)
  BY <1>1, <1>6, RulesAgree
<1>9. req[r].op = "list" => Allowed(u, s) /\ (~hitch'[r] => e)
  BY <1>1, <1>2, <1>6, RulesAgree
<1>10. x.exact = e
  BY <1>7 DEF Shown
<1>11. req[r].op = "get" /\ ~e => ~x.exact /\ x.depths = 0 /\ ~x.note
  BY DEF Shown
<1> HIDE DEF x, e
<1>12. Detailed(<<s, x>>) => Allowed(u, s)
  BY <1>1, <1>8, <1>9, <1>11 DEF Detailed
<1> QED  BY <1>4, <1>9, <1>10, <1>12

(* DetailMeansAllowed and ListedSeenExactly stay.                          *)
LEMMA ShowsKept ==
    Types /\ InItsHandler /\ Grows /\ SeenStored /\ (\A q \in Requests : ShowsOf(q))
      /\ [Next]_vars => \A q \in Requests : ShowsOf(q)'
<1> SUFFICES ASSUME Types, InItsHandler, Grows, SeenStored,
                    \A q \in Requests : ShowsOf(q), [Next]_vars, NEW q \in Requests
             PROVE  ShowsOf(q)'
  OBVIOUS
<1>1. ASSUME out'[q] = out[q], pc[q] # "idle" \/ out[q] = {} PROVE ShowsOf(q)'
  <2>1. CASE out[q] = {}
    BY <1>1, <2>1 DEF ShowsOf
  <2>2. CASE pc[q] # "idle"
    <3>1. req'[q] = req[q] /\ (hitch[q] => hitch'[q])
      BY <2>2 DEF Grows
    <3>2. PICK u : u = User(q) /\ u = User(q)'
      BY <3>1 DEF User
    <3>3. \A shown \in out[q] : Detailed(shown) => Allowed(u, shown[1])'
      <4> SUFFICES ASSUME NEW shown \in out[q], Detailed(shown)
                   PROVE  Allowed(u, shown[1])'
        OBVIOUS
      <4>1. PICK s \in Spots : s = shown[1]
        BY DEF Types, LocalTypes
      <4>2. Stored(s) /\ Allowed(u, s)
        BY <3>2, <4>1 DEF SeenStored, ShowsOf
      <4>3. Allowed(u, s)'
        BY <4>2, SightGrows
      <4> QED  BY <4>1, <4>3
    <3> QED  BY <1>1, <3>1, <3>2, <3>3 DEF ShowsOf, Detailed, Allowed
  <2> QED  BY <1>1, <2>1, <2>2
<1>2. pc[q] = "idle" => out[q] = {}
  BY DEF InItsHandler
<1>3. CASE Quiet
  BY <1>1, <1>2, <1>3 DEF Quiet, locals
<1>4. ASSUME NEW r \in Requests, Arrive(r) \/ Step(r) \/ Fail(r)
      PROVE  ShowsOf(q)'
  <2>1. CASE q # r
    BY <1>1, <1>2, <1>4, <2>1, StepIsLocal DEF Same
  <2>2. CASE q = r /\ ~ToSpotDTO(r)
    <3>1. out'[q] = out[q]
      BY <1>4, <2>2 DEF Arrive, Step, CreateClub, JoinClub, CreateSpot, BeginList,
         GetSpot, AddOwner, InsertSpot, InsertDepth, BeginNearby, IncrWindow, IncrFails,
         Expire, ListQuery, ListRow, LoadSpot, AskSpot, LoadSamples, Fail
    <3> QED  BY <1>1, <1>2, <3>1
  <2>3. CASE q = r /\ ToSpotDTO(r)
    <3>1. PICK x : /\ out'[r] = out[r] \cup {<<view[r].spot, x>>}
                   /\ Detailed(<<view[r].spot, x>>) => Allowed(User(r), view[r].spot)
                   /\ req[r].op = "list" /\ ~hitch'[r] => x.exact
      BY <2>3, ShownIsAllowed
    <3>2. UNCHANGED <<shared, req>> /\ (hitch[r] => hitch'[r])
      BY <2>3 DEF ToSpotDTO, Grows
    <3>3. \A shown \in out'[r] : Detailed(shown) => Allowed(User(r), shown[1])
      BY <2>3, <3>1 DEF ShowsOf
    <3>4. req[r].op = "list" /\ ~hitch'[r] => \A shown \in out'[r] : shown[2].exact
      BY <2>3, <3>1, <3>2 DEF ShowsOf
    <3> QED  BY <2>3, <3>2, <3>3, <3>4
             DEF ShowsOf, Detailed, Allowed, User, AreFriends, shared
  <2> QED  BY <1>4, <2>1, <2>2, <2>3
<1> QED  BY <1>3, <1>4, RequestOrQuiet

-----------------------------------------------------------------------------
(* A spot that only a club sees belongs to a member: membership is asked   *)
(* for before the INSERT, and nobody leaves a club in between.             *)
LEMMA MembersKept ==
    Types /\ InItsHandler /\ Grows /\ CreatorsAreMembers /\ ClubSpotsOfMembers
      /\ [Next]_vars => CreatorsAreMembers' /\ ClubSpotsOfMembers'
<1> SUFFICES ASSUME Types, InItsHandler, Grows, CreatorsAreMembers, ClubSpotsOfMembers,
                    [Next]_vars
             PROVE  CreatorsAreMembers' /\ ClubSpotsOfMembers'
  OBVIOUS
<1> USE DEF IsClubMember, User
<1>1. ASSUME NEW q \in Requests, pc'[q] = "insert", pc[q] = "insert"
      PROVE  req'[q].vis = "CLUB" => <<req'[q].club, req'[q].user>> \in member'
  BY <1>1 DEF CreatorsAreMembers, Grows
<1>2. ASSUME spots' = spots PROVE ClubSpotsOfMembers'
  BY <1>2 DEF ClubSpotsOfMembers, Grows
<1>3. CASE Quiet
  BY <1>1, <1>2, <1>3 DEF Quiet, locals, CreatorsAreMembers
<1>4. ASSUME NEW r \in Requests, Arrive(r) \/ Step(r) \/ Fail(r)
      PROVE  CreatorsAreMembers' /\ ClubSpotsOfMembers'
  <2>1. \A q \in Requests \ {r} : pc'[q] = pc[q]
    BY <1>4, StepIsLocal DEF Same
  <2>2. ASSUME NEW u \in Users, NEW s \in Spots, NEW c \in Clubs \cup {NoClub},
               NEW vis \in Visibilities, CreateSpot(r, u, s, c, vis)
        PROVE  CreatorsAreMembers' /\ ClubSpotsOfMembers'
    <3>1. /\ UNCHANGED <<spots, member>>
          /\ req'[r].vis = vis /\ req'[r].club = c /\ req'[r].user = u
      BY <2>2 DEF CreateSpot, Ask, shared, Types, LocalTypes
    <3>2. pc'[r] = "insert" => MayCreate(u, c, vis)
      BY <2>2 DEF CreateSpot, Answer, Goto, Types, LocalTypes
    <3>3. pc'[r] = "insert" /\ req'[r].vis = "CLUB" =>
             <<req'[r].club, req'[r].user>> \in member'
      BY <3>1, <3>2 DEF MayCreate
    <3> QED  BY <1>1, <1>2, <2>1, <3>1, <3>3 DEF CreatorsAreMembers
  <2>3. CASE InsertSpot(r)
    <3>1. /\ pc[r] = "insert" /\ req[r].spot \in Spots /\ User(r) \in Users
          /\ pc'[r] = "depth"
          /\ UNCHANGED <<member, req>>
      BY <2>3 DEF InsertSpot, At, Goto, InItsHandler, Types, LocalTypes
    <3>2. spots' = [spots EXCEPT ![req[r].spot] =
              [owner |-> User(r), club |-> req[r].club, vis |-> req[r].vis]]
      BY <2>3 DEF InsertSpot
    <3>3. \A s \in Spots : s # req[r].spot => spots'[s] = spots[s]
      BY <3>2 DEF Types, TypeOK
    <3>4. /\ spots'[req[r].spot].owner = req[r].user
          /\ spots'[req[r].spot].club = req[r].club
          /\ spots'[req[r].spot].vis = req[r].vis
      BY <3>1, <3>2 DEF Types, TypeOK
    <3>5. ClubSpotsOfMembers'
      BY <3>1, <3>3, <3>4 DEF ClubSpotsOfMembers, CreatorsAreMembers
    <3> QED  BY <1>1, <2>1, <3>1, <3>5 DEF CreatorsAreMembers
  <2>4. CASE /\ ~InsertSpot(r)
             /\ ~\E u \in Users, s \in Spots, c \in Clubs \cup {NoClub},
                    vis \in Visibilities : CreateSpot(r, u, s, c, vis)
    <3>1. spots' = spots
      BY <1>4, <2>4 DEF Arrive, Step, CreateClub, JoinClub, BeginList, GetSpot,
         BeginNearby, IncrWindow, Grant, IncrFails, Expire, AddOwner, InsertDepth, ListQuery, ListRow, LoadSpot, AskSpot, LoadSamples,
         ToSpotDTO, Fail, shared, limiter
    <3>2. pc'[r] # "insert"
      BY <1>4, <2>4 DEF Arrive, Step, CreateClub, JoinClub, BeginList, GetSpot,
         BeginNearby, IncrWindow, Grant, IncrFails, Expire, AddOwner, InsertDepth, ListQuery, ListRow, LoadSpot, AskSpot, LoadSamples,
         ToSpotDTO, Fail, Goto, Answer, Types, LocalTypes, At
    <3> QED  BY <1>1, <1>2, <2>1, <3>1, <3>2 DEF CreatorsAreMembers
  <2> QED  BY <2>2, <2>3, <2>4
<1> QED  BY <1>3, <1>4, RequestOrQuiet

(* The part of OkMeansWhole that speaks of one request.                    *)
WholeOf(r) == verdict[r] = "OK" =>
    /\ req[r].op = "create" => Stored(req[r].spot) /\ depths[req[r].spot] = Samples
    /\ req[r].op = "club" => IsClubMember(req[r].club, User(r))

(* Only the one creator of a spot adds samples to it.                      *)
LEMMA SamplesOfCreator ==
    ASSUME Types, InItsHandler, OneCreator, NEW r \in Requests, NEW q \in Requests \ {r},
           Arrive(r) \/ Step(r) \/ Fail(r), req[q].op = "create"
    PROVE  depths'[req[q].spot] = depths[req[q].spot]
<1>1. CASE InsertDepth(r)
  <2>1. req[r].op = "create" /\ req[r].spot \in Spots
    BY <1>1 DEF InsertDepth, At, InItsHandler
  <2>2. req[q].spot # req[r].spot /\ req[q].spot \in Spots
    <3>1. q \in Requests /\ q # r
      OBVIOUS
    <3>2. req[q].spot \in Spots
      BY <3>1 DEF InItsHandler
    <3>3. req[q].spot # req[r].spot
      BY <2>1, <3>1 DEF OneCreator
    <3> QED  BY <3>2, <3>3
  <2>3. depths' = depths \/ depths' = [depths EXCEPT ![req[r].spot] = @ + 1]
    BY <1>1 DEF InsertDepth
  <2> QED  BY <2>2, <2>3 DEF Types, TypeOK
<1>2. CASE ~InsertDepth(r)
  <2>1. depths' = depths
    BY <1>2 DEF Arrive, Step, CreateClub, JoinClub, CreateSpot, BeginList, GetSpot,
       BeginNearby, IncrWindow, Grant, IncrFails, Expire, AddOwner, InsertSpot, ListQuery, ListRow, LoadSpot, AskSpot, LoadSamples,
       ToSpotDTO, Fail, shared, limiter
  <2> QED  BY <2>1
<1> QED  BY <1>1, <1>2

(* What is reported as done stays whole.                                   *)
LEMMA WholeStays ==
    ASSUME Types, InItsHandler, Grows, NEW q \in Requests,
           WholeOf(q), pc[q] # "idle", verdict'[q] = verdict[q],
           req[q].op = "create" => depths'[req[q].spot] = depths[req[q].spot]
    PROVE  WholeOf(q)'
<1>1. req'[q] = req[q] /\ member \subseteq member'
  BY DEF Grows
<1>2. req[q].op = "create" /\ verdict[q] = "OK" => spots'[req[q].spot] = spots[req[q].spot]
  BY DEF Grows, WholeOf, InItsHandler
<1> QED  BY <1>1, <1>2 DEF WholeOf, Stored, IsClubMember, User

LEMMA WholeKept ==
    Types /\ InItsHandler /\ OneCreator /\ Grows /\ (\A q \in Requests : WholeOf(q))
      /\ [Next]_vars => \A q \in Requests : WholeOf(q)'
<1> SUFFICES ASSUME Types, InItsHandler, OneCreator, Grows,
                    \A q \in Requests : WholeOf(q), [Next]_vars, NEW q \in Requests
             PROVE  WholeOf(q)'
  OBVIOUS
<1>1. verdict'[q] # "OK" => WholeOf(q)'
  BY DEF WholeOf
<1>2. verdict[q] = "OK" => pc[q] = "done"
  BY DEF InItsHandler
<1>3. CASE Quiet
  BY <1>1, <1>2, <1>3, WholeStays DEF Quiet, locals
<1>4. ASSUME NEW r \in Requests, Arrive(r) \/ Step(r) \/ Fail(r) PROVE WholeOf(q)'
  <2>1. CASE q # r
    <3>1. verdict'[q] = verdict[q]
      BY <1>4, <2>1, StepIsLocal DEF Same
    <3>2. req[q].op = "create" => depths'[req[q].spot] = depths[req[q].spot]
      BY <1>4, <2>1, SamplesOfCreator
    <3> QED  BY <1>1, <1>2, <3>1, <3>2, WholeStays
  <2>2. CASE q = r /\ AddOwner(r)
    <3>1. req[r].op = "club" /\ req' = req /\ member' = member \cup {<<req[r].club, User(r)>>}
      BY <2>2 DEF AddOwner, At, InItsHandler
    <3> QED  BY <2>2, <3>1 DEF WholeOf, IsClubMember, User
  <2>3. CASE q = r /\ InsertDepth(r)
    <3>1. req[r].op = "create" /\ Stored(req[r].spot) /\ UNCHANGED <<req, spots>>
      BY <2>3 DEF InsertDepth, At, InItsHandler, OneCreator
    <3>2. pc[r] = "depth" /\ verdict[r] # "OK"
      BY <2>3, <1>2 DEF InsertDepth, At
    <3>3. verdict'[r] = "OK" => depths' = depths /\ depths[req[r].spot] = Samples
      BY <2>3, <3>2 DEF InsertDepth
    <3> QED  BY <2>3, <3>1, <3>3 DEF WholeOf, Stored
  <2>4. CASE q = r /\ ~AddOwner(r) /\ ~InsertDepth(r)
    <3>1. verdict'[r] = "OK" => req'[r].op \in {"join", "list", "get"}
      <4>1. ASSUME NEW u \in Users, NEW c \in Clubs, JoinClub(r, u, c)
            PROVE  req'[r].op = "join"
        BY <4>1 DEF JoinClub, Ask, NoReq, Types, LocalTypes
      <4>2. CASE ListRow(r)
        BY <4>2 DEF ListRow, At, InItsHandler
      <4>3. CASE ToSpotDTO(r)
        BY <4>3 DEF ToSpotDTO, At, InItsHandler
      <4>4. CASE /\ ~ListRow(r) /\ ~ToSpotDTO(r)
                 /\ ~\E u \in Users, c \in Clubs : JoinClub(r, u, c)
        <5>1. verdict'[r] # "OK" \/ (verdict' = verdict /\ pc[r] # "done")
          BY <1>4, <2>4, <4>4 DEF Arrive, Step, CreateClub, CreateSpot, BeginList,
             BeginNearby, IncrWindow, Grant, IncrFails, Expire, GetSpot, InsertSpot, ListQuery, LoadSpot, AskSpot, LoadSamples, Fail,
             Answer, At, Ask, Types, LocalTypes
        <5> QED  BY <1>2, <2>4, <5>1
      <4> QED  BY <4>1, <4>2, <4>3, <4>4
    <3> QED  BY <2>4, <3>1 DEF WholeOf
  <2> QED  BY <1>4, <2>1, <2>2, <2>3, <2>4
<1> QED  BY <1>3, <1>4, RequestOrQuiet

-----------------------------------------------------------------------------
(* A counter without an expiry has a request that will set it, or a failed *)
(* call to Redis behind it.                                                *)
LEMMA LimitKept == Types /\ LimitLifts /\ [Next]_vars => LimitLifts'
<1> SUFFICES ASSUME Types, LimitLifts, [Next]_vars, NEW u \in Callers,
                    scans'[u] > 0, u \notin ending', u \notin lost'
             PROVE  \E q \in Requests : pc'[q] = "expire" /\ req'[q].user = u
  BY DEF LimitLifts, At, User
<1>1. scans[u] \in Nat
  BY DEF Types, TypeOK
<1>2. ASSUME scans[u] > 0, u \notin ending, u \notin lost
      PROVE  \E q \in Requests : pc[q] = "expire" /\ User(q) = u
  BY <1>2 DEF LimitLifts, At
<1>3. CASE UNCHANGED vars
  BY <1>2, <1>3 DEF vars, shared, limiter, locals, User
<1>4. ASSUME NEW w \in Callers, WindowEnds(w)
      PROVE  \E q \in Requests : pc'[q] = "expire" /\ req'[q].user = u
  <2>1. u # w
    BY <1>4 DEF WindowEnds, Types, TypeOK
  <2>2. scans[u] > 0 /\ u \notin ending /\ u \notin lost
    BY <1>4, <2>1 DEF WindowEnds, Types, TypeOK
  <2> QED  BY <1>2, <1>4, <2>2 DEF WindowEnds, locals, User
<1>5. ASSUME NEW r \in Requests, Arrive(r) \/ Step(r) \/ Fail(r)
      PROVE  \E q \in Requests : pc'[q] = "expire" /\ req'[q].user = u
  <2>1. ASSUME NEW q \in Requests, q # r, pc[q] = "expire", User(q) = u
        PROVE  pc'[q] = "expire" /\ req'[q].user = u
    BY <1>5, <2>1, StepIsLocal DEF Same, User
  <2>2. CASE IncrWindow(r)
    <3>1. pc[r] = "scan" /\ UNCHANGED <<ending, lost, req>> /\ scans' = Counted(User(r))
      BY <2>2 DEF IncrWindow, At
    <3>2. CASE u = User(r) /\ scans[u] = 0
      <4>1. pc' = [pc EXCEPT ![r] = "expire"]
        BY <2>2, <3>2, ScanLimitAssumption DEF IncrWindow, Grant, Goto
      <4> QED  BY <3>1, <3>2, <4>1 DEF Types, LocalTypes, User
    <3>3. CASE u # User(r) \/ scans[u] # 0
      <4>1. scans[u] > 0
        BY <1>1, <3>1, <3>3 DEF Counted, Types, TypeOK
      <4>2. PICK q \in Requests : pc[q] = "expire" /\ User(q) = u
        BY <1>2, <3>1, <4>1
      <4> QED  BY <2>1, <3>1, <4>2
    <3> QED  BY <3>2, <3>3
  <2>3. CASE IncrFails(r)
    <3>1. pc[r] = "scan" /\ ending' = ending
      BY <2>3 DEF IncrFails, At
    <3>2. scans[u] > 0 /\ u \notin lost
      BY <2>3 DEF IncrFails, Counted, Types, TypeOK
    <3>3. PICK q \in Requests : pc[q] = "expire" /\ User(q) = u
      BY <1>2, <3>1, <3>2
    <3> QED  BY <2>1, <3>1, <3>3
  <2>4. CASE Expire(r)
    <3>1. u # User(r) /\ scans' = scans /\ u \notin ending /\ u \notin lost
      BY <2>4 DEF Expire
    <3>2. PICK q \in Requests : pc[q] = "expire" /\ User(q) = u
      BY <1>2, <3>1
    <3> QED  BY <2>1, <3>1, <3>2
  <2>5. CASE ~IncrWindow(r) /\ ~IncrFails(r) /\ ~Expire(r)
    <3>1. UNCHANGED <<scans, ending, lost>> /\ pc[r] # "expire"
      BY <1>5, <2>5 DEF Arrive, Step, CreateClub, JoinClub, CreateSpot, BeginList,
         GetSpot, AddOwner, InsertSpot, InsertDepth, BeginNearby, ListQuery, ListRow,
         LoadSpot, AskSpot, LoadSamples, ToSpotDTO, Fail, At, Ask, shared, limiter
    <3>2. PICK q \in Requests : pc[q] = "expire" /\ User(q) = u
      BY <1>2, <3>1
    <3> QED  BY <2>1, <3>1, <3>2
  <2> QED  BY <2>2, <2>3, <2>4, <2>5
<1> QED  BY <1>3, <1>4, <1>5 DEF Next

(* A scan is let through when it is counted, and only up to the limit; the *)
(* end of the window forgets both.                                         *)
LEMMA GrantsKept == Types /\ GrantsCounted /\ [Next]_vars => GrantsCounted'
<1> SUFFICES ASSUME Types, GrantsCounted, [Next]_vars, NEW u \in Callers
             PROVE  granted'[u] <= scans'[u] /\ granted'[u] <= ScanLimit
  BY DEF GrantsCounted
<1>1. /\ scans \in [Callers -> Nat] /\ granted \in [Callers -> Nat] /\ ScanLimit \in Nat \ {0}
      /\ granted[u] <= scans[u] /\ granted[u] <= ScanLimit
  BY ScanLimitAssumption DEF Types, TypeOK, GrantsCounted
<1>2. ASSUME NEW w \in Callers, WindowEnds(w)
      PROVE  granted'[u] <= scans'[u] /\ granted'[u] <= ScanLimit
  BY <1>1, <1>2 DEF WindowEnds
<1>3. ASSUME NEW r \in Requests, IncrWindow(r)
      PROVE  granted'[u] <= scans'[u] /\ granted'[u] <= ScanLimit
  <2>1. CASE scans[User(r)] >= ScanLimit /\ granted' = granted
    BY <1>1, <1>3, <2>1 DEF IncrWindow, Counted
  <2>2. CASE scans[User(r)] + 1 <= ScanLimit
             /\ granted' = [granted EXCEPT ![User(r)] = @ + 1]
    <3>1. scans' = [scans EXCEPT ![User(r)] = @ + 1]
      BY <1>3 DEF IncrWindow, Counted
    <3>2. CASE u = User(r)
      BY <1>1, <2>2, <3>1, <3>2
    <3>3. CASE u # User(r)
      BY <1>1, <2>2, <3>1, <3>3
    <3> QED  BY <3>2, <3>3
  <2>3. scans[User(r)] \in Nat
    BY <1>1, UsersAreCallers
  <2> QED  BY <1>1, <1>3, <2>1, <2>2, <2>3 DEF IncrWindow, Grant
<1>4. ASSUME NEW r \in Requests, IncrFails(r)
      PROVE  granted'[u] <= scans'[u] /\ granted'[u] <= ScanLimit
  BY <1>1, <1>4 DEF IncrFails, Counted
<1>5. ASSUME NEW r \in Requests, Arrive(r) \/ Step(r) \/ Fail(r),
             ~IncrWindow(r), ~IncrFails(r)
      PROVE  UNCHANGED <<scans, granted>>
  BY <1>5 DEF Arrive, Step, CreateClub, JoinClub, CreateSpot, BeginList, GetSpot,
     AddOwner, InsertSpot, InsertDepth, BeginNearby, Expire, ListQuery, ListRow,
     LoadSpot, AskSpot, LoadSamples, ToSpotDTO, Fail, shared, limiter
<1> QED
  BY <1>1, <1>2, <1>3, <1>4, <1>5 DEF Next, vars, shared, limiter

-----------------------------------------------------------------------------
LEMMA Invariance == Spec => []IInv
<1>1. Init => IInv
  BY InitHolds
<1>2. IInv /\ [Next]_vars => IInv'
  <2> SUFFICES ASSUME IInv, [Next]_vars PROVE IInv'
    OBVIOUS
  <2>1. /\ Types /\ InItsHandler /\ OneCreator /\ SeenStored
        /\ CreatorsAreMembers /\ ClubSpotsOfMembers
        /\ \A q \in Requests : ShowsOf(q)
        /\ \A q \in Requests : WholeOf(q)
        /\ LimitLifts /\ GrantsCounted
    BY DEF IInv, Control, Promises, DetailMeansAllowed, ListedSeenExactly,
           OkMeansWhole, ShowsOf, Detailed, WholeOf
  <2>2. Grows
    BY <2>1, StepGrows
  <2>3. Types' /\ InItsHandler' /\ OneCreator' /\ SeenStored'
    BY <2>1, <2>2, TypesKept, HandlerKept, CreatorKept, SeenKept
  <2>4. CreatorsAreMembers' /\ ClubSpotsOfMembers'
    BY <2>1, <2>2, MembersKept
  <2>5. \A q \in Requests : ShowsOf(q)' /\ WholeOf(q)'
    BY <2>1, <2>2, ShowsKept, WholeKept
  <2>6. DetailMeansAllowed' /\ ListedSeenExactly' /\ OkMeansWhole'
    BY <2>5 DEF DetailMeansAllowed, ListedSeenExactly, OkMeansWhole,
                ShowsOf, Detailed, WholeOf
  <2>7. LimitLifts' /\ GrantsCounted'
    BY <2>1, LimitKept, GrantsKept
  <2> QED  BY <2>3, <2>4, <2>6, <2>7 DEF IInv, Control, Promises
<1> QED  BY <1>1, <1>2, PTL DEF Spec

(* Every variable keeps its type.                                          *)
THEOREM TypeCorrect == Spec => []TypeOK
<1>1. IInv => TypeOK
  BY DEF IInv, Types
<1> QED  BY <1>1, Invariance, PTL

(* No answer shows detail of a spot to somebody who may not see it,        *)
(* whichever queries fail and whoever joins a club meanwhile.              *)
THEOREM DetailIsAllowed == Spec => []DetailMeansAllowed
<1>1. IInv => DetailMeansAllowed
  BY DEF IInv, Promises
<1> QED  BY <1>1, Invariance, PTL

(* The WHERE clause of the listings lets nothing through that CanSeeExact, *)
(* asked later on another connection, would fuzz.                          *)
THEOREM ListedIsExact == Spec => []ListedSeenExactly
<1>1. IInv => ListedSeenExactly
  BY DEF IInv, Promises
<1> QED  BY <1>1, Invariance, PTL

(* A spot for a club only belongs to one of the club's members.            *)
THEOREM ClubSpotsAreMembers == Spec => []ClubSpotsOfMembers
<1>1. IInv => ClubSpotsOfMembers
  BY DEF IInv, Promises
<1> QED  BY <1>1, Invariance, PTL

(* What CreateSpot and CreateClub report as created is there in full.      *)
THEOREM CreatedIsWhole == Spec => []OkMeansWhole
<1>1. IInv => OkMeansWhole
  BY DEF IInv, Promises
<1> QED  BY <1>1, Invariance, PTL

(* In one window of its counter nobody is granted more scans than the      *)
(* limit, and nobody stays held to it while the calls to Redis succeed.    *)
THEOREM ScanLimitKept == Spec => []ScanWindow
<1>1. IInv => ScanWindow
  BY DEF IInv, Promises, ScanWindow, LimitHolds, GrantsCounted
<1> QED  BY <1>1, Invariance, PTL

(* What somebody may see of a spot is never taken back.                    *)
SightKept ==
    \A s \in Spots : Stored(s) =>
        /\ spots'[s] = spots[s]
        /\ \A u \in Callers : /\ Listed(u, s) => Listed(u, s)'
                              /\ Allowed(u, s) => Allowed(u, s)'

(* No step, of any handler and wherever it fails, changes a stored spot or *)
(* takes from anybody the sight of one: that is why a rule may be asked on *)
(* one connection and another one, later, on a second (ListSpots, GetSpot).*)
THEOREM SightLasts == Spec => [][SightKept]_vars
<1>1. IInv /\ [Next]_vars => SightKept
  <2> SUFFICES ASSUME IInv, [Next]_vars PROVE SightKept
    OBVIOUS
  <2>1. Types /\ Grows
    BY StepGrows DEF IInv, Control
  <2>2. ASSUME NEW s \in Spots, Stored(s), NEW u \in Callers
        PROVE  (Listed(u, s) => Listed(u, s)') /\ (Allowed(u, s) => Allowed(u, s)')
    BY <2>1, <2>2, SightGrows
  <2>3. \A s \in Spots : Stored(s) => spots'[s] = spots[s]
    BY <2>1 DEF Grows
  <2> QED  BY <2>2, <2>3 DEF SightKept
<1> QED  BY <1>1, Invariance, PTL DEF Spec
=============================================================================
