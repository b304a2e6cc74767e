------------------------- MODULE AnglerRecordsProofs -------------------------
(***************************************************************************)
(* Theorems about AnglerRecords, for any users, fields, entries, limit and *)
(* number of requests.  What they rest on: a request keeps to its handler  *)
(* and, once it has begun, to what it asks; the row of statistics that a   *)
(* transaction writes is the committed one with its own catch counted, for *)
(* as long as it has the lock; and a row of the book comes once, from the  *)
(* request it is named for.                                                *)
(***************************************************************************)
EXTENDS AnglerRecords, FiniteSetTheorems, TLAPS

(* A request is only ever at the steps of its own handler.                 *)
InItsHandler ==
    \A r \in Requests :
        /\ pc[r] = "idle" => answer[r] = "none" /\ req[r] = NoRequest
        /\ pc[r] = "insert" => req[r].op = "register" /\ User(r) \in Users
        /\ pc[r] = "write" =>
              /\ req[r].op = "patch" /\ User(r) \in Users /\ req[r].fields \subseteq Fields
              /\ \A f \in req[r].fields : draft[r][f] = r
        /\ pc[r] \in {"stats", "commit"} =>
              req[r].op = "create" /\ User(r) \in Users /\ req[r].entry \in Entry
        /\ pc[r] \in {"put", "show"} =>
              /\ req[r].op = "upload" /\ User(r) \in Users /\ req[r].target \in Requests
              /\ book[req[r].target].owner = User(r)
        /\ pc[r] = "query" => req[r].op \in {"list", "mystats"} /\ User(r) \in Users
        /\ pc[r] = "reload" => req[r].op \notin {"list", "mystats"}
        /\ req[r].op = "upload" => req[r].target \in Requests
        /\ req[r].op = "patch" => User(r) \in Users /\ req[r].fields \subseteq Fields
        /\ answer[r] = "ok" => pc[r] = "done"
        /\ before[r] \subseteq Ended

(* A row of the book is the work of the request it is named for.           *)
BookIsMade ==
    \A c \in Requests :
        /\ book[c] # NoRow =>
              /\ pc[c] \in {"reload", "done"} /\ req[c].op = "create"
              /\ book[c].owner = User(c) /\ User(c) \in Users
              /\ book[c].entry = req[c].entry /\ req[c].entry \in Entry
        /\ req[c].op = "create" /\ (pc[c] = "reload" \/ answer[c] = "ok") => book[c] # NoRow

(* Who is about to commit has the row of statistics to itself.             *)
LockedRow ==
    /\ \A r \in Requests : pc[r] = "commit" =>
          statsLock[User(r)] = r /\ tx[r] = Bump(stats[User(r)], req[r].entry)
    /\ \A u \in Users, r \in Requests : statsLock[u] = r => pc[r] = "commit" /\ User(r) = u

(* A photo is in the store, whole, before and while it is shown.           *)
PhotosStored ==
    /\ \A r \in Requests : pc[r] = "show" => store[r] = "whole"
    /\ \A c \in Requests :
          book[c].photo # Nobody =>
              pc[book[c].photo] \in {"reload", "done"} /\ book[c] # NoRow

(* What is seen is in the book.                                            *)
SeenIsBooked == \A r \in Requests : \A d \in seen[r] : book[d] # NoRow

(* A photo that was shown, before its upload is answered.                  *)
PhotoHolds ==
    \A r \in Requests :
        req[r].op = "upload" /\ (pc[r] = "reload" \/ answer[r] = "ok") =>
            LET k == book[req[r].target].photo
            IN k # Nobody /\ k \notin before[r]

Newer(k, r) == k # Nobody /\ k \notin before[r]

(* A change that was written, before it is answered and while another      *)
(* PatchMe that has begun since carries it in its draft.                   *)
PatchHolds ==
    \A r \in Requests : req[r].op = "patch" =>
        \A f \in req[r].fields : NobodyKeeps(f, r) =>
            /\ pc[r] = "reload" \/ answer[r] = "ok" =>
                  Newer(profile[User(r)][f], r)
            /\ answer[r] = "ok" =>
                  \A q \in Requests :
                      pc[q] = "write" /\ User(q) = User(r) /\ r \in before[q] =>
                          Newer(draft[q][f], r)

IInv == /\ TypeOK /\ InItsHandler /\ BookIsMade /\ LockedRow /\ PhotosStored
        /\ SeenIsBooked /\ StatsMatchBook /\ WholeOrNothing /\ PhotoReadable
        /\ ReadYourWrites /\ PhotoHolds /\ PatchHolds

-----------------------------------------------------------------------------
LEMMA EntryIsEntry == Entries \subseteq Entry
BY EntriesAssumption DEF Entry

(* The request reaches its handler: what Begin does to the types.          *)
LEMMA BeginTypes ==
    ASSUME TypeOK, NEW r \in Requests, NEW ask, NEW at, Begin(r, ask, at),
           ask \in [op : {"none", "register", "patch", "create", "upload", "list", "mystats"},
                    user : Users \cup {Nobody}, entry : Entry \cup {Nobody},
                    target : Name, fields : SUBSET Fields],
           at \in {"insert", "write", "stats", "put", "query", "done"}
    PROVE  /\ pc' \in [Requests -> {"idle", "insert", "write", "stats", "commit", "put",
                                    "show", "query", "reload", "done"}]
           /\ req' \in [Requests ->
                  [op : {"none", "register", "patch", "create", "upload", "list", "mystats"},
                   user : Users \cup {Nobody}, entry : Entry \cup {Nobody},
                   target : Name, fields : SUBSET Fields]]
           /\ before' \in [Requests -> SUBSET Requests]
BY DEF TypeOK, Begin, Ended

LEMMA BumpType ==
    ASSUME NEW row \in Totals,
           NEW e \in Entry
    PROVE  Bump(row, e) \in Totals
<1>1. e.length \in Nat /\ e.species \in Species
  BY DEF Entry
<1> QED  BY <1>1 DEF Bump, Totals

LEMMA NoStatsType == NoStats \in Totals
BY DEF NoStats, Totals

(* Types, action by action.                                                *)
LEMMA TypesKept == TypeOK /\ InItsHandler /\ [Next]_vars => TypeOK'
<1> SUFFICES ASSUME TypeOK, InItsHandler, [Next]_vars PROVE TypeOK'
  OBVIOUS
<1> DEFINE Ask == [op : {"none", "register", "patch", "create", "upload", "list", "mystats"},
                   user : Users \cup {Nobody}, entry : Entry \cup {Nobody},
                   target : Name, fields : SUBSET Fields]
<1>0. NoRequest \in Ask
  BY DEF NoRequest, Name
<1>1. ASSUME NEW r \in Requests, NEW u \in Users, BeginRegister(r, u) PROVE TypeOK'
  <2>1. [NoRequest EXCEPT !.op = "register", !.user = u] \in Ask
    BY <1>0 DEF NoRequest
  <2> QED  BY <1>1, <2>1, BeginTypes DEF BeginRegister, TypeOK, tables
<1>2. ASSUME NEW r \in Requests, InsertUser(r) PROVE TypeOK'
  <2>1. accounts' \in SUBSET Users
    BY <1>2 DEF InsertUser, InItsHandler, TypeOK
  <2>2. Answer(r, "refused") \/ GoOn(r, "reload")
    BY <1>2 DEF InsertUser
  <2>3. /\ pc' \in [Requests -> {"idle", "insert", "write", "stats", "commit", "put",
                                "show", "query", "reload", "done"}]
        /\ answer' \in [Requests -> {"none", "ok", "short", "refused", "error"}]
        /\ UNCHANGED <<req, before>>
    <3>1. CASE Answer(r, "refused")
      BY <3>1 DEF TypeOK, Answer
    <3>2. CASE GoOn(r, "reload")
      BY <3>2 DEF TypeOK, GoOn
    <3> QED  BY <2>2, <3>1, <3>2
  <2> QED  BY <1>2, <2>1, <2>3 DEF InsertUser, TypeOK
<1>3. ASSUME NEW r \in Requests, NEW u \in Users, NEW asked \in SUBSET Fields, BeginPatch(r, u, asked)
      PROVE  TypeOK'
  <2>1. [NoRequest EXCEPT !.op = "patch", !.user = u, !.fields = asked] \in Ask
    BY <1>0 DEF NoRequest
  <2>2. draft' \in [Requests -> [Fields -> Name]]
    BY <1>3 DEF BeginPatch, TypeOK, Name
  <2> QED  BY <1>3, <2>1, <2>2, BeginTypes DEF BeginPatch, TypeOK, tables
<1>4. ASSUME NEW r \in Requests, WriteProfile(r) PROVE TypeOK'
  BY <1>4 DEF WriteProfile, InItsHandler, TypeOK, GoOn, NoDraft, Name
<1>5. ASSUME NEW r \in Requests, Refuse(r) PROVE TypeOK'
  <2>1. Begin(r, NoRequest, "done") /\ answer' \in [Requests -> {"none", "ok", "short", "refused", "error"}]
    BY <1>5 DEF Refuse, TypeOK
  <2> QED  BY <1>0, <1>5, <2>1, BeginTypes DEF Refuse, TypeOK, tables
<1>6. ASSUME NEW r \in Requests, NEW u \in Users, NEW e \in Entries, BeginCreate(r, u, e)
      PROVE  TypeOK'
  <2>1. [NoRequest EXCEPT !.op = "create", !.user = u, !.entry = e] \in Ask
    BY <1>0, EntryIsEntry DEF NoRequest
  <2>2. CASE Refuse(r)
    BY <1>5, <2>2
  <2>3. CASE Begin(r, [NoRequest EXCEPT !.op = "create", !.user = u, !.entry = e], "stats")
             /\ UNCHANGED <<tables, statsLock, store, draft, seen, tx, answer>>
    BY <2>3, <2>1, BeginTypes DEF TypeOK, tables
  <2> QED  BY <1>6, <2>2, <2>3 DEF BeginCreate
<1>7. ASSUME NEW r \in Requests, UpsertStats(r) PROVE TypeOK'
  <2>1. User(r) \in Users /\ req[r].entry \in Entry
    BY <1>7 DEF UpsertStats, InItsHandler
  <2>2. Bump(stats[User(r)], req[r].entry)
          \in Totals
    BY <2>1, BumpType DEF TypeOK
  <2>3. tx' \in [Requests -> Totals]
    BY <1>7, <2>2 DEF UpsertStats, TypeOK
  <2>4. statsLock' \in [Users -> Name]
    BY <1>7 DEF UpsertStats, TypeOK, Name
  <2> QED  BY <1>7, <2>3, <2>4 DEF UpsertStats, TypeOK, GoOn, tables
<1>8. ASSUME NEW r \in Requests, Commit(r) PROVE TypeOK'
  <2>1. User(r) \in Users /\ req[r].entry \in Entry
    BY <1>8 DEF Commit, InItsHandler
  <2>2. book' \in [Requests -> [owner : Users \cup {Nobody}, entry : Entry \cup {Nobody},
                                photo : Name]]
    BY <1>8, <2>1 DEF Commit, TypeOK, Name
  <2>3. /\ stats' \in [Users -> Totals]
        /\ tx' \in [Requests -> Totals]
    BY <1>8, <2>1, NoStatsType
       DEF Commit, TypeOK
  <2>4. statsLock' \in [Users -> Name] /\ jobs' \in SUBSET Requests
    BY <1>8 DEF Commit, TypeOK, Name, Unlocked
  <2> QED  BY <1>8, <2>2, <2>3, <2>4 DEF Commit, TypeOK, GoOn
<1>9. ASSUME NEW r \in Requests, Reload(r) PROVE TypeOK'
  BY <1>9 DEF Reload, TypeOK, Answer, tables
<1>10. ASSUME NEW r \in Requests, NEW u \in Users, NEW c \in Requests, BeginUpload(r, u, c)
       PROVE  TypeOK'
  <2>1. [NoRequest EXCEPT !.op = "upload", !.user = u, !.target = c] \in Ask
    BY <1>0 DEF NoRequest, Name
  <2>2. CASE Refuse(r)
    BY <1>5, <2>2
  <2>3. CASE Begin(r, [NoRequest EXCEPT !.op = "upload", !.user = u, !.target = c], "put")
             /\ UNCHANGED <<tables, statsLock, store, draft, seen, tx, answer>>
    BY <2>3, <2>1, BeginTypes DEF TypeOK, tables
  <2> QED  BY <1>10, <2>2, <2>3 DEF BeginUpload
<1>11. ASSUME NEW r \in Requests, Put(r) \/ PutBreaks(r) PROVE TypeOK'
  <2>1. CASE Put(r)
    BY <2>1 DEF Put, TypeOK, GoOn, tables
  <2>2. CASE PutBreaks(r)
    BY <2>2 DEF PutBreaks, TypeOK, Answer, tables
  <2> QED  BY <1>11, <2>1, <2>2
<1>12. ASSUME NEW r \in Requests, ShowPhoto(r) PROVE TypeOK'
  <2>1. req[r].target \in Requests
    BY <1>12 DEF ShowPhoto, InItsHandler
  <2>2. book' \in [Requests -> [owner : Users \cup {Nobody}, entry : Entry \cup {Nobody},
                                photo : Name]]
    <3> DEFINE Shown == [book[req[r].target] EXCEPT !.photo = r]
    <3>1. book' = [book EXCEPT ![req[r].target] = Shown]
      BY <1>12 DEF ShowPhoto
    <3>2. book[req[r].target] \in [owner : Users \cup {Nobody}, entry : Entry \cup {Nobody},
                                   photo : Name]
      BY <2>1 DEF TypeOK
    <3>3. Shown \in [owner : Users \cup {Nobody}, entry : Entry \cup {Nobody}, photo : Name]
      BY <3>2 DEF Name
    <3> QED  BY <2>1, <3>1, <3>3 DEF TypeOK
  <2> QED  BY <1>12, <2>2 DEF ShowPhoto, TypeOK, GoOn
<1>13. ASSUME NEW r \in Requests, NEW u \in Users, NEW op \in {"list", "mystats"},
              BeginList(r, u, op)
       PROVE  TypeOK'
  <2>1. [NoRequest EXCEPT !.op = op, !.user = u] \in Ask
    BY <1>0 DEF NoRequest
  <2> QED  BY <1>13, <2>1, BeginTypes DEF BeginList, TypeOK, tables
<1>14. ASSUME NEW r \in Requests, Query(r) PROVE TypeOK'
  <2>1. PICK S \in Rows(req[r].op, User(r)) : seen' = [seen EXCEPT ![r] = S]
    BY <1>14 DEF Query
  <2>2. S \subseteq Requests
    BY <2>1 DEF Rows, Own
  <2> QED  BY <1>14, <2>1, <2>2 DEF Query, TypeOK, Answer, tables
<1>15. ASSUME NEW r \in Requests, QueryBreaks(r) PROVE TypeOK'
  BY <1>15 DEF QueryBreaks, TypeOK, Answer, tables
<1>16. ASSUME NEW r \in Requests, Fail(r) PROVE TypeOK'
  <2>1. statsLock' \in [Users -> Name] /\ draft' \in [Requests -> [Fields -> Name]]
    BY <1>16 DEF Fail, TypeOK, Name, Unlocked, NoDraft
  <2>2. tx' \in [Requests -> Totals]
    BY <1>16, NoStatsType DEF Fail, TypeOK
  <2> QED  BY <1>16, <2>1, <2>2 DEF Fail, TypeOK, Answer, tables
<1>17. CASE UNCHANGED vars
  BY <1>17 DEF vars, tables, TypeOK
<1> QED  BY <1>1, <1>2, <1>3, <1>4, <1>6, <1>7, <1>8, <1>9, <1>10, <1>11, <1>12, <1>13,
            <1>14, <1>15, <1>16, <1>17 DEF Next, Arrive, Proceed, Break

-----------------------------------------------------------------------------
(* A step is one request's; the others stay where they are, and what a     *)
(* request asks never changes once it has begun.                           *)
StepOf(r) ==
    /\ \A q \in Requests \ {r} :
          /\ pc'[q] = pc[q] /\ req'[q] = req[q] /\ answer'[q] = answer[q]
          /\ before'[q] = before[q] /\ draft'[q] = draft[q] /\ seen'[q] = seen[q]
          /\ tx'[q] = tx[q]
    /\ pc[r] # "done" /\ pc'[r] # "idle"
    /\ pc[r] = "idle" => before'[r] = Ended /\ answer'[r] # "ok"
    /\ pc[r] # "idle" => before'[r] = before[r] /\ req'[r] = req[r]
    /\ answer'[r] = "ok" => pc'[r] = "done" \/ answer[r] = "ok"

Acts(r) == Arrive(r) \/ Proceed(r) \/ Break(r)

LEMMA OneRequestSteps ==
    ASSUME TypeOK, InItsHandler, NEW r \in Requests, Acts(r)
    PROVE  StepOf(r)
<1> USE DEF TypeOK, StepOf, tables
<1>1. CASE Arrive(r)
  <2>1. answer[r] # "ok"
    BY <1>1 DEF Arrive, BeginRegister, BeginPatch, BeginCreate, BeginUpload, BeginList,
                Refuse, Begin, InItsHandler
  <2>2. ASSUME NEW u \in Users, BeginRegister(r, u) PROVE StepOf(r)
    BY <2>1, <2>2 DEF BeginRegister, Begin
  <2>3. ASSUME NEW u \in Users, NEW asked \in SUBSET Fields, BeginPatch(r, u, asked) PROVE StepOf(r)
    BY <2>1, <2>3 DEF BeginPatch, Begin
  <2>4. ASSUME Refuse(r) PROVE StepOf(r)
    BY <2>1, <2>4 DEF Refuse, Begin
  <2>5. ASSUME NEW u \in Users, NEW e \in Entries, BeginCreate(r, u, e) PROVE StepOf(r)
    BY <2>1, <2>4, <2>5 DEF BeginCreate, Begin
  <2>6. ASSUME NEW u \in Users, NEW c \in Requests, BeginUpload(r, u, c) PROVE StepOf(r)
    BY <2>1, <2>4, <2>6 DEF BeginUpload, Begin
  <2>7. ASSUME NEW u \in Users, NEW o \in {"list", "mystats"}, BeginList(r, u, o)
        PROVE  StepOf(r)
    BY <2>1, <2>7 DEF BeginList, Begin
  <2> QED  BY <1>1, <2>2, <2>3, <2>5, <2>6, <2>7 DEF Arrive
<1>2. CASE InsertUser(r) \/ WriteProfile(r)
  BY <1>2 DEF InsertUser, WriteProfile, Answer, GoOn
<1>3. CASE UpsertStats(r) \/ Commit(r)
  BY <1>3 DEF UpsertStats, Commit, GoOn
<1>4. CASE Reload(r) \/ Query(r) \/ QueryBreaks(r)
  BY <1>4 DEF Reload, Query, QueryBreaks, Answer
<1>5. CASE Put(r) \/ PutBreaks(r) \/ ShowPhoto(r)
  BY <1>5 DEF Put, PutBreaks, ShowPhoto, Answer, GoOn
<1>6. CASE Fail(r)
  BY <1>6 DEF Fail, Answer
<1> QED  BY <1>1, <1>2, <1>3, <1>4, <1>5, <1>6 DEF Acts, Proceed, Break

(* Where the steps of a request lead.                                      *)
LEMMA WhereTo ==
    ASSUME TypeOK, InItsHandler, NEW r \in Requests, Acts(r)
    PROVE  /\ pc'[r] = "reload" =>
                InsertUser(r) \/ WriteProfile(r) \/ Commit(r) \/ ShowPhoto(r)
           /\ answer'[r] = "ok" => Reload(r) \/ Query(r)
           /\ pc'[r] = "show" => Put(r)
           /\ pc'[r] = "commit" => UpsertStats(r)
           /\ pc'[r] = "write" => \E u \in Users, asked \in SUBSET Fields : BeginPatch(r, u, asked)
<1> DEFINE Claim == /\ pc'[r] = "reload" =>
                         InsertUser(r) \/ WriteProfile(r) \/ Commit(r) \/ ShowPhoto(r)
                    /\ answer'[r] = "ok" => Reload(r) \/ Query(r)
                    /\ pc'[r] = "show" => Put(r)
                    /\ pc'[r] = "commit" => UpsertStats(r)
                    /\ pc'[r] = "write" => \E u \in Users, asked \in SUBSET Fields : BeginPatch(r, u, asked)
<1>1. pc[r] # "done" => answer[r] # "ok"
  BY DEF InItsHandler
<1> USE DEF TypeOK
<1>2. CASE Arrive(r)
  <2> USE DEF Begin, tables
  <2>1. ASSUME Refuse(r) PROVE Claim
    BY <2>1 DEF Refuse
  <2>2. ASSUME NEW u \in Users, BeginRegister(r, u) PROVE Claim
    BY <1>1, <2>2 DEF BeginRegister
  <2>3. ASSUME NEW u \in Users, NEW asked \in SUBSET Fields, BeginPatch(r, u, asked) PROVE Claim
    BY <1>1, <2>3 DEF BeginPatch
  <2>4. ASSUME NEW u \in Users, NEW e \in Entries, BeginCreate(r, u, e) PROVE Claim
    BY <1>1, <2>1, <2>4 DEF BeginCreate
  <2>5. ASSUME NEW u \in Users, NEW c \in Requests, BeginUpload(r, u, c) PROVE Claim
    BY <1>1, <2>1, <2>5 DEF BeginUpload
  <2>6. ASSUME NEW u \in Users, NEW o \in {"list", "mystats"}, BeginList(r, u, o) PROVE Claim
    BY <1>1, <2>6 DEF BeginList
  <2> QED  BY <1>2, <2>2, <2>3, <2>4, <2>5, <2>6 DEF Arrive
<1>3. CASE InsertUser(r)
  BY <1>1, <1>3 DEF InsertUser, Answer, GoOn
<1>4. CASE WriteProfile(r) \/ UpsertStats(r) \/ Commit(r) \/ Put(r) \/ ShowPhoto(r)
  BY <1>1, <1>4 DEF WriteProfile, UpsertStats, Commit, Put, ShowPhoto, GoOn
<1>5. CASE Reload(r) \/ Query(r) \/ QueryBreaks(r) \/ PutBreaks(r) \/ Fail(r)
  BY <1>5 DEF Reload, Query, QueryBreaks, PutBreaks, Fail, Answer
<1> QED  BY <1>2, <1>3, <1>4, <1>5 DEF Acts, Proceed, Break

(* The book changes by a commit, which writes the row of its own request,  *)
(* or by a photo.                                                          *)
NewRow(r) == [owner |-> User(r), entry |-> req[r].entry, photo |-> Nobody]

BookStep(r) ==
    \/ UNCHANGED book
    \/ /\ pc[r] = "commit" /\ book' = [book EXCEPT ![r] = NewRow(r)]
       /\ pc'[r] = "reload" /\ book[r] = NoRow
    \/ /\ pc[r] = "show" /\ book' = [book EXCEPT ![req[r].target].photo = r]
       /\ pc'[r] = "reload" /\ book[req[r].target] # NoRow

LEMMA BookSteps ==
    ASSUME TypeOK, InItsHandler, BookIsMade, NEW r \in Requests, Acts(r)
    PROVE  BookStep(r)
<1>1. CASE Commit(r)
  BY <1>1 DEF Commit, GoOn, BookStep, NewRow, BookIsMade, TypeOK
<1>2. CASE ShowPhoto(r)
  <2>1. book[req[r].target].owner \in Users
    BY <1>2 DEF ShowPhoto, InItsHandler
  <2>2. book[req[r].target] # NoRow
    BY <2>1, UsersAssumption DEF NoRow
  <2> QED  BY <1>2, <2>2 DEF ShowPhoto, GoOn, BookStep, TypeOK
<1>3. CASE ~Commit(r) /\ ~ShowPhoto(r)
  BY <1>3 DEF Acts, Arrive, Proceed, Break, BeginRegister, BeginPatch, BeginCreate, BeginUpload,
              BeginList, Refuse, InsertUser, WriteProfile, UpsertStats, Reload, Query,
              QueryBreaks, Put, PutBreaks, Fail, tables, BookStep
<1> QED  BY <1>1, <1>2, <1>3

(* What has been entered stays as it was entered.                          *)
LEMMA BookGrows ==
    ASSUME TypeOK, InItsHandler, BookIsMade, NEW r \in Requests, Acts(r)
    PROVE  /\ \A c \in Requests : book[c] # NoRow =>
                 /\ book'[c] # NoRow
                 /\ book'[c].owner = book[c].owner /\ book'[c].entry = book[c].entry
           /\ \A c \in Requests \ {r} : book[c] = NoRow => book'[c] = NoRow
           /\ book[r] = NoRow /\ book'[r] # NoRow => pc[r] = "commit" /\ pc'[r] = "reload"
                                                   /\ book'[r] = NewRow(r)
<1>1. BookStep(r)
  BY BookSteps
<1>2. CASE UNCHANGED book
  BY <1>2
<1>3. CASE /\ pc[r] = "commit" /\ book' = [book EXCEPT ![r] = NewRow(r)]
           /\ pc'[r] = "reload" /\ book[r] = NoRow
  BY <1>3 DEF TypeOK
<1>4. CASE /\ pc[r] = "show" /\ book' = [book EXCEPT ![req[r].target].photo = r]
           /\ pc'[r] = "reload" /\ book[req[r].target] # NoRow
  <2>1. \A c \in Requests :
          book'[c].owner = book[c].owner /\ book'[c].entry = book[c].entry
    BY <1>4 DEF TypeOK
  <2>2. \A c \in Requests : book[c] # NoRow => book[c].owner # Nobody
    BY UsersAssumption DEF BookIsMade
  <2>3. \A c \in Requests : book[c] = NoRow => c # req[r].target /\ book'[c] = book[c]
    BY <1>4 DEF TypeOK
  <2> QED  BY <2>1, <2>2, <2>3 DEF NoRow
<1> QED  BY <1>1, <1>2, <1>3, <1>4 DEF BookStep

-----------------------------------------------------------------------------
LEMMA HandlersKept ==
    ASSUME TypeOK, InItsHandler, BookIsMade, NEW r \in Requests, Acts(r)
    PROVE  InItsHandler'
<1> DEFINE Good(q) ==
        /\ pc[q] = "idle" => answer[q] = "none" /\ req[q] = NoRequest
        /\ pc[q] = "insert" => req[q].op = "register" /\ User(q) \in Users
        /\ pc[q] = "write" =>
              /\ req[q].op = "patch" /\ User(q) \in Users /\ req[q].fields \subseteq Fields
              /\ \A f \in req[q].fields : draft[q][f] = q
        /\ pc[q] \in {"stats", "commit"} =>
              req[q].op = "create" /\ User(q) \in Users /\ req[q].entry \in Entry
        /\ pc[q] \in {"put", "show"} =>
              /\ req[q].op = "upload" /\ User(q) \in Users /\ req[q].target \in Requests
              /\ book[req[q].target].owner = User(q)
        /\ pc[q] = "query" => req[q].op \in {"list", "mystats"} /\ User(q) \in Users
        /\ pc[q] = "reload" => req[q].op \notin {"list", "mystats"}
        /\ req[q].op = "upload" => req[q].target \in Requests
        /\ req[q].op = "patch" => User(q) \in Users /\ req[q].fields \subseteq Fields
        /\ answer[q] = "ok" => pc[q] = "done"
<1>1. StepOf(r)
  BY OneRequestSteps
<1>2. \A c \in Requests : book[c].owner \in Users => book'[c].owner = book[c].owner
  BY BookGrows, UsersAssumption DEF NoRow
<1>3. ASSUME NEW q \in Requests \ {r} PROVE Good(q)'
  BY <1>1, <1>2, <1>3 DEF StepOf, InItsHandler, User
<1>4. Good(r)'
  <2>1. CASE Arrive(r)
    <3> USE DEF Begin, User, NoRequest, TypeOK
    <3>1. ASSUME NEW u \in Users, BeginRegister(r, u) PROVE Good(r)'
      BY <3>1 DEF BeginRegister, InItsHandler
    <3>2. ASSUME NEW u \in Users, NEW asked \in SUBSET Fields, BeginPatch(r, u, asked) PROVE Good(r)'
      BY <3>2 DEF BeginPatch, InItsHandler
    <3>3. ASSUME Refuse(r) PROVE Good(r)'
      BY <3>3 DEF Refuse
    <3>4. ASSUME NEW u \in Users, NEW e \in Entries, BeginCreate(r, u, e) PROVE Good(r)'
      <4>1. CASE Begin(r, [NoRequest EXCEPT !.op = "create", !.user = u, !.entry = e], "stats")
                 /\ UNCHANGED <<tables, statsLock, store, draft, seen, tx, answer>>
        BY <4>1, EntryIsEntry DEF InItsHandler
      <4> QED  BY <3>3, <3>4, <4>1 DEF BeginCreate
    <3>5. ASSUME NEW u \in Users, NEW c \in Requests, BeginUpload(r, u, c) PROVE Good(r)'
      <4>1. CASE /\ book[c].owner = u
                 /\ Begin(r, [NoRequest EXCEPT !.op = "upload", !.user = u, !.target = c], "put")
                 /\ UNCHANGED <<tables, statsLock, store, draft, seen, tx, answer>>
        <5>1. req'[r] = [NoRequest EXCEPT !.op = "upload", !.user = u, !.target = c]
              /\ pc'[r] = "put" /\ book' = book /\ answer'[r] = "none"
          BY <4>1 DEF tables, InItsHandler
        <5> QED  BY <4>1, <5>1
      <4> QED  BY <3>3, <3>5, <4>1 DEF BeginUpload
    <3>6. ASSUME NEW u \in Users, NEW o \in {"list", "mystats"}, BeginList(r, u, o)
          PROVE  Good(r)'
      BY <3>6 DEF BeginList, InItsHandler
    <3> QED  BY <2>1, <3>1, <3>2, <3>4, <3>5, <3>6 DEF Arrive
  <2>2. CASE pc[r] # "idle" /\ pc'[r] \in {"reload", "done"}
    <3>1. req'[r] = req[r] /\ pc[r] # "done"
      BY <1>1, <2>2 DEF StepOf
    <3>2. answer'[r] = "ok" => pc'[r] = "done"
      BY <1>1, <3>1 DEF StepOf, InItsHandler
    <3>3. pc'[r] = "reload" => req[r].op \notin {"list", "mystats"}
      <4>1. pc'[r] = "reload" => pc[r] \in {"insert", "write", "commit", "show"}
        BY WhereTo DEF InsertUser, WriteProfile, Commit, ShowPhoto
      <4> QED  BY <4>1 DEF InItsHandler
    <3> QED  BY <2>2, <3>1, <3>2, <3>3 DEF InItsHandler, User
  <2>3. CASE UpsertStats(r)
    BY <2>3 DEF UpsertStats, GoOn, InItsHandler, TypeOK, User
  <2>4. CASE Put(r)
    BY <2>4 DEF Put, GoOn, InItsHandler, TypeOK, User, tables
  <2>5. CASE ~Arrive(r) /\ ~UpsertStats(r) /\ ~Put(r)
    <3>1. pc[r] # "idle" /\ pc'[r] \in {"reload", "done"}
      BY <2>5 DEF Acts, Proceed, Break, InsertUser, WriteProfile, Commit, Reload, ShowPhoto,
                  Query, QueryBreaks, PutBreaks, Fail, Answer, GoOn, TypeOK
    <3> QED  BY <2>2, <3>1
  <2> QED  BY <2>1, <2>3, <2>4, <2>5
<1>5. ASSUME NEW q \in Requests PROVE before'[q] \subseteq Ended'
  <2>1. Ended \subseteq Ended'
    BY <1>1 DEF StepOf, Ended
  <2>2. before'[q] = before[q] \/ before'[q] = Ended
    BY <1>1 DEF StepOf
  <2> QED  BY <2>1, <2>2 DEF InItsHandler
<1> QED  BY <1>3, <1>4, <1>5 DEF InItsHandler

LEMMA BookKept ==
    ASSUME TypeOK, InItsHandler, BookIsMade, NEW r \in Requests, Acts(r)
    PROVE  BookIsMade'
<1>1. StepOf(r)
  BY OneRequestSteps
<1>2. ASSUME NEW c \in Requests, book'[c] # NoRow
      PROVE  /\ pc'[c] \in {"reload", "done"} /\ req'[c].op = "create"
             /\ book'[c].owner = User(c)' /\ User(c)' \in Users
             /\ book'[c].entry = req'[c].entry /\ req'[c].entry \in Entry
  <2>1. CASE book[c] # NoRow
    <3>1. /\ pc[c] \in {"reload", "done"} /\ req[c].op = "create"
          /\ book[c].owner = User(c) /\ User(c) \in Users
          /\ book[c].entry = req[c].entry /\ req[c].entry \in Entry
      BY <2>1 DEF BookIsMade
    <3>2. book'[c].owner = book[c].owner /\ book'[c].entry = book[c].entry
      BY <2>1, BookGrows
    <3>3. req'[c] = req[c]
      BY <1>1, <3>1 DEF StepOf
    <3>4. pc'[c] \in {"reload", "done"}
      <4>1. CASE c = r /\ pc[r] = "reload"
        BY <4>1 DEF Acts, Arrive, BeginRegister, BeginPatch, BeginCreate, BeginUpload,
                    BeginList, Refuse, Begin, Proceed, Break, InsertUser, WriteProfile,
                    UpsertStats, Commit, Reload, Put, ShowPhoto, Query, QueryBreaks,
                    PutBreaks, Fail, Answer, TypeOK
      <4> QED  BY <1>1, <3>1, <4>1 DEF StepOf
    <3> QED  BY <3>1, <3>2, <3>3, <3>4 DEF User
  <2>2. CASE book[c] = NoRow
    <3>1. c = r /\ pc[r] = "commit" /\ pc'[r] = "reload" /\ book'[r] = NewRow(r)
      BY <1>2, <2>2, BookGrows
    <3>2. req'[r] = req[r]
      BY <1>1, <3>1 DEF StepOf
    <3> QED  BY <3>1, <3>2 DEF InItsHandler, NewRow, User
  <2> QED  BY <2>1, <2>2
<1>3. ASSUME NEW c \in Requests, req'[c].op = "create", pc'[c] = "reload" \/ answer'[c] = "ok"
      PROVE  book'[c] # NoRow
  <2>1. CASE c # r
    BY <1>1, <1>3, <2>1, BookGrows DEF StepOf, BookIsMade
  <2>2. CASE c = r /\ pc[r] = "reload"
    BY <1>1, <1>3, <2>2, BookGrows DEF StepOf, BookIsMade
  <2>3. CASE c = r /\ Commit(r)
    <3>1. User(r) \in Users /\ book'[r].owner = User(r)
      BY <2>3 DEF Commit, InItsHandler, TypeOK
    <3> QED  BY <2>3, <3>1, UsersAssumption DEF NoRow
  <2>4. CASE c = r /\ pc[r] # "reload" /\ ~Commit(r)
    <3>1. CASE Arrive(r)
      <4>1. pc'[r] # "reload" /\ answer'[r] # "ok"
        BY <1>1, <3>1 DEF StepOf, Arrive, BeginRegister, BeginPatch, BeginCreate,
              BeginUpload, BeginList, Refuse, Begin, TypeOK
      <4> QED  BY <1>3, <2>4, <4>1
    <3>2. CASE ~Arrive(r)
      <4>1. pc[r] # "idle"
        BY <3>2 DEF Acts, Proceed, Break, InsertUser, WriteProfile, UpsertStats, Commit,
              Reload, Put, ShowPhoto, Query, QueryBreaks, PutBreaks, Fail
      <4>2. req[r].op = "create" /\ pc[r] # "done"
        BY <1>1, <1>3, <2>4, <4>1 DEF StepOf
      <4>3. UpsertStats(r) \/ Fail(r)
        BY <2>4, <3>2, <4>2 DEF Acts, Proceed, Break, InsertUser, WriteProfile, Reload, Put,
              ShowPhoto, Query, QueryBreaks, PutBreaks, InItsHandler
      <4> QED  BY <1>1, <1>3, <2>4, <4>2, <4>3
               DEF UpsertStats, Fail, GoOn, Answer, TypeOK, InItsHandler, StepOf
    <3> QED  BY <3>1, <3>2
  <2> QED  BY <2>1, <2>2, <2>3, <2>4
<1> QED  BY <1>2, <1>3 DEF BookIsMade

-----------------------------------------------------------------------------
LEMMA InitHolds == Init => IInv
<1> SUFFICES ASSUME Init PROVE IInv
  OBVIOUS
<1> USE DEF Init
<1>1. TypeOK
  <2>1. NoRequest \in [op : {"none", "register", "patch", "create", "upload", "list", "mystats"},
                       user : Users \cup {Nobody}, entry : Entry \cup {Nobody},
                       target : Name, fields : SUBSET Fields]
    BY DEF NoRequest, Name
  <2>2. NoRow \in [owner : Users \cup {Nobody}, entry : Entry \cup {Nobody}, photo : Name]
    BY DEF NoRow, Name
  <2>3. NoDraft \in [Fields -> Name]
    BY DEF NoDraft, Name
  <2> QED  BY <2>1, <2>2, <2>3, NoStatsType, UsersAssumption DEF TypeOK, Name
<1>2. InItsHandler
  BY DEF InItsHandler, NoRequest
<1>3. BookIsMade /\ LockedRow /\ PhotosStored /\ SeenIsBooked
  BY RequestsAssumption DEF BookIsMade, LockedRow, PhotosStored, SeenIsBooked, NoRow
<1>4. ASSUME NEW u \in Users PROVE MyStats(u, stats[u])
  <2>1. Own(u) = {}
    BY UsersAssumption DEF Own, NoRow
  <2>2. Cardinality({}) = 0
    BY FS_EmptySet
  <2>3. {c \in Own(u) : book[c].entry.released} = {}
    BY <2>1
  <2>4. stats[u] = NoStats
    OBVIOUS
  <2>5. NoStats.total = 0 /\ NoStats.released = 0
    BY DEF NoStats
  <2> QED  BY <2>1, <2>2, <2>3, <2>4, <2>5 DEF MyStats
<1>5. StatsMatchBook
  BY <1>4 DEF StatsMatchBook
<1>6. WholeOrNothing /\ PhotoReadable
  BY DEF WholeOrNothing, PhotoReadable, NoRow
<1>7. ReadYourWrites /\ PhotoHolds /\ PatchHolds
  BY DEF ReadYourWrites, PhotoHolds, PatchHolds, NoRequest
<1> QED  BY <1>1, <1>2, <1>3, <1>5, <1>6, <1>7 DEF IInv

LEMMA RowLockKept ==
    ASSUME TypeOK, InItsHandler, LockedRow, NEW r \in Requests, Acts(r)
    PROVE  LockedRow'
<1>1. StepOf(r)
  BY OneRequestSteps
<1>2. CASE UpsertStats(r)
  <2>1. /\ User(r) \in Users /\ statsLock[User(r)] = Nobody /\ pc[r] = "stats"
        /\ statsLock' = [statsLock EXCEPT ![User(r)] = r]
        /\ tx'[r] = Bump(stats[User(r)], req[r].entry)
        /\ pc'[r] = "commit" /\ req' = req /\ stats' = stats
    BY <1>2 DEF UpsertStats, InItsHandler, GoOn, tables, TypeOK
  <2>2. ASSUME NEW q \in Requests, pc'[q] = "commit"
        PROVE  statsLock'[User(q)'] = q /\ tx'[q] = Bump(stats'[User(q)'], req'[q].entry)
    <3>1. CASE q = r
      BY <2>1, <3>1 DEF User, TypeOK
    <3>2. CASE q # r
      <4>1. pc[q] = "commit" /\ tx'[q] = tx[q]
        BY <1>1, <2>2, <3>2 DEF StepOf
      <4>2. statsLock[User(q)] = q /\ q # Nobody
        BY <4>1, RequestsAssumption DEF LockedRow
      <4> QED  BY <2>1, <4>1, <4>2 DEF LockedRow, User, TypeOK
    <3> QED  BY <3>1, <3>2
  <2>3. ASSUME NEW u \in Users, NEW q \in Requests, statsLock'[u] = q
        PROVE  pc'[q] = "commit" /\ User(q)' = u
    <3>1. CASE q = r
      <4>1. statsLock[u] # r
        BY <2>1 DEF LockedRow
      <4> QED  BY <2>1, <2>3, <3>1, <4>1 DEF User, TypeOK
    <3>2. CASE q # r
      BY <1>1, <2>1, <2>3, <3>2 DEF StepOf, LockedRow, User, TypeOK
    <3> QED  BY <3>1, <3>2
  <2> QED  BY <2>2, <2>3 DEF LockedRow
<1>3. CASE Commit(r) \/ Fail(r)
  <2>1. statsLock' = Unlocked(r) /\ pc'[r] # "commit" /\ req' = req
    BY <1>3 DEF Commit, Fail, GoOn, Answer, TypeOK
  <2>2. \A u \in Users : statsLock[u] # r => stats'[u] = stats[u]
    BY <1>3 DEF Commit, Fail, LockedRow, tables, TypeOK
  <2>3. ASSUME NEW q \in Requests, pc'[q] = "commit"
        PROVE  statsLock'[User(q)'] = q /\ tx'[q] = Bump(stats'[User(q)'], req'[q].entry)
    <3>1. q # r /\ pc[q] = "commit" /\ tx'[q] = tx[q]
      BY <1>1, <2>1, <2>3 DEF StepOf
    <3>2. statsLock[User(q)] = q /\ User(q) \in Users
      BY <3>1 DEF LockedRow, InItsHandler
    <3>3. tx[q] = Bump(stats[User(q)], req[q].entry)
      BY <3>1 DEF LockedRow
    <3> QED  BY <2>1, <2>2, <3>1, <3>2, <3>3 DEF User, Unlocked
  <2>4. ASSUME NEW u \in Users, NEW q \in Requests, statsLock'[u] = q
        PROVE  pc'[q] = "commit" /\ User(q)' = u
    <3>1. statsLock[u] = q /\ q # r
      BY <2>1, <2>4, RequestsAssumption DEF Unlocked
    <3> QED  BY <1>1, <2>1, <3>1 DEF StepOf, LockedRow, User
  <2> QED  BY <2>3, <2>4 DEF LockedRow
<1>4. CASE ~UpsertStats(r) /\ ~Commit(r) /\ ~Fail(r)
  <2>1. stats' = stats /\ statsLock' = statsLock /\ tx' = tx
    BY <1>4 DEF Acts, Arrive, Proceed, Break, BeginRegister, BeginPatch, BeginCreate, BeginUpload,
                BeginList, Refuse, InsertUser, WriteProfile, Reload, Query, QueryBreaks, Put,
                PutBreaks, ShowPhoto, tables
  <2>2. pc[r] # "commit"
    <3>1. CASE Arrive(r)
      BY <3>1 DEF Arrive, BeginRegister, BeginPatch, BeginCreate, BeginUpload, BeginList,
                  Refuse, Begin
    <3>2. CASE ~Arrive(r)
      BY <1>4, <3>2 DEF Acts, Proceed, Break, InsertUser, WriteProfile, Reload, Query,
                        QueryBreaks, Put, PutBreaks, ShowPhoto
    <3> QED  BY <3>1, <3>2
  <2>3. pc'[r] # "commit"
    <3>1. pc'[r] = "commit" => UpsertStats(r)
      BY WhereTo
    <3> QED  BY <1>4, <3>1
  <2>4. \A q \in Requests : pc'[q] = "commit" <=> pc[q] = "commit"
    BY <1>1, <2>2, <2>3 DEF StepOf
  <2>5. \A q \in Requests : pc[q] = "commit" => req'[q] = req[q]
    BY <1>1 DEF StepOf
  <2>6. ASSUME NEW q \in Requests, pc'[q] = "commit"
        PROVE  statsLock'[User(q)'] = q /\ tx'[q] = Bump(stats'[User(q)'], req'[q].entry)
    BY <2>1, <2>4, <2>5, <2>6 DEF LockedRow, User
  <2>7. ASSUME NEW u \in Users, NEW q \in Requests, statsLock'[u] = q
        PROVE  pc'[q] = "commit" /\ User(q)' = u
    BY <2>1, <2>4, <2>5, <2>7 DEF LockedRow, User
  <2> QED  BY <2>6, <2>7 DEF LockedRow
<1> QED  BY <1>2, <1>3, <1>4

-----------------------------------------------------------------------------
LEMMA StoreSteps ==
    ASSUME TypeOK, NEW r \in Requests, Acts(r)
    PROVE  \A k \in Requests : store'[k] = store[k] \/ (k = r /\ pc[r] = "put")
<1>1. CASE Put(r) \/ PutBreaks(r)
  BY <1>1 DEF Put, PutBreaks, TypeOK
<1>2. CASE ~Put(r) /\ ~PutBreaks(r)
  <2>1. store' = store
    BY <1>2 DEF Acts, Arrive, Proceed, Break, BeginRegister, BeginPatch, BeginCreate,
                BeginUpload, BeginList, Refuse, InsertUser, WriteProfile, UpsertStats, Commit,
                Reload, Query, QueryBreaks, ShowPhoto, Fail, tables
  <2> QED  BY <2>1
<1> QED  BY <1>1, <1>2

(* A photo in the book after a step was there before it, or is the one     *)
(* that the step shows.                                                    *)
LEMMA PhotoSteps ==
    ASSUME TypeOK, InItsHandler, BookIsMade, PhotosStored, NEW r \in Requests, Acts(r),
           NEW c \in Requests, book'[c].photo # Nobody
    PROVE  /\ book[c] # NoRow
           /\ \/ book'[c].photo = book[c].photo
              \/ /\ book'[c].photo = r /\ pc[r] = "show" /\ pc'[r] = "reload"
                 /\ c = req[r].target
<1>1. BookStep(r)
  BY BookSteps
<1>2. CASE UNCHANGED book
  BY <1>2 DEF PhotosStored
<1>3. CASE /\ pc[r] = "commit" /\ book' = [book EXCEPT ![r] = NewRow(r)]
           /\ pc'[r] = "reload" /\ book[r] = NoRow
  <2>1. c # r
    BY <1>3 DEF NewRow, TypeOK
  <2> QED  BY <1>3, <2>1 DEF TypeOK, PhotosStored
<1>4. CASE /\ pc[r] = "show" /\ book' = [book EXCEPT ![req[r].target].photo = r]
           /\ pc'[r] = "reload" /\ book[req[r].target] # NoRow
  <2>1. CASE c = req[r].target
    BY <1>4, <2>1 DEF TypeOK
  <2>2. CASE c # req[r].target
    BY <1>4, <2>2 DEF TypeOK, PhotosStored
  <2> QED  BY <2>1, <2>2
<1> QED  BY <1>1, <1>2, <1>3, <1>4 DEF BookStep

LEMMA PhotosKept ==
    ASSUME TypeOK, InItsHandler, BookIsMade, PhotosStored, PhotoReadable,
           NEW r \in Requests, Acts(r)
    PROVE  PhotosStored' /\ PhotoReadable'
<1>1. StepOf(r)
  BY OneRequestSteps
<1>2. ASSUME NEW q \in Requests, pc'[q] = "show" PROVE store'[q] = "whole"
  <2>1. CASE q = r
    <3>1. Put(r)
      BY <1>2, <2>1, WhereTo
    <3> QED  BY <2>1, <3>1 DEF Put, TypeOK
  <2>2. CASE q # r
    BY <1>1, <1>2, <2>2, StoreSteps DEF StepOf, PhotosStored
  <2> QED  BY <2>1, <2>2
<1>3. ASSUME NEW c \in Requests, book'[c].photo # Nobody
      PROVE  /\ pc'[book'[c].photo] \in {"reload", "done"} /\ book'[c] # NoRow
             /\ store'[book'[c].photo] = "whole" /\ req'[book'[c].photo].user = book'[c].owner
  <2>1. book[c] # NoRow /\ book'[c] # NoRow /\ book'[c].owner = book[c].owner
    BY <1>3, PhotoSteps, BookGrows
  <2>2. CASE book'[c].photo = book[c].photo
    <3> DEFINE k == book[c].photo
    <3>1. k \in Requests /\ pc[k] \in {"reload", "done"}
      BY <1>3, <2>2 DEF TypeOK, Name, PhotosStored
    <3>2. pc'[k] \in {"reload", "done"}
      <4>1. CASE k = r
        <5>1. pc[r] = "reload"
          BY <1>1, <3>1, <4>1 DEF StepOf
        <5>2. Reload(r) \/ Fail(r)
          BY <5>1 DEF Acts, Arrive, BeginRegister, BeginPatch, BeginCreate, BeginUpload,
                    BeginList, Refuse, Begin, Proceed, Break, InsertUser, WriteProfile,
                    UpsertStats, Commit, Put, ShowPhoto, Query, QueryBreaks, PutBreaks
        <5> QED  BY <4>1, <5>2 DEF Reload, Fail, Answer, TypeOK
      <4>2. CASE k # r
        BY <1>1, <3>1, <4>2 DEF StepOf
      <4> QED  BY <4>1, <4>2
    <3>3. store[k] = "whole" /\ User(k) = book[c].owner
      BY <1>3, <2>2 DEF PhotoReadable
    <3>4. store'[k] = "whole"
      BY <3>1, <3>3, StoreSteps
    <3>5. req'[k] = req[k]
      BY <1>1, <3>1 DEF StepOf
    <3> QED  BY <2>1, <2>2, <3>2, <3>3, <3>4, <3>5 DEF User
  <2>3. CASE /\ book'[c].photo = r /\ pc[r] = "show" /\ pc'[r] = "reload"
             /\ c = req[r].target
    <3>1. store'[r] = "whole"
      BY <2>3, StoreSteps DEF PhotosStored
    <3>2. req'[r] = req[r] /\ book[c].owner = User(r)
      BY <1>1, <2>3 DEF StepOf, InItsHandler
    <3> QED  BY <2>1, <2>3, <3>1, <3>2 DEF User
  <2> QED  BY <1>3, <2>2, <2>3, PhotoSteps
<1>4. PhotosStored'
  BY <1>2, <1>3 DEF PhotosStored
<1>5. PhotoReadable'
  BY <1>3 DEF PhotoReadable, User
<1> QED  BY <1>4, <1>5

(* Whoever shows a photo has not been answered, so has ended before none.  *)
LEMMA PhotoHoldsKept ==
    ASSUME TypeOK, InItsHandler, BookIsMade, PhotosStored, PhotoHolds,
           NEW r \in Requests, Acts(r)
    PROVE  PhotoHolds'
<1>1. StepOf(r)
  BY OneRequestSteps
<1>2. SUFFICES ASSUME NEW q \in Requests, req'[q].op = "upload",
                      pc'[q] = "reload" \/ answer'[q] = "ok"
               PROVE  LET k == book'[req'[q].target].photo
                      IN k # Nobody /\ k \notin before'[q]
  BY DEF PhotoHolds
<1>3. pc[q] # "idle" /\ req'[q] = req[q] /\ before'[q] = before[q]
  <2>1. CASE q # r
    BY <1>1, <1>2, <2>1 DEF StepOf, InItsHandler, NoRequest
  <2>2. CASE q = r
    <3>1. InsertUser(r) \/ WriteProfile(r) \/ Commit(r) \/ ShowPhoto(r) \/ Reload(r) \/ Query(r)
      BY <1>2, <2>2, WhereTo
    <3>2. pc[r] # "idle"
      BY <3>1 DEF InsertUser, WriteProfile, Commit, ShowPhoto, Reload, Query
    <3> QED  BY <1>1, <2>2, <3>2 DEF StepOf
  <2> QED  BY <2>1, <2>2
<1>4. req[q].target \in Requests
  BY <1>2, <1>3 DEF InItsHandler
<1> DEFINE c == req[q].target
<1>5. CASE ShowPhoto(r) /\ req[r].target = c
  <2>1. book'[c].photo = r
    BY <1>4, <1>5 DEF ShowPhoto, TypeOK
  <2>2. r \notin before[q]
    BY <1>5 DEF ShowPhoto, InItsHandler, Ended
  <2> QED  BY <1>3, <2>1, <2>2, RequestsAssumption
<1>6. CASE ~(ShowPhoto(r) /\ req[r].target = c)
  <2>1. pc[q] = "reload" \/ answer[q] = "ok"
    <3>1. CASE q # r
      BY <1>1, <1>2, <3>1 DEF StepOf
    <3>2. CASE q = r
      <4>1. InsertUser(r) \/ WriteProfile(r) \/ Commit(r) \/ ShowPhoto(r) \/ Reload(r) \/ Query(r)
        BY <1>2, <3>2, WhereTo
      <4>2. req[r].op = "upload"
        BY <1>2, <1>3, <3>2
      <4>3. Reload(r)
        BY <1>6, <3>2, <4>1, <4>2 DEF InItsHandler, InsertUser, WriteProfile, Commit, Query
      <4> QED  BY <3>2, <4>3 DEF Reload
    <3> QED  BY <3>1, <3>2
  <2>2. book[c].photo # Nobody /\ book[c].photo \notin before[q]
    BY <1>2, <1>3, <2>1 DEF PhotoHolds
  <2>3. book'[c].photo = book[c].photo
    <3>1. BookStep(r)
      BY BookSteps
    <3>2. CASE UNCHANGED book
      BY <3>2
    <3>3. CASE /\ pc[r] = "commit" /\ book' = [book EXCEPT ![r] = NewRow(r)] /\ book[r] = NoRow
      <4>1. book[c] # NoRow
        BY <1>4, <2>2 DEF PhotosStored
      <4> QED  BY <1>4, <3>3, <4>1 DEF TypeOK
    <3>4. CASE /\ pc[r] = "show" /\ book' = [book EXCEPT ![req[r].target].photo = r]
               /\ pc'[r] = "reload" /\ book[req[r].target] # NoRow
      <4>1. ShowPhoto(r)
        BY <3>4, WhereTo DEF InsertUser, WriteProfile, Commit
      <4> QED  BY <1>4, <1>6, <3>4, <4>1 DEF TypeOK
    <3> QED  BY <3>1, <3>2, <3>3, <3>4 DEF BookStep
  <2> QED  BY <1>3, <2>2, <2>3
<1> QED  BY <1>5, <1>6

-----------------------------------------------------------------------------
LEMMA WholeKept ==
    ASSUME TypeOK, InItsHandler, BookIsMade, WholeOrNothing, NEW r \in Requests, Acts(r)
    PROVE  WholeOrNothing'
<1>1. CASE Commit(r)
  <2>1. jobs' = jobs \cup {r} /\ User(r) \in Users
        /\ book' = [book EXCEPT ![r] = [owner |-> User(r), entry |-> req[r].entry,
                                        photo |-> Nobody]]
    BY <1>1 DEF Commit, InItsHandler
  <2>2. book'[r] # NoRow
    BY <2>1, UsersAssumption DEF NoRow, TypeOK
  <2> QED  BY <2>1, <2>2 DEF WholeOrNothing, TypeOK
<1>2. CASE ~Commit(r)
  <2>1. jobs' = jobs
    BY <1>2 DEF Acts, Arrive, Proceed, Break, BeginRegister, BeginPatch, BeginCreate,
                BeginUpload, BeginList, Refuse, InsertUser, WriteProfile, UpsertStats, Reload,
                Query, QueryBreaks, Put, PutBreaks, ShowPhoto, Fail, tables
  <2>2. \A c \in Requests : book'[c] # NoRow <=> book[c] # NoRow
    <3>1. ~(book[r] = NoRow /\ book'[r] # NoRow)
      <4>1. SUFFICES ASSUME book[r] = NoRow, book'[r] # NoRow PROVE FALSE
        OBVIOUS
      <4>2. pc[r] = "commit" /\ pc'[r] = "reload"
        BY <4>1, BookGrows
      <4>3. InsertUser(r) \/ WriteProfile(r) \/ ShowPhoto(r)
        BY <1>2, <4>2, WhereTo
      <4> QED  BY <4>2, <4>3 DEF InsertUser, WriteProfile, ShowPhoto
    <3> QED  BY <3>1, BookGrows
  <2> QED  BY <2>1, <2>2 DEF WholeOrNothing
<1> QED  BY <1>1, <1>2

(* What a listing has found, when it found it.                             *)
LEMMA QueryFinds ==
    ASSUME TypeOK, BookIsMade, NEW r \in Requests, Query(r)
    PROVE  /\ seen'[r] \in Rows(req[r].op, User(r))
           /\ seen'[r] \subseteq Own(User(r))
           /\ \A q \in Requests \ {r} : seen'[q] = seen[q]
<1>1. PICK S \in Rows(req[r].op, User(r)) : seen' = [seen EXCEPT ![r] = S]
  BY DEF Query
<1> QED  BY <1>1 DEF Rows, TypeOK

LEMMA OwnIsBooked ==
    ASSUME InItsHandler, NEW u \in Users, NEW c \in Own(u)
    PROVE  c \in Requests /\ book[c] # NoRow
BY UsersAssumption DEF Own, NoRow

LEMMA SeenKept ==
    ASSUME TypeOK, InItsHandler, BookIsMade, SeenIsBooked, NEW r \in Requests, Acts(r)
    PROVE  SeenIsBooked'
<1>1. CASE Query(r)
  <2>1. User(r) \in Users /\ book' = book
    BY <1>1 DEF Query, InItsHandler, tables
  <2> QED  BY <1>1, <2>1, QueryFinds, OwnIsBooked DEF SeenIsBooked
<1>2. CASE ~Query(r)
  <2>1. seen' = seen
    BY <1>2 DEF Acts, Arrive, Proceed, Break, BeginRegister, BeginPatch, BeginCreate,
                BeginUpload, BeginList, Refuse, InsertUser, WriteProfile, UpsertStats, Commit,
                Reload, QueryBreaks, Put, PutBreaks, ShowPhoto, Fail, tables
  <2>2. \A q \in Requests : seen[q] \subseteq Requests
    BY DEF TypeOK
  <2> QED  BY <2>1, <2>2, BookGrows DEF SeenIsBooked
<1> QED  BY <1>1, <1>2

(* Read your writes: a create that is answered is in the book, where the   *)
(* query finds it, or finds newer ones; later steps change nothing of      *)
(* either request, nor of a row that is there.                             *)
LEMMA ReadsKept ==
    ASSUME TypeOK, InItsHandler, BookIsMade, SeenIsBooked, ReadYourWrites,
           NEW r \in Requests, Acts(r)
    PROVE  ReadYourWrites'
<1>1. StepOf(r)
  BY OneRequestSteps
<1>2. SUFFICES
        ASSUME NEW c \in Requests, NEW q \in Requests,
               req'[c].op = "create", answer'[c] = "ok", c \in before'[q],
               req'[q].op \in {"list", "mystats"}, answer'[q] = "ok",
               req'[q].user = req'[c].user
        PROVE  \/ c \in seen'[q]
               \/ /\ req'[q].op = "list" /\ Cardinality(seen'[q]) = Limit
                  /\ \A d \in seen'[q] : book'[d].entry.day >= req'[c].entry.day
  BY DEF ReadYourWrites, User
<1>3. pc[q] # "idle" /\ before'[q] = before[q] /\ req'[q] = req[q]
  <2>1. CASE q = r
    <3>1. Reload(r) \/ Query(r)
      BY <1>2, <2>1, WhereTo
    <3>2. pc[r] # "idle"
      BY <3>1 DEF Reload, Query
    <3> QED  BY <1>1, <2>1, <3>2 DEF StepOf
  <2>2. CASE q # r
    BY <1>1, <1>2, <2>2 DEF StepOf, InItsHandler
  <2> QED  BY <2>1, <2>2
<1>4. c # r /\ pc[c] = "done" /\ req'[c] = req[c] /\ answer[c] = "ok"
  <2>1. c \in Ended
    BY <1>2, <1>3 DEF InItsHandler
  <2> QED  BY <1>1, <1>2, <2>1 DEF StepOf, Ended
<1>5. /\ book[c] # NoRow /\ book[c].owner = User(c) /\ User(c) \in Users
      /\ book[c].entry = req[c].entry
  BY <1>2, <1>4 DEF BookIsMade
<1>6. CASE q = r /\ Query(r)
  <2>1. User(r) = User(c) /\ c \in Own(User(r)) /\ book' = book
    BY <1>2, <1>3, <1>4, <1>5, <1>6 DEF User, Own, Query, tables
  <2>2. seen'[r] \in Rows(req[r].op, User(r))
    BY <1>6, QueryFinds
  <2>3. CASE seen'[r] = Own(User(r))
    BY <1>6, <2>1, <2>3
  <2>4. CASE /\ req[r].op = "list" /\ Cardinality(seen'[r]) = Limit
             /\ Newest(seen'[r], Own(User(r))) /\ c \notin seen'[r]
    BY <1>3, <1>4, <1>5, <1>6, <2>1, <2>4 DEF Newest
  <2> QED  BY <1>6, <2>2, <2>3, <2>4 DEF Rows
<1>7. CASE ~(q = r /\ Query(r))
  <2>1. answer[q] = "ok" /\ seen'[q] = seen[q]
    <3>1. CASE q # r
      BY <1>1, <1>2, <3>1 DEF StepOf
    <3>2. CASE q = r
      <4>1. Reload(r)
        BY <1>2, <1>7, <3>2, WhereTo
      <4>2. FALSE
        <5>1. Answer(r, "ok") /\ pc[r] = "reload"
          BY <4>1 DEF Reload
        <5>2. req[r].op \in {"list", "mystats"}
          BY <1>2, <1>3, <3>2
        <5> QED  BY <5>1, <5>2 DEF InItsHandler
      <4> QED  BY <4>2
    <3> QED  BY <3>1, <3>2
  <2>2. ASSUME NEW d \in seen[q] PROVE book'[d].entry = book[d].entry
    <3>1. d \in Requests /\ book[d] # NoRow
      BY DEF TypeOK, SeenIsBooked
    <3> QED  BY <3>1, BookGrows
  <2>3. c \in before[q] /\ User(q) = User(c)
    BY <1>2, <1>3, <1>4 DEF User
  <2> QED  BY <1>2, <1>3, <1>4, <2>1, <2>2, <2>3 DEF ReadYourWrites
<1> QED  BY <1>6, <1>7

-----------------------------------------------------------------------------
(* One more catch, counted by Bump: still an answer of MyStats.            *)
LEMMA StatsOfCommit ==
    ASSUME TypeOK, InItsHandler, BookIsMade, LockedRow, StatsMatchBook,
           NEW r \in Requests, Commit(r), NEW u \in Users, u = User(r)
    PROVE  MyStats(u, stats[u])'
<1> DEFINE e == req[r].entry
           S == Own(u)
           F == {c \in S : book[c].entry.released}
           old == stats[u]
           row == Bump(old, e)
<1>1. /\ u \in Users /\ e \in Entry /\ pc[r] = "commit"
      /\ book' = [book EXCEPT ![r] = [owner |-> u, entry |-> e, photo |-> Nobody]]
      /\ req' = req
  BY DEF Commit, InItsHandler, GoOn
<1>2. stats'[u] = row
  BY <1>1 DEF Commit, LockedRow, TypeOK
<1>3. book[r] = NoRow
  BY <1>1 DEF BookIsMade
<1>4. r \notin S /\ S \subseteq Requests
  BY <1>1, <1>3, UsersAssumption DEF Own, NoRow
<1>5. {c \in Requests : book'[c].owner = u} = S \cup {r}
  BY <1>1, <1>4 DEF Own, TypeOK
<1>6. \A c \in S : book'[c].entry = book[c].entry
  BY <1>1, <1>4 DEF TypeOK
<1>7. book'[r].entry = e
  BY <1>1 DEF TypeOK
<1>8. IsFiniteSet(S) /\ IsFiniteSet(F)
  BY <1>4, RequestsAssumption, FS_Subset
<1>9. {c \in S \cup {r} : book'[c].entry.released} = IF e.released THEN F \cup {r} ELSE F
  BY <1>4, <1>6, <1>7
<1>10. MyStats(u, old)
  BY <1>1 DEF StatsMatchBook
<1>11. \A c \in S : book[c].entry \in Entry
  BY <1>1, <1>4, OwnIsBooked DEF BookIsMade
<1>12. old \in Totals /\ old.total \in Nat /\ old.released \in Nat /\ old.length \in Nat
       /\ e.length \in Nat \ {0} /\ e.released \in BOOLEAN
  BY <1>1 DEF TypeOK, Totals, Entry
<1>13. row.total = Cardinality(S \cup {r})
  <2>1. Cardinality(S \cup {r}) = Cardinality(S) + 1
    BY <1>4, <1>8, FS_AddElement
  <2> QED  BY <1>10, <2>1 DEF MyStats, Bump
<1>14. row.released = Cardinality(IF e.released THEN F \cup {r} ELSE F)
  <2>1. old.released = Cardinality(F)
    BY <1>10 DEF MyStats
  <2>2. CASE e.released
    <3>1. Cardinality(F \cup {r}) = Cardinality(F) + 1
      BY <1>4, <1>8, FS_AddElement
    <3> QED  BY <2>1, <2>2, <3>1 DEF Bump
  <2>3. CASE ~e.released
    BY <1>12, <2>1, <2>3 DEF Bump
  <2> QED  BY <2>2, <2>3
<1>15. \E c \in S \cup {r} :
          /\ row.length = book'[c].entry.length /\ row.species = book'[c].entry.species
          /\ \A d \in S \cup {r} : book'[d].entry.length <= row.length
  <2>1. \A d \in S : book[d].entry.length \in Nat
    BY <1>11 DEF Entry
  <2>2. CASE S = {}
    <3>1. old.length = 0
      BY <1>10, <2>2 DEF MyStats, NoStats
    <3>2. row.length = e.length /\ row.species = e.species
      BY <1>12, <3>1 DEF Bump
    <3> QED  BY <1>7, <1>12, <2>2, <3>2
  <2>3. CASE S # {}
    <3>1. PICK c \in S :
            /\ old.length = book[c].entry.length /\ old.species = book[c].entry.species
            /\ \A d \in S : book[d].entry.length <= old.length
      BY <1>10, <2>3 DEF MyStats
    <3>2. CASE e.length > old.length
      <4>1. row.length = e.length /\ row.species = e.species
        BY <3>2 DEF Bump
      <4>2. \A d \in S \cup {r} : book'[d].entry.length <= row.length
        BY <1>6, <1>7, <1>12, <2>1, <3>1, <3>2, <4>1
      <4> QED  BY <1>7, <4>1, <4>2
    <3>3. CASE ~(e.length > old.length)
      <4>1. row.length = old.length /\ row.species = old.species
        BY <3>3 DEF Bump
      <4>2. \A d \in S \cup {r} : book'[d].entry.length <= row.length
        BY <1>6, <1>7, <1>12, <3>1, <3>3, <4>1
      <4> QED  BY <1>6, <3>1, <4>1, <4>2
    <3> QED  BY <3>2, <3>3
  <2> QED  BY <2>2, <2>3
<1>16. Own(u)' = S \cup {r}
  BY <1>5 DEF Own
<1>17. S \cup {r} # {}
  OBVIOUS
<1> HIDE DEF e, S, F, old, row
<1> QED  BY <1>2, <1>9, <1>13, <1>14, <1>15, <1>16, <1>17 DEF MyStats

LEMMA StatsKept ==
    ASSUME TypeOK, InItsHandler, BookIsMade, LockedRow, StatsMatchBook,
           NEW r \in Requests, Acts(r)
    PROVE  StatsMatchBook'
<1>1. SUFFICES ASSUME NEW u \in Users PROVE MyStats(u, stats[u])'
  BY DEF StatsMatchBook
<1>2. CASE Commit(r) /\ u = User(r)
  BY <1>2, StatsOfCommit
<1>3. CASE ~(Commit(r) /\ u = User(r))
  <2>1. stats'[u] = stats[u]
    <3>1. CASE Commit(r)
      BY <1>3, <3>1 DEF Commit, InItsHandler, TypeOK
    <3>2. CASE ~Commit(r)
      <4>1. stats' = stats
        BY <3>2 DEF Acts, Arrive, Proceed, Break, BeginRegister, BeginPatch, BeginCreate,
              BeginUpload, BeginList, Refuse, InsertUser, WriteProfile, UpsertStats, Reload,
              Query, QueryBreaks, Put, PutBreaks, ShowPhoto, Fail, tables
      <4> QED  BY <4>1
    <3> QED  BY <3>1, <3>2
  <2>2. \A c \in Requests : book[c] # NoRow =>
          book'[c].owner = book[c].owner /\ book'[c].entry = book[c].entry
    BY BookGrows
  <2>3. ASSUME NEW c \in Requests, book[c] = NoRow PROVE book'[c].owner # u
    <3>1. CASE book'[c] = NoRow
      BY <3>1, UsersAssumption DEF NoRow
    <3>2. CASE book'[c] # NoRow
      <4>1. c = r /\ pc[r] = "commit" /\ pc'[r] = "reload" /\ book'[r] = NewRow(r)
        BY <2>3, <3>2, BookGrows
      <4>2. Commit(r)
        BY <4>1, WhereTo DEF InsertUser, WriteProfile, ShowPhoto
      <4> QED  BY <1>3, <4>1, <4>2 DEF NewRow
    <3> QED  BY <3>1, <3>2
  <2>4. Own(u)' = Own(u)
    <3>1. \A c \in Requests : book'[c].owner = u <=> book[c].owner = u
      BY <2>2, <2>3, UsersAssumption DEF NoRow
    <3> QED  BY <3>1 DEF Own
  <2>5. \A c \in Own(u) : book'[c].entry = book[c].entry
    BY <2>2, OwnIsBooked
  <2>6. {c \in Own(u) : book'[c].entry.released} = {c \in Own(u) : book[c].entry.released}
    BY <2>5
  <2>7. MyStats(u, stats[u])
    BY DEF StatsMatchBook
  <2> QED  BY <2>1, <2>4, <2>5, <2>6, <2>7 DEF MyStats
<1> QED  BY <1>2, <1>3

-----------------------------------------------------------------------------
(* Two changes of a profile that were under way together stay so, and the  *)
(* fields that they set stay the same.                                     *)
LEMMA NobodyKept ==
    ASSUME TypeOK, InItsHandler, NEW r \in Requests, Acts(r), NEW f,
           NEW q \in Requests, pc[q] # "idle", NobodyKeeps(f, q)'
    PROVE  NobodyKeeps(f, q)
<1>1. StepOf(r)
  BY OneRequestSteps
<1>2. SUFFICES ASSUME NEW p \in Requests \ {q}, req[p].op = "patch", User(p) = User(q),
                      Overlap(p, q)
               PROVE  f \in req[p].fields
  BY DEF NobodyKeeps
<1>3. pc[p] # "idle"
  BY <1>2 DEF Overlap
<1>4. /\ req'[p] = req[p] /\ req'[q] = req[q]
      /\ before'[p] = before[p] /\ before'[q] = before[q]
      /\ pc'[p] # "idle" /\ pc'[q] # "idle"
  BY <1>1, <1>3 DEF StepOf
<1>5. User(p)' = User(q)' /\ Overlap(p, q)'
  BY <1>2, <1>4 DEF User, Overlap
<1> QED  BY <1>2, <1>4, <1>5 DEF NobodyKeeps

LEMMA ProfileSteps ==
    ASSUME TypeOK, NEW r \in Requests, Acts(r)
    PROVE  \/ profile' = profile
           \/ WriteProfile(r) /\ profile' = [profile EXCEPT ![User(r)] = draft[r]]
<1>1. CASE WriteProfile(r)
  BY <1>1 DEF WriteProfile
<1>2. CASE ~WriteProfile(r)
  BY <1>2 DEF Acts, Arrive, Proceed, Break, BeginRegister, BeginPatch, BeginCreate, BeginUpload,
              BeginList, Refuse, InsertUser, UpsertStats, Commit, Reload, Query, QueryBreaks,
              Put, PutBreaks, ShowPhoto, Fail, tables
<1> QED  BY <1>1, <1>2

(* A change of a field is written over only by one that begins after it    *)
(* was answered, and so has read it or one that has read such a one, or by *)
(* one that was under way with it and sets the same field.                 *)
LEMMA PatchesKept ==
    ASSUME TypeOK, InItsHandler, PatchHolds, NEW r \in Requests, Acts(r)
    PROVE  PatchHolds'
<1>1. StepOf(r)
  BY OneRequestSteps
<1>2. SUFFICES ASSUME NEW q \in Requests, req'[q].op = "patch",
                      NEW f \in req'[q].fields, NobodyKeeps(f, q)',
                      pc'[q] = "reload" \/ answer'[q] = "ok"
               PROVE  /\ profile'[req'[q].user][f] \notin before'[q] \cup {Nobody}
                      /\ answer'[q] = "ok" =>
                           \A p \in Requests :
                             pc'[p] = "write" /\ req'[p].user = req'[q].user /\ q \in before'[p] =>
                                draft'[p][f] \notin before'[q] \cup {Nobody}
  BY DEF PatchHolds, User, Newer
<1>3. pc[q] # "idle" /\ req'[q] = req[q] /\ before'[q] = before[q]
  <2>1. CASE q # r
    BY <1>1, <1>2, <2>1 DEF StepOf, InItsHandler, NoRequest
  <2>2. CASE q = r
    <3>1. InsertUser(r) \/ WriteProfile(r) \/ Commit(r) \/ ShowPhoto(r) \/ Reload(r) \/ Query(r)
      BY <1>2, <2>2, WhereTo
    <3>2. pc[r] # "idle"
      BY <3>1 DEF InsertUser, WriteProfile, Commit, ShowPhoto, Reload, Query
    <3> QED  BY <1>1, <2>2, <3>2 DEF StepOf
  <2> QED  BY <2>1, <2>2
<1>4. /\ NobodyKeeps(f, q) /\ req[q].op = "patch" /\ User(q) \in Users
      /\ f \in req[q].fields /\ f \in Fields
  BY <1>2, <1>3, NobodyKept DEF InItsHandler
<1> DEFINE u == req[q].user
<1>5. CASE WriteProfile(r) /\ q = r
  <2>1. profile'[u] = draft[r] /\ draft[r][f] = r /\ pc[r] = "write" /\ answer'[r] # "ok"
    BY <1>4, <1>5 DEF WriteProfile, InItsHandler, TypeOK, User, GoOn
  <2>2. r \notin before[r]
    BY <2>1 DEF InItsHandler, Ended
  <2> QED  BY <1>3, <1>5, <2>1, <2>2, RequestsAssumption DEF Newer
<1>6. CASE ~(WriteProfile(r) /\ q = r)
  <2>1. /\ pc[q] = "reload" \/ answer[q] = "ok"
        /\ answer'[q] = "ok" /\ answer[q] # "ok" => q = r /\ pc[r] = "reload"
    <3>1. CASE q # r
      BY <1>1, <1>2, <3>1 DEF StepOf
    <3>2. CASE q = r
      <4>1. InsertUser(r) \/ WriteProfile(r) \/ Commit(r) \/ ShowPhoto(r) \/ Reload(r) \/ Query(r)
        BY <1>2, <3>2, WhereTo
      <4>2. Reload(r)
        BY <1>4, <1>6, <3>2, <4>1 DEF InItsHandler, InsertUser, ShowPhoto, Commit, Query
      <4> QED  BY <3>2, <4>2 DEF Reload
    <3> QED  BY <3>1, <3>2
  <2>2. Newer(profile[u][f], q)
    BY <1>4, <2>1 DEF PatchHolds, User
  <2>3. Newer(profile'[u][f], q)
    <3>1. CASE profile' = profile
      BY <2>2, <3>1
    <3>2. CASE WriteProfile(r) /\ profile' = [profile EXCEPT ![User(r)] = draft[r]] /\ User(r) # u
      BY <1>4, <2>2, <3>2 DEF TypeOK, User
    <3>3. CASE WriteProfile(r) /\ profile' = [profile EXCEPT ![User(r)] = draft[r]] /\ User(r) = u
      <4>1. r # q /\ pc[r] = "write" /\ req[r].op = "patch"
        BY <1>6, <3>3 DEF WriteProfile, InItsHandler
      <4>2. r \notin before[q]
        BY <4>1 DEF InItsHandler, Ended
      <4>3. CASE Overlap(r, q)
        <5>1. f \in req[r].fields
          BY <1>4, <3>3, <4>1, <4>3 DEF NobodyKeeps, User
        <5>2. draft[r][f] = r
          BY <4>1, <5>1 DEF InItsHandler
        <5> QED  BY <1>4, <3>3, <4>2, <5>2, RequestsAssumption DEF TypeOK, User, Newer
      <4>4. CASE ~Overlap(r, q)
        <5>1. q \in before[r]
          BY <1>3, <4>1, <4>2, <4>4 DEF Overlap
        <5>2. answer[q] = "ok"
          BY <2>1, <5>1 DEF InItsHandler, Ended
        <5>3. Newer(draft[r][f], q)
          BY <1>4, <3>3, <4>1, <5>1, <5>2 DEF PatchHolds, User
        <5> QED  BY <1>4, <3>3, <5>3 DEF TypeOK, User
      <4> QED  BY <4>3, <4>4
    <3> QED  BY <3>1, <3>2, <3>3, ProfileSteps
  <2>4. ASSUME answer'[q] = "ok", NEW p \in Requests,
               pc'[p] = "write", req'[p].user = u, q \in before'[p]
        PROVE  Newer(draft'[p][f], q)
    <3>1. CASE p # r
      <4>1. /\ pc[p] = "write" /\ req'[p] = req[p] /\ before'[p] = before[p]
            /\ draft'[p] = draft[p]
        BY <1>1, <2>4, <3>1 DEF StepOf
      <4>2. pc[q] = "done"
        BY <2>4, <4>1 DEF InItsHandler, Ended
      <4>3. answer[q] = "ok"
        BY <2>1, <4>2
      <4> QED  BY <1>4, <2>4, <4>1, <4>3 DEF PatchHolds, User
    <3>2. CASE p = r
      <4>1. PICK v \in Users, asked \in SUBSET Fields : BeginPatch(r, v, asked)
        BY <2>4, <3>2, WhereTo
      <4>2. /\ draft'[r][f] = (IF f \in asked THEN r ELSE profile[v][f]) /\ pc[r] = "idle"
            /\ req'[r] = [NoRequest EXCEPT !.op = "patch", !.user = v, !.fields = asked]
        BY <1>4, <4>1 DEF BeginPatch, Begin, TypeOK
      <4>3. v = u
        BY <2>4, <3>2, <4>2 DEF NoRequest
      <4>4. r \notin before[q]
        BY <4>2 DEF InItsHandler, Ended
      <4> QED  BY <1>4, <2>2, <3>2, <4>2, <4>3, <4>4, RequestsAssumption DEF Newer, TypeOK, User
    <3> QED  BY <3>1, <3>2
  <2> QED  BY <1>3, <2>3, <2>4 DEF Newer
<1> QED  BY <1>5, <1>6

-----------------------------------------------------------------------------
LEMMA InductiveStep == IInv /\ [Next]_vars => IInv'
<1> SUFFICES ASSUME IInv, [Next]_vars PROVE IInv'
  OBVIOUS
<1> USE DEF IInv
<1>1. CASE Next
  <2>1. PICK r \in Requests : Acts(r)
    BY <1>1 DEF Next, Acts
  <2>2. TypeOK'
    BY TypesKept
  <2>3. InItsHandler' /\ BookIsMade' /\ LockedRow'
    BY <2>1, HandlersKept, BookKept, RowLockKept
  <2>4. PhotosStored' /\ PhotoReadable' /\ PhotoHolds'
    BY <2>1, PhotosKept, PhotoHoldsKept
  <2>5. SeenIsBooked' /\ ReadYourWrites'
    BY <2>1, SeenKept, ReadsKept
  <2>6. StatsMatchBook' /\ WholeOrNothing'
    BY <2>1, StatsKept, WholeKept
  <2>7. PatchHolds'
    BY <2>1, PatchesKept
  <2> QED  BY <2>2, <2>3, <2>4, <2>5, <2>6, <2>7
<1>2. CASE UNCHANGED vars
  <2> USE <1>2 DEF vars, tables
  <2>1. TypeOK' /\ InItsHandler' /\ BookIsMade' /\ LockedRow'
    BY DEF TypeOK, InItsHandler, BookIsMade, LockedRow, User, Ended
  <2>2. PhotosStored' /\ SeenIsBooked' /\ WholeOrNothing' /\ PhotoReadable' /\ PhotoHolds'
    BY DEF PhotosStored, SeenIsBooked, WholeOrNothing, PhotoReadable, PhotoHolds, User
  <2>3. StatsMatchBook'
    BY DEF StatsMatchBook, MyStats, Own
  <2>4. ReadYourWrites'
    BY DEF ReadYourWrites, User
  <2>5. PatchHolds'
    BY DEF PatchHolds, NobodyKeeps, Overlap, Newer, User
  <2> QED  BY <2>1, <2>2, <2>3, <2>4, <2>5
<1> QED  BY <1>1, <1>2

LEMMA Invariant == Spec => []IInv
<1>1. Init => IInv
  BY InitHolds
<1>2. IInv /\ [Next]_vars => IInv'
  BY InductiveStep
<1> QED  BY <1>1, <1>2, PTL DEF Spec

(* Every variable keeps its type.                                          *)
THEOREM TypeCorrect == Spec => []TypeOK
<1>1. IInv => TypeOK
  BY DEF IInv
<1> QED  BY <1>1, Invariant, PTL

(* The row that CreateCatch counts up is always an answer MyStats could    *)
(* compute from the book, for any number of transactions; and a catch is   *)
(* never without its job, nor a job without its catch.                     *)
THEOREM BookAlwaysAgrees == Spec => []BookAgrees
<1>1. IInv => BookAgrees
  BY DEF IInv, BookAgrees
<1> QED  BY <1>1, Invariant, PTL

(* Listings and statistics have every catch that was answered before.      *)
THEOREM ReadsOwnWrites == Spec => []ReadYourWrites
<1>1. IInv => ReadYourWrites
  BY DEF IInv
<1> QED  BY <1>1, Invariant, PTL

(* A photo that a catch shows is in the store, whole, and its owner's; and *)
(* an upload that is answered OK is shown, or a later one.                 *)
THEOREM PhotosAlwaysInPlace == Spec => []PhotosInPlace
<1>1. IInv => PhotoReadable /\ PhotoStands
  BY DEF IInv, PhotoHolds, PhotoStands
<1>2. IInv => PhotosInPlace
  BY <1>1 DEF PhotosInPlace
<1> QED  BY <1>2, Invariant, PTL

(* A change of the profile that no other was under way with is never       *)
(* undone by one that had read an older value.                             *)
THEOREM PatchesStand == Spec => []PatchStands
<1>1. IInv => PatchStands
  BY DEF IInv, PatchHolds, Newer, PatchStands
<1> QED  BY <1>1, Invariant, PTL
-----------------------------------------------------------------------------
(* What EveryRequestAnswered rests on, as far as single steps go, and what *)
(* lasts of an angler's records.                                           *)

(* A CreateCatch that waits for its angler's row of statistics waits for   *)
(* one that is about to commit, which waits for nobody and has no other    *)
(* row: transactions never wait for each other in a circle.                *)
THEOREM NoCircleOfWaits ==
    Spec => [](\A r \in Requests : pc[r] = "stats" /\ statsLock[User(r)] # Nobody =>
                 LET holder == statsLock[User(r)]
                 IN  /\ holder \in Requests \ {r}
                     /\ pc[holder] = "commit"
                     /\ \A u \in Users : statsLock[u] = holder => u = User(r))
<1>1. ASSUME IInv, NEW r \in Requests, pc[r] = "stats", statsLock[User(r)] # Nobody
      PROVE  /\ statsLock[User(r)] \in Requests \ {r}
             /\ pc[statsLock[User(r)]] = "commit"
             /\ \A u \in Users : statsLock[u] = statsLock[User(r)] => u = User(r)
  <2>1. User(r) \in Users
    BY <1>1 DEF IInv, InItsHandler
  <2>2. statsLock[User(r)] \in Requests
    BY <1>1, <2>1 DEF IInv, TypeOK, Name
  <2> QED  BY <1>1, <2>1, <2>2 DEF IInv, LockedRow
<1>2. IInv => \A r \in Requests : pc[r] = "stats" /\ statsLock[User(r)] # Nobody =>
                LET holder == statsLock[User(r)]
                IN  /\ holder \in Requests \ {r}
                    /\ pc[holder] = "commit"
                    /\ \A u \in Users : statsLock[u] = holder => u = User(r)
  BY <1>1
<1> QED  BY <1>2, Invariant, PTL

(* How far a request has come in its handler.                              *)
Stage(at) ==
    CASE at = "idle" -> 0
      [] at \in {"insert", "write", "stats", "put", "query"} -> 1
      [] at \in {"commit", "show"} -> 2
      [] at = "reload" -> 3
      [] at = "done" -> 4

(* Handlers only go forward: a request is answered after at most four      *)
(* steps of its own, however others interfere and whatever fails.          *)
Advances ==
    \A r \in Requests :
        /\ pc'[r] # pc[r] => Stage(pc'[r]) > Stage(pc[r])
        /\ Acts(r) => pc'[r] # pc[r]

LEMMA OwnStage ==
    ASSUME TypeOK, InItsHandler, NEW r \in Requests, Acts(r)
    PROVE  Stage(pc'[r]) > Stage(pc[r])
<1> DEFINE Places == {"insert", "write", "stats", "commit", "put", "show", "query", "reload", "done"}
<1>1. CASE Arrive(r)
  <2>1. pc[r] = "idle"
    BY <1>1 DEF Arrive, BeginRegister, BeginPatch, BeginCreate, BeginUpload, BeginList,
                Refuse, Begin
  <2>2. pc'[r] \in Places
    <3>1. TypeOK' /\ pc'[r] # "idle"
      BY TypesKept, OneRequestSteps DEF StepOf, Next, Acts
    <3> QED  BY <3>1 DEF TypeOK
  <2> QED  BY <2>1, <2>2 DEF Stage
<1>2. CASE InsertUser(r) \/ WriteProfile(r) \/ UpsertStats(r) \/ Put(r)
  <2>1. /\ pc[r] \in {"insert", "write", "stats", "put"}
        /\ pc'[r] \in {"commit", "show", "reload", "done"}
    BY <1>2 DEF InsertUser, WriteProfile, UpsertStats, Put, GoOn, Answer, TypeOK
  <2> QED  BY <2>1 DEF Stage
<1>3. CASE Commit(r) \/ ShowPhoto(r)
  <2>1. pc[r] \in {"commit", "show"} /\ pc'[r] = "reload"
    BY <1>3 DEF Commit, ShowPhoto, GoOn, TypeOK
  <2> QED  BY <2>1 DEF Stage
<1>4. CASE Reload(r) \/ Query(r) \/ QueryBreaks(r) \/ PutBreaks(r) \/ Fail(r)
  <2>1. pc[r] \in Places \ {"done"} /\ pc'[r] = "done"
    BY <1>4 DEF Reload, Query, QueryBreaks, PutBreaks, Fail, Answer, TypeOK
  <2> QED  BY <2>1 DEF Stage
<1> QED  BY <1>1, <1>2, <1>3, <1>4 DEF Acts, Proceed, Break

(* A handler of the records never goes back: whatever the others do, it    *)
(* has answered after at most four steps of its own.                       *)
THEOREM HandlersAdvance == Spec => [][Advances]_vars
<1>1. ASSUME IInv, [Next]_vars, NEW r \in Requests
      PROVE  /\ pc'[r] # pc[r] => Stage(pc'[r]) > Stage(pc[r])
             /\ Acts(r) => pc'[r] # pc[r]
  <2>1. Acts(r) => Stage(pc'[r]) > Stage(pc[r])
    BY <1>1, OwnStage DEF IInv
  <2>2. Stage(pc[r]) \in 0 .. 4
    BY <1>1 DEF IInv, TypeOK, Stage
  <2>3. ASSUME NEW q \in Requests, Acts(q), q # r PROVE pc'[r] = pc[r]
    BY <1>1, <2>3, OneRequestSteps DEF IInv, StepOf
  <2>4. pc'[r] # pc[r] => Acts(r)
    BY <1>1, <2>3 DEF Next, Acts, vars
  <2> QED  BY <2>1, <2>2, <2>4
<1>2. ASSUME IInv, [Next]_vars
      PROVE  Advances
  BY <1>1, <1>2 DEF Advances
<1> QED  BY <1>2, Invariant, PTL DEF Spec

(* A catch in the book stays there as it was entered, and its photo may be *)
(* replaced but not lost; the totals and the longest catch never shrink.   *)
Grows ==
    /\ \A c \in Requests : book[c] # NoRow =>
          /\ book'[c].owner = book[c].owner /\ book'[c].entry = book[c].entry
          /\ book[c].photo # Nobody => book'[c].photo # Nobody
    /\ \A u \in Users :
          /\ stats'[u].total >= stats[u].total
          /\ stats'[u].released >= stats[u].released
          /\ stats'[u].length >= stats[u].length

(* The UPSERT never takes anything away.                                   *)
LEMMA BumpGrows ==
    ASSUME NEW row \in Totals, NEW e \in Entry
    PROVE  /\ Bump(row, e).total >= row.total
           /\ Bump(row, e).released >= row.released
           /\ Bump(row, e).length >= row.length
<1>1. /\ e.length \in Nat /\ row.length \in Nat /\ row.total \in Nat /\ row.released \in Nat
  BY DEF Entry, Totals
<1>2. (IF e.released THEN 1 ELSE 0) \in {0, 1}
  OBVIOUS
<1> QED  BY <1>1, <1>2 DEF Bump

(* Whatever fails and however requests interleave, an angler's records     *)
(* only grow: nothing that was entered is lost or rewritten later, and the *)
(* personal best stands.                                                   *)
THEOREM RecordsOnlyGrow == Spec => [][Grows]_vars
<1>1. ASSUME IInv, NEW r \in Requests, Acts(r)
      PROVE  Grows
  <2>t. TypeOK /\ InItsHandler /\ BookIsMade /\ LockedRow
    BY <1>1 DEF IInv
  <2>1. \A c \in Requests : book[c] # NoRow =>
          book'[c].owner = book[c].owner /\ book'[c].entry = book[c].entry
    BY <1>1, <2>t, BookGrows
  <2>2. \A c \in Requests : book[c] # NoRow /\ book[c].photo # Nobody => book'[c].photo # Nobody
    <3>1. BookStep(r)
      BY <1>1, <2>t, BookSteps
    <3>2. ASSUME NEW c \in Requests, book[c] # NoRow, book[c].photo # Nobody
          PROVE  book'[c].photo # Nobody
      <4>1. CASE UNCHANGED book
        BY <3>2, <4>1
      <4>2. CASE book' = [book EXCEPT ![r] = NewRow(r)] /\ book[r] = NoRow
        BY <2>t, <3>2, <4>2 DEF TypeOK
      <4>3. CASE book' = [book EXCEPT ![req[r].target].photo = r]
        <5>1. book'[c].photo \in {book[c].photo, r}
          BY <2>t, <3>2, <4>3 DEF TypeOK
        <5> QED  BY <3>2, <5>1, RequestsAssumption
      <4> QED  BY <3>1, <4>1, <4>2, <4>3 DEF BookStep
    <3> QED  BY <3>2
  <2>3. ASSUME NEW u \in Users
        PROVE  /\ stats'[u].total >= stats[u].total
               /\ stats'[u].released >= stats[u].released
               /\ stats'[u].length >= stats[u].length
    <3>0. stats[u] \in Totals
      BY <2>t DEF TypeOK
    <3>1. CASE stats'[u] = stats[u]
      BY <3>0, <3>1 DEF Totals
    <3>2. CASE Commit(r) /\ u = User(r)
      <4>1. /\ stats'[u] = Bump(stats[u], req[r].entry) /\ req[r].entry \in Entry
        BY <2>t, <3>2 DEF Commit, LockedRow, InItsHandler, TypeOK
      <4> QED  BY <3>0, <4>1, BumpGrows
    <3>3. CASE Commit(r) /\ u # User(r)
      BY <2>t, <3>1, <3>3 DEF Commit, TypeOK
    <3>4. CASE ~Commit(r)
      <4>1. stats' = stats
        BY <1>1, <3>4 DEF Acts, Arrive, Proceed, Break, BeginRegister, BeginPatch, BeginCreate,
              BeginUpload, BeginList, Refuse, InsertUser, WriteProfile, UpsertStats, Reload,
              Query, QueryBreaks, Put, PutBreaks, ShowPhoto, Fail, tables
      <4> QED  BY <3>1, <4>1
    <3> QED  BY <3>1, <3>2, <3>3, <3>4
  <2> QED  BY <2>1, <2>2, <2>3 DEF Grows
<1>2. ASSUME IInv, UNCHANGED vars
      PROVE  Grows
  <2>1. /\ book' = book /\ stats' = stats
        /\ \A u \in Users : stats[u] \in Totals
    BY <1>2 DEF IInv, TypeOK, vars, tables
  <2> QED  BY <2>1 DEF Grows, Totals
<1>3. ASSUME IInv, [Next]_vars
      PROVE  Grows
  BY <1>1, <1>2, <1>3 DEF Next, Acts
<1> QED  BY <1>3, Invariant, PTL DEF Spec
=============================================================================
