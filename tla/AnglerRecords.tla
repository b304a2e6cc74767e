---------------------------- MODULE AnglerRecords ----------------------------
(***************************************************************************)
(* What an angler keeps: the account and its profile, the catch book with  *)
(* its row of statistics, and the photos.  The handlers of                 *)
(* internal/httpapi/handlers_catch.go, Register and PatchMe of             *)
(* handlers_auth.go, MyStats of handlers_misc.go, and internal/storage.    *)
(*                                                                         *)
(* A request is one call of a handler, and stands between two of its       *)
(* statements at pc[r].  Names are given by requests: the catch, the       *)
(* object and the field value that r writes are called r.  An answer other *)
(* than OK is "error" whether the client reads it, the reply is lost, or   *)
(* the process dies: after any statement, whether or not it took effect.   *)
(***************************************************************************)
EXTENDS Integers, FiniteSets

CONSTANTS
    Requests,
    Users,          \* those who have, or may open, an account
    Members,        \* those who have one at the start
    Fields,         \* of a profile: nickname, avatar_url, home_water, lure_pref
    Species,        \* model.Species
    NoSpecies,      \* the species of no catch: ''
    Entries,        \* what is entered of a catch
    Limit,          \* of ListCatches: 200
    Nobody          \* no request: nothing there, or not written here

ASSUME RequestsAssumption == IsFiniteSet(Requests) /\ Nobody \notin Requests
ASSUME UsersAssumption == Members \subseteq Users /\ Nobody \notin Users
ASSUME EntriesAssumption ==
    Entries \subseteq [species : Species, length : Nat \ {0}, released : BOOLEAN, day : Nat]
ASSUME LimitAssumption == Limit \in Nat \ {0}

VARIABLES
    accounts,       \* table users
    profile,        \* the fields that PatchMe writes
    book,           \* table catches, as committed
    jobs,           \* the catches with a row in hydro_jobs, as committed
    stats,          \* table user_stats, as committed
    statsLock,      \* the transaction that has written a user's row of it
    store,          \* the object under each key
    pc, req,        \* where each request is, and what it asks
    draft,          \* the profile that its PatchMe will write
    seen,           \* the catches that its listing has read
    tx,             \* the row of user_stats in its transaction
    answer,
    before          \* history: the requests that had ended when it began

tables == <<accounts, profile, book, jobs, stats>>
vars == <<accounts, profile, book, jobs, stats, statsLock, store, pc, req,
          draft, seen, tx, answer, before>>

-----------------------------------------------------------------------------
NoRequest == [op |-> "none", user |-> Nobody, entry |-> Nobody,
              target |-> Nobody, fields |-> {}]
NoRow == [owner |-> Nobody, entry |-> Nobody, photo |-> Nobody]
NoDraft == [f \in Fields |-> Nobody]
NoStats == [total |-> 0, released |-> 0, length |-> 0, species |-> NoSpecies]

Ended == {r \in Requests : pc[r] = "done"}
User(r) == req[r].user
Own(u) == {c \in Requests : book[c].owner = u}

(* Slip: the new species is compared after the length has been raised.     *)
Bump_LengthFirst(row, e) ==
    LET longest == IF e.length > row.length THEN e.length ELSE row.length
    IN [total    |-> row.total + 1,
        released |-> row.released + IF e.released THEN 1 ELSE 0,
        length   |-> longest,
        species  |-> IF e.length > longest THEN e.species ELSE row.species]

(* The UPSERT of CreateCatch.                                              *)
Bump(row, e) ==
    [total    |-> row.total + 1,
     released |-> row.released + IF e.released THEN 1 ELSE 0,
     length   |-> IF e.length > row.length THEN e.length ELSE row.length,
     species  |-> IF e.length > row.length THEN e.species ELSE row.species]

-----------------------------------------------------------------------------
Init ==
    /\ accounts = Members
    /\ profile = [u \in Users |-> NoDraft]
    /\ book = [c \in Requests |-> NoRow]
    /\ jobs = {}
    /\ stats = [u \in Users |-> NoStats]
    /\ statsLock = [u \in Users |-> Nobody]
    /\ store = [k \in Requests |-> "none"]
    /\ pc = [r \in Requests |-> "idle"]
    /\ req = [r \in Requests |-> NoRequest]
    /\ draft = [r \in Requests |-> NoDraft]
    /\ seen = [r \in Requests |-> {}]
    /\ tx = [r \in Requests |-> NoStats]
    /\ answer = [r \in Requests |-> "none"]
    /\ before = [r \in Requests |-> {}]

(* The request reaches its handler.                                        *)
Begin(r, ask, at) ==
    /\ pc[r] = "idle"
    /\ req' = [req EXCEPT ![r] = ask]
    /\ before' = [before EXCEPT ![r] = Ended]
    /\ pc' = [pc EXCEPT ![r] = at]

GoOn(r, at) ==
    /\ pc' = [pc EXCEPT ![r] = at]
    /\ UNCHANGED <<req, answer, before>>

Answer(r, a) ==
    /\ pc' = [pc EXCEPT ![r] = "done"]
    /\ answer' = [answer EXCEPT ![r] = a]
    /\ UNCHANGED <<req, before>>

(* The request is turned away at the door; nobody asks later what it was.  *)
Refuse(r) ==
    /\ Begin(r, NoRequest, "done")
    /\ answer' = [answer EXCEPT ![r] = "refused"]
    /\ UNCHANGED <<tables, statsLock, store, draft, seen, tx>>

-----------------------------------------------------------------------------
(* Register.                                                               *)

BeginRegister(r, u) ==
    /\ Begin(r, [NoRequest EXCEPT !.op = "register", !.user = u], "insert")
    /\ UNCHANGED <<tables, statsLock, store, draft, seen, tx, answer>>

(* INSERT INTO users: the unique email refuses a second account.           *)
InsertUser(r) ==
    /\ pc[r] = "insert"
    /\ \/ /\ User(r) \in accounts
          /\ Answer(r, "refused")
          /\ UNCHANGED accounts
       \/ /\ User(r) \notin accounts
          /\ accounts' = accounts \cup {User(r)}
          /\ GoOn(r, "reload")
    /\ UNCHANGED <<profile, book, jobs, stats, statsLock, store, draft, seen, tx>>

(* PatchMe.                                                                *)

(* Slip: the fields that are not asked for are left empty.                 *)
BeginPatch_NoMerge(r, u, asked) ==
    /\ u \in accounts
    /\ Begin(r, [NoRequest EXCEPT !.op = "patch", !.user = u, !.fields = asked], "write")
    /\ draft' = [draft EXCEPT ![r] = [f \in Fields |-> IF f \in asked THEN r ELSE Nobody]]
    /\ UNCHANGED <<tables, statsLock, store, seen, tx, answer>>

(* loadUser, and the fields that are asked for put in their place: any of  *)
(* them, or none.                                                          *)
BeginPatch(r, u, asked) ==
    /\ u \in accounts
    /\ Begin(r, [NoRequest EXCEPT !.op = "patch", !.user = u, !.fields = asked], "write")
    /\ draft' = [draft EXCEPT ![r] =
                    [f \in Fields |-> IF f \in asked THEN r ELSE profile[u][f]]]
    /\ UNCHANGED <<tables, statsLock, store, seen, tx, answer>>

(* Slip: a row with the fields that are asked for.                         *)
WriteProfile_NoRest(r) ==
    /\ pc[r] = "write"
    /\ profile' = [profile EXCEPT ![User(r)] = [f \in req[r].fields |-> r]]
    /\ draft' = [draft EXCEPT ![r] = NoDraft]
    /\ GoOn(r, "reload")
    /\ UNCHANGED <<accounts, book, jobs, stats, statsLock, store, seen, tx>>

(* UPDATE users: all fields, as they were read.                            *)
WriteProfile(r) ==
    /\ pc[r] = "write"
    /\ profile' = [profile EXCEPT ![User(r)] = draft[r]]
    /\ draft' = [draft EXCEPT ![r] = NoDraft]
    /\ GoOn(r, "reload")
    /\ UNCHANGED <<accounts, book, jobs, stats, statsLock, store, seen, tx>>

-----------------------------------------------------------------------------
(* CreateCatch.                                                            *)

(* The spot is loaded and may be refused, or not be there: see SpotSight.  *)
BeginCreate(r, u, e) ==
    LET ask == [NoRequest EXCEPT !.op = "create", !.user = u, !.entry = e]
    IN
    /\ u \in accounts
    /\ \/ Refuse(r)
       \/ /\ Begin(r, ask, "stats")
          /\ UNCHANGED <<tables, statsLock, store, draft, seen, tx, answer>>

(* Slip: the row is written from what another transaction has replaced.    *)
UpsertStats_NoLock(r) ==
    /\ pc[r] = "stats"
    /\ tx' = [tx EXCEPT ![r] = Bump(stats[User(r)], req[r].entry)]
    /\ GoOn(r, "commit")
    /\ UNCHANGED <<tables, statsLock, store, draft, seen>>

(* The catch and its job are in the transaction, where nobody sees them;   *)
(* the UPSERT waits for the transaction that has the row, then counts on   *)
(* from what that one has committed.                                       *)
UpsertStats(r) ==
    /\ pc[r] = "stats"
    /\ statsLock[User(r)] = Nobody
    /\ statsLock' = [statsLock EXCEPT ![User(r)] = r]
    /\ tx' = [tx EXCEPT ![r] = Bump(stats[User(r)], req[r].entry)]
    /\ GoOn(r, "commit")
    /\ UNCHANGED <<tables, store, draft, seen>>

Unlocked(r) == [u \in Users |-> IF statsLock[u] = r THEN Nobody ELSE statsLock[u]]

(* Slip: the job is entered by a later request.                            *)
Commit_NoJob(r) ==
    /\ pc[r] = "commit"
    /\ book' = [book EXCEPT ![r] = [owner |-> User(r), entry |-> req[r].entry,
                                    photo |-> Nobody]]
    /\ stats' = [stats EXCEPT ![User(r)] = tx[r]]
    /\ statsLock' = Unlocked(r)
    /\ tx' = [tx EXCEPT ![r] = NoStats]
    /\ GoOn(r, "reload")
    /\ UNCHANGED <<accounts, profile, jobs, store, draft, seen>>

Commit(r) ==
    /\ pc[r] = "commit"
    /\ book' = [book EXCEPT ![r] = [owner |-> User(r), entry |-> req[r].entry,
                                    photo |-> Nobody]]
    /\ jobs' = jobs \cup {r}
    /\ stats' = [stats EXCEPT ![User(r)] = tx[r]]
    /\ statsLock' = Unlocked(r)
    /\ tx' = [tx EXCEPT ![r] = NoStats]
    /\ GoOn(r, "reload")
    /\ UNCHANGED <<accounts, profile, store, draft, seen>>

(* loadUser or loadCatch once more; then the answer.                       *)
Reload(r) ==
    /\ pc[r] = "reload"
    /\ Answer(r, "ok")
    /\ UNCHANGED <<tables, statsLock, store, draft, seen, tx>>

-----------------------------------------------------------------------------
(* UploadCatchPhoto.                                                       *)

(* Slip: the catch is looked for, its owner not asked.                     *)
BeginUpload_Anyones(r, u, c) ==
    /\ u \in accounts
    /\ Begin(r, [NoRequest EXCEPT !.op = "upload", !.user = u, !.target = c], "put")
    /\ book[c] # NoRow
    /\ UNCHANGED <<tables, statsLock, store, draft, seen, tx, answer>>

(* loadCatch, and the test whose it is.                                    *)
BeginUpload(r, u, c) ==
    LET ask == [NoRequest EXCEPT !.op = "upload", !.user = u, !.target = c]
    IN
    /\ u \in accounts
    /\ \/ /\ book[c].owner # u
          /\ Refuse(r)
       \/ /\ book[c].owner = u
          /\ Begin(r, ask, "put")
          /\ UNCHANGED <<tables, statsLock, store, draft, seen, tx, answer>>

(* Store.Put under a new key.                                              *)
Put(r) ==
    /\ pc[r] = "put"
    /\ store' = [store EXCEPT ![r] = "whole"]
    /\ GoOn(r, "show")
    /\ UNCHANGED <<tables, statsLock, draft, seen, tx>>

(* Slip: an error of Put is passed over.                                   *)
PutBreaks_GoesOn(r) ==
    /\ pc[r] = "put"
    /\ store' = [store EXCEPT ![r] = "part"]
    /\ GoOn(r, "show")
    /\ UNCHANGED <<tables, statsLock, draft, seen, tx>>

(* io.Copy breaks off: what was written stays.                             *)
PutBreaks(r) ==
    /\ pc[r] = "put"
    /\ store' = [store EXCEPT ![r] = "part"]
    /\ Answer(r, "error")
    /\ UNCHANGED <<tables, statsLock, draft, seen, tx>>

(* Slip: the first photo stays.                                            *)
ShowPhoto_Once(r) ==
    /\ pc[r] = "show"
    /\ book' = [book EXCEPT ![req[r].target].photo = IF @ = Nobody THEN r ELSE @]
    /\ GoOn(r, "reload")
    /\ UNCHANGED <<accounts, profile, jobs, stats, statsLock, store, draft, seen, tx>>

(* UPDATE catches SET photo_key.                                           *)
ShowPhoto(r) ==
    /\ pc[r] = "show"
    /\ book' = [book EXCEPT ![req[r].target].photo = r]
    /\ GoOn(r, "reload")
    /\ UNCHANGED <<accounts, profile, jobs, stats, statsLock, store, draft, seen, tx>>

-----------------------------------------------------------------------------
(* ListCatches and MyStats, one query each.                                *)

BeginList(r, u, op) ==
    /\ u \in accounts
    /\ op \in {"list", "mystats"}
    /\ Begin(r, [NoRequest EXCEPT !.op = op, !.user = u], "query")
    /\ UNCHANGED <<tables, statsLock, store, draft, seen, tx, answer>>

(* The first rows of a query ORDER BY caught_at DESC.                      *)
Newest(S, all) == \A c \in S, d \in all \ S : book[c].entry.day >= book[d].entry.day

(* Slip: the limit of the listing, without its order.                      *)
Rows_AnyOrder(op, u) ==
    {S \in SUBSET Own(u) :
       op = "list" => \/ S = Own(u)
                      \/ Cardinality(S) = Limit}

Rows(op, u) ==
    {S \in SUBSET Own(u) :
       \/ S = Own(u) /\ (op = "list" => Cardinality(S) <= Limit)
       \/ op = "list" /\ Cardinality(S) = Limit /\ Newest(S, Own(u))}

Query(r) ==
    /\ pc[r] = "query"
    /\ \E S \in Rows(req[r].op, User(r)) : seen' = [seen EXCEPT ![r] = S]
    /\ Answer(r, "ok")
    /\ UNCHANGED <<tables, statsLock, store, draft, tx>>

(* The connection fails under the loop, which does not ask rows.Err: the   *)
(* answer is OK, with some of the rows.  (Marked here, not there.)         *)
QueryBreaks(r) ==
    /\ pc[r] = "query"
    /\ Answer(r, "short")
    /\ UNCHANGED <<tables, statsLock, store, draft, seen, tx>>

-----------------------------------------------------------------------------
(* Slip: the transaction is neither committed nor rolled back.             *)
Fail_KeepsTx(r) ==
    /\ pc[r] \notin {"idle", "done"}
    /\ Answer(r, "error")
    /\ UNCHANGED <<tables, statsLock, store, draft, seen, tx>>

(* A statement fails, its reply is lost, or the process dies; withTx rolls *)
(* back, or PostgreSQL does.                                               *)
Fail(r) ==
    /\ pc[r] \notin {"idle", "done"}
    /\ statsLock' = Unlocked(r)
    /\ tx' = [tx EXCEPT ![r] = NoStats]
    /\ draft' = [draft EXCEPT ![r] = NoDraft]
    /\ Answer(r, "error")
    /\ UNCHANGED <<tables, store, seen>>

Arrive(r) ==
    \E u \in Users :
        \/ BeginRegister(r, u)
        \/ \E asked \in SUBSET Fields : BeginPatch(r, u, asked)
        \/ \E e \in Entries : BeginCreate(r, u, e)
        \/ \E c \in Requests : BeginUpload(r, u, c)
        \/ \E op \in {"list", "mystats"} : BeginList(r, u, op)

Proceed(r) ==
    \/ InsertUser(r) \/ WriteProfile(r) \/ UpsertStats(r) \/ Commit(r) \/ Reload(r)
    \/ Put(r) \/ ShowPhoto(r) \/ Query(r)

Break(r) == Fail(r) \/ PutBreaks(r) \/ QueryBreaks(r)

Next == \E r \in Requests : Arrive(r) \/ Proceed(r) \/ Break(r)

Spec == Init /\ [][Next]_vars

(* A handler that has begun goes on: every statement returns.              *)
FairSpec == Spec /\ \A r \in Requests : WF_vars(Proceed(r))

-----------------------------------------------------------------------------
(* Properties.                                                             *)

Entry == [species : Species, length : Nat \ {0}, released : BOOLEAN, day : Nat]
Totals == [total : Nat, released : Nat, length : Nat, species : Species \cup {NoSpecies}]
Name == Requests \cup {Nobody}

(* Every variable has its type.                                            *)
TypeOK ==
    /\ accounts \in SUBSET Users
    /\ profile \in [Users -> [Fields -> Name]]
    /\ book \in [Requests -> [owner : Users \cup {Nobody}, entry : Entry \cup {Nobody},
                              photo : Name]]
    /\ jobs \in SUBSET Requests
    /\ stats \in [Users -> Totals]
    /\ statsLock \in [Users -> Name]
    /\ store \in [Requests -> {"none", "part", "whole"}]
    /\ pc \in [Requests -> {"idle", "insert", "write", "stats", "commit", "put",
                            "show", "query", "reload", "done"}]
    /\ req \in [Requests ->
                  [op : {"none", "register", "patch", "create", "upload", "list", "mystats"},
                   user : Users \cup {Nobody}, entry : Entry \cup {Nobody},
                   target : Name, fields : SUBSET Fields]]
    /\ draft \in [Requests -> [Fields -> Name]]
    /\ seen \in [Requests -> SUBSET Requests]
    /\ tx \in [Requests -> Totals]
    /\ answer \in [Requests -> {"none", "ok", "short", "refused", "error"}]
    /\ before \in [Requests -> SUBSET Requests]

(* What MyStats may compute from the book; of several longest catches, the *)
(* species of any, for its query has no order.                             *)
MyStats(u, row) ==
    /\ row.total = Cardinality(Own(u))
    /\ row.released = Cardinality({c \in Own(u) : book[c].entry.released})
    /\ Own(u) = {} => row = NoStats
    /\ Own(u) # {} => \E c \in Own(u) :
         /\ row.length = book[c].entry.length /\ row.species = book[c].entry.species
         /\ \A d \in Own(u) : book[d].entry.length <= row.length

(* The book and its row of statistics, which CreateCatch keeps apart from  *)
(* it, never disagree, however its transactions interleave and fail: the   *)
(* row is an answer that MyStats could give.                               *)
StatsMatchBook == \A u \in Users : MyStats(u, stats[u])

(* A catch is entered as a whole or not at all: the client that is told of *)
(* an error, or nothing, never leaves a catch without the job that binds   *)
(* it, nor a job without its catch.                                        *)
WholeOrNothing == \A c \in Requests : c \in jobs <=> book[c] # NoRow

(* The three tables that one transaction of CreateCatch writes agree.      *)
BookAgrees == StatsMatchBook /\ WholeOrNothing

(* A photo that a catch shows is there to be read (GetFile), in full, and  *)
(* was uploaded by the angler whose catch it is.                           *)
PhotoReadable ==
    \A c \in Requests :
        LET k == book[c].photo
        IN k # Nobody => store[k] = "whole" /\ User(k) = book[c].owner

(* An angler who is told that a catch is entered finds it in every listing *)
(* and in the statistics asked for from then on, unless the listing is     *)
(* full of catches no older or the rows broke off on the way.              *)
ReadYourWrites ==
    \A c, r \in Requests :
        /\ req[c].op = "create" /\ answer[c] = "ok" /\ c \in before[r]
        /\ req[r].op \in {"list", "mystats"} /\ answer[r] = "ok" /\ User(r) = User(c)
        => \/ c \in seen[r]
           \/ /\ req[r].op = "list" /\ Cardinality(seen[r]) = Limit
              /\ \A d \in seen[r] : book[d].entry.day >= req[c].entry.day

(* An upload that is answered OK stands: the catch shows this photo, or    *)
(* one whose upload had not ended when this one began.                     *)
PhotoStands ==
    \A r \in Requests :
        req[r].op = "upload" /\ answer[r] = "ok" =>
            LET k == book[req[r].target].photo
            IN k # Nobody /\ k \notin before[r]

(* Of the book and the store, which nothing writes together: what is shown *)
(* is there, and what was stored and answered OK is shown.                 *)
PhotosInPlace == PhotoReadable /\ PhotoStands

Overlap(q, r) ==
    /\ pc[q] # "idle" /\ pc[r] # "idle"
    /\ q \notin before[r] /\ r \notin before[q]

(* Every other PatchMe of this angler that was under way with r set field  *)
(* f as well.                                                              *)
NobodyKeeps(f, r) ==
    \A q \in Requests \ {r} :
        req[q].op = "patch" /\ User(q) = User(r) /\ Overlap(q, r) => f \in req[q].fields

(* PatchMe writes back all fields as it has read them.  A change that is   *)
(* answered OK stands all the same: the field never goes back to an older  *)
(* value, unless another PatchMe was under way with it that did not set    *)
(* this field, but carried along what it had read.  Two that set the same  *)
(* field do each other no harm, and no later one ever does.                *)
PatchStands ==
    \A r \in Requests :
        req[r].op = "patch" /\ answer[r] = "ok" =>
            \A f \in req[r].fields :
                NobodyKeeps(f, r) =>
                    LET k == profile[User(r)][f]
                    IN  k # Nobody /\ k \notin before[r]

(* Every request is answered, whatever fails: no transaction that waits    *)
(* for a user's row of statistics waits for ever.                          *)
EveryRequestAnswered == \A r \in Requests : pc[r] # "idle" ~> pc[r] = "done"
=============================================================================
