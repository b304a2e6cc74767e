------------------------------- MODULE Startup -------------------------------
(***************************************************************************)
(* How a server comes up: main of cmd/server/main.go, db.Open and Migrate  *)
(* of internal/db, Run of internal/seed.  Several servers may start on one *)
(* database at the same time, and each may die at any step and be started  *)
(* again.  The migrations run under an advisory lock of PostgreSQL; the    *)
(* seed is a row of INSERTs without a transaction, of which the first ones *)
(* are the users, whose emails are unique.                                 *)
(***************************************************************************)
EXTENDS Integers, FiniteSets

CONSTANTS
    Servers,
    UserRows,       \* INSERTs of the seed that a unique email protects
    SeedRows,       \* all INSERTs of the seed
    MaxTries,       \* attempts at db.Open
    MaxFaults,      \* bound: statements and connections that fail, and kills
    NoServer

ASSUME RowsAssumption == UserRows \in Nat \ {0} /\ SeedRows \in Nat /\ UserRows <= SeedRows
ASSUME BoundsAssumption == MaxTries \in Nat \ {0} /\ MaxFaults \in Nat
ASSUME NoServerAssumption == NoServer \notin Servers

VARIABLES
    pc,             \* where each server is in main
    tries,          \* i of main's loop around db.Open
    next,           \* the INSERT of the seed a server has come to
    lock,           \* who holds pg_advisory_lock(916016)
    schema,         \* whether the tables are there
    rows,           \* how often each INSERT of the seed has taken effect
    faults

vars == <<pc, tries, next, lock, schema, rows, faults>>

Places == {"down", "open", "lock", "read", "apply", "unlock", "abort", "storage",
           "count", "seed", "serve"}

Init ==
    /\ pc = [s \in Servers |-> "down"]
    /\ tries = [s \in Servers |-> 0]
    /\ next = [s \in Servers |-> 1]
    /\ lock = NoServer
    /\ schema = FALSE
    /\ rows = [i \in 1 .. SeedRows |-> 0]
    /\ faults = 0

At(s, place) == pc[s] = place
Goto(s, place) == pc' = [pc EXCEPT ![s] = place]
Fault == faults < MaxFaults /\ faults' = faults + 1
Fine == UNCHANGED faults

-----------------------------------------------------------------------------
(* The container is started, for the first time or again.                  *)
Start(s) ==
    /\ At(s, "down")
    /\ Goto(s, "open")
    /\ tries' = [tries EXCEPT ![s] = 0]
    /\ next' = [next EXCEPT ![s] = 1]
    /\ UNCHANGED <<lock, schema, rows, faults>>

(* Slip: the loop runs once too often.                                     *)
Open_OneMore(s) ==
    /\ At(s, "open")
    /\ \/ Goto(s, "lock") /\ Fine /\ UNCHANGED tries
       \/ /\ Fault
          /\ tries' = [tries EXCEPT ![s] = @ + 1]
          /\ Goto(s, IF tries[s] < MaxTries THEN "open" ELSE "down")
    /\ UNCHANGED <<next, lock, schema, rows>>

(* db.Open, up to MaxTries times.                                          *)
Open(s) ==
    /\ At(s, "open")
    /\ \/ Goto(s, "lock") /\ Fine /\ UNCHANGED tries
       \/ /\ Fault
          /\ tries' = [tries EXCEPT ![s] = @ + 1]
          /\ Goto(s, IF tries[s] + 1 < MaxTries THEN "open" ELSE "down")
    /\ UNCHANGED <<next, lock, schema, rows>>

(* Slip: pg_try_advisory_lock, whose answer nobody reads.                  *)
Lock_NoWait(s) ==
    /\ At(s, "lock")
    /\ lock' = IF lock = NoServer THEN s ELSE lock
    /\ Goto(s, "read")
    /\ Fine
    /\ UNCHANGED <<tries, next, schema, rows>>

(* Migrate waits for the advisory lock.                                    *)
Lock(s) ==
    /\ At(s, "lock")
    /\ \/ /\ lock = NoServer
          /\ lock' = s
          /\ Goto(s, "read")
          /\ Fine
       \/ Fault /\ Goto(s, "down") /\ UNCHANGED lock
    /\ UNCHANGED <<tries, next, schema, rows>>

(* A migration is read and sent.  Its statements are one Exec without      *)
(* arguments and so one implicit transaction.                              *)
ReadFile(s) ==
    /\ At(s, "read")
    /\ \/ Goto(s, "apply") /\ Fine
       \/ Goto(s, "abort") /\ Fault
    /\ UNCHANGED <<tries, next, lock, schema, rows>>

(* Slip: the error is logged and the next file is tried.                   *)
ApplyFile_GoesOn(s) ==
    /\ At(s, "apply")
    /\ \/ schema' = TRUE /\ Fine
       \/ UNCHANGED schema /\ Fault
    /\ Goto(s, "unlock")
    /\ UNCHANGED <<tries, next, lock, rows>>

(* It commits or fails, or only seems to fail.                             *)
ApplyFile(s) ==
    /\ At(s, "apply")
    /\ \/ schema' = TRUE /\ Goto(s, "unlock") /\ Fine
       \/ schema' \in {schema, TRUE} /\ Goto(s, "abort") /\ Fault
    /\ UNCHANGED <<tries, next, lock, rows>>

Held(s) == IF lock = s THEN NoServer ELSE lock

(* Slip: the lock stays with its connection, which stays in the pool.      *)
Unlock_Never(s) ==
    /\ pc[s] \in {"unlock", "abort"}
    /\ lock' = IF At(s, "abort") THEN Held(s) ELSE lock
    /\ Goto(s, IF At(s, "unlock") THEN "storage" ELSE "down")
    /\ UNCHANGED <<tries, next, schema, rows, faults>>

(* The deferred unlock; after an error main exits.                         *)
Unlock(s) ==
    /\ pc[s] \in {"unlock", "abort"}
    /\ lock' = Held(s)
    /\ Goto(s, IF At(s, "unlock") THEN "storage" ELSE "down")
    /\ UNCHANGED <<tries, next, schema, rows, faults>>

(* storage.New.  The Recovery after it puts RUNNING jobs back, of which    *)
(* there are none, and its error is only logged.                           *)
OpenStorage(s) ==
    /\ At(s, "storage")
    /\ \/ Goto(s, "count") /\ Fine
       \/ Goto(s, "down") /\ Fault
    /\ UNCHANGED <<tries, next, lock, schema, rows>>

-----------------------------------------------------------------------------
(* The seed: nothing if the hunter is there, else every INSERT in turn.    *)
CountHunters(s) ==
    /\ At(s, "count")
    /\ \/ rows[1] > 0 /\ Goto(s, "serve") /\ Fine
       \/ rows[1] = 0 /\ Goto(s, "seed") /\ Fine
       \/ Goto(s, "down") /\ Fault
    /\ UNCHANGED <<tries, next, lock, schema, rows>>

Refused(i) == i <= UserRows /\ rows[i] > 0

(* Slip: ON CONFLICT DO NOTHING for the users.                             *)
Insert_Merges(s) ==
    /\ At(s, "seed") /\ next[s] <= SeedRows
    /\ rows' = IF Refused(next[s]) THEN rows ELSE [rows EXCEPT ![next[s]] = @ + 1]
    /\ next' = [next EXCEPT ![s] = @ + 1]
    /\ UNCHANGED <<pc, tries, lock, schema, faults>>

(* Slip: a row that cannot be inserted is left out.                        *)
Insert_GoesOn(s) ==
    /\ At(s, "seed") /\ next[s] <= SeedRows
    /\ \/ /\ ~Refused(next[s])
          /\ rows' = [rows EXCEPT ![next[s]] = @ + 1]
          /\ next' = [next EXCEPT ![s] = @ + 1]
          /\ UNCHANGED pc /\ Fine
       \/ /\ Refused(next[s]) /\ Goto(s, "down") /\ Fine
          /\ UNCHANGED <<rows, next>>
       \/ /\ Fault
          /\ next' = [next EXCEPT ![s] = @ + 1]
          /\ UNCHANGED <<rows, pc>>
    /\ UNCHANGED <<tries, lock, schema>>

(* One INSERT.  Any error ends the server, also one that hides an INSERT   *)
(* that has taken effect.                                                  *)
Insert(s) ==
    LET i == next[s]
    IN  /\ At(s, "seed") /\ i <= SeedRows
        /\ \/ /\ ~Refused(i)
              /\ rows' = [rows EXCEPT ![i] = @ + 1]
              /\ \/ next' = [next EXCEPT ![s] = i + 1] /\ UNCHANGED pc /\ Fine
                 \/ Goto(s, "down") /\ Fault /\ UNCHANGED next
           \/ Refused(i) /\ Goto(s, "down") /\ Fine /\ UNCHANGED <<rows, next>>
           \/ Goto(s, "down") /\ Fault /\ UNCHANGED <<rows, next>>
        /\ UNCHANGED <<tries, lock, schema>>

(* The router listens and the background loop runs.                        *)
Serve(s) ==
    /\ At(s, "seed") /\ next[s] > SeedRows
    /\ Goto(s, "serve")
    /\ UNCHANGED <<tries, next, lock, schema, rows, faults>>

(* A kill or a signal, at any point.  The lock goes with the connection;   *)
(* a migration that PostgreSQL is working on it may still finish.          *)
Kill(s) ==
    /\ ~At(s, "down")
    /\ Goto(s, "down")
    /\ lock' = Held(s)
    /\ schema' \in {schema, schema \/ At(s, "apply")}
    /\ Fault
    /\ UNCHANGED <<tries, next, rows>>

-----------------------------------------------------------------------------
Step(s) ==
    \/ Start(s) \/ Open(s) \/ Lock(s) \/ ReadFile(s) \/ ApplyFile(s) \/ Unlock(s)
    \/ OpenStorage(s) \/ CountHunters(s) \/ Insert(s) \/ Serve(s)

Next == \E s \in Servers : Step(s) \/ Kill(s)

Spec == Init /\ [][Next]_vars

(* The process runs, and its container is started again ("restart:         *)
(* unless-stopped" in docker-compose.yml).                                 *)
FairSpec == Spec /\ \A s \in Servers : WF_vars(Step(s))

-----------------------------------------------------------------------------
(* Every variable keeps its type, and main tries no more than MaxTries     *)
(* times.                                                                  *)
TypeOK ==
    /\ pc \in [Servers -> Places]
    /\ tries \in [Servers -> 0 .. MaxTries]
    /\ next \in [Servers -> 1 .. SeedRows + 1]
    /\ lock \in Servers \cup {NoServer}
    /\ schema \in BOOLEAN
    /\ rows \in [1 .. SeedRows -> Nat]
    /\ faults \in 0 .. MaxFaults
    /\ \A s \in Servers : At(s, "open") => tries[s] < MaxTries

(* Two servers never run migrations at the same time: CREATE TABLE IF NOT  *)
(* EXISTS fails when two sessions race for one table.                      *)
MigratesAlone ==
    \A s, t \in Servers :
        pc[s] \in {"read", "apply"} /\ pc[t] \in {"read", "apply"} => s = t

(* Nobody seeds or serves before the tables are there, however many        *)
(* attempts at the migration failed.                                       *)
TablesFirst ==
    \A s \in Servers : pc[s] \in {"storage", "count", "seed", "serve"} => schema

(* Migrations come one at a time, and before everything else.              *)
MigrationsFirst == MigratesAlone /\ TablesFirst

(* However many servers start together, die and start again, no row of the *)
(* seed is inserted twice, although only the users' rows are protected.    *)
SeededOnce == \A i \in 1 .. SeedRows : rows[i] <= 1

(* A seed that was broken off has no gaps: what is there refers to rows    *)
(* that are there, a job to its catch and a slot to its activity.          *)
SeedHasNoGaps == \A i \in 1 .. SeedRows : rows[i] > 0 => \A j \in 1 .. i - 1 : rows[j] > 0

(* What is there of the seed is a beginning of it, once.                   *)
SeededInOrder == SeededOnce /\ SeedHasNoGaps

(* Every server serves in the end, when nothing fails any more.            *)
EveryoneServes == \A s \in Servers : <>[](pc[s] = "serve")
=============================================================================
