------------------------------ MODULE HydroJobs ------------------------------
(***************************************************************************)
(* Binding catches to weather and tide: the queue in table hydro_jobs, the *)
(* Worker of internal/hydro/worker.go that works it off, and CreateCatch   *)
(* of internal/httpapi/handlers_catch.go, which fills it.                  *)
(*                                                                         *)
(* Every server process runs one worker (cmd/server, background).  A       *)
(* worker selects a batch of due jobs and takes them one by one, each in   *)
(* one transaction that spans the call to the weather provider; tx[w] is   *)
(* what that transaction has written so far.                               *)
(*                                                                         *)
(* Times are kept relative to the present: due is next_run_at - now(), so  *)
(* a job may be selected once due <= 0, and the clock counts every due     *)
(* down.                                                                   *)
(***************************************************************************)
EXTENDS Integers, Sequences, FiniteSets

CONSTANTS
    Catches,        \* identities of catches; each has at most one job
    Workers,
    MaxAttempts,    \* worker.go: 3
    Batch,          \* Tick's LIMIT: 8
    BadBodies,      \* catches for which the provider refuses with a body
                    \* that is no text for PostgreSQL (NUL, invalid UTF-8)
    MaxLag,         \* bound: lateness is told apart up to here
    MaxFaults,      \* bound: lost transactions and crashes
    NoWorker

ASSUME BoundsAssumption ==
    /\ MaxAttempts \in Nat \ {0}
    /\ Batch \in Nat \ {0}
    /\ MaxLag \in Nat
    /\ MaxFaults \in Nat
ASSUME CatchesAssumption == IsFiniteSet(Catches)
ASSUME NamesAssumption == NoWorker \notin Workers /\ BadBodies \subseteq Catches

VARIABLES
    catch,          \* catches.hydro_status; ABSENT before CreateCatch
    job,            \* the rows of hydro_jobs, as committed
    snapshot,       \* the catches with a row in hydro_snapshots
    rowLock,        \* which worker's transaction has locked the job's row
    pc,             \* where each worker is
    batch,          \* the ids its Tick has selected and not yet worked off
    tx,             \* what its transaction has written for Head(batch)
    faults

tables == <<catch, job, snapshot>>
vars == <<catch, job, snapshot, rowLock, pc, batch, tx, faults>>

-----------------------------------------------------------------------------
JobStatus == {"NONE", "PENDING", "RUNNING", "BOUND", "FAILED"}
Classes == {"NONE", "TRANSIENT", "PERMANENT"}

Job == [status : JobStatus, attempts : Nat, class : Classes, due : Int]
NoJob == [status |-> "NONE", attempts |-> 0, class |-> "NONE", due |-> 0]

(* What a transaction of process writes: the job, hydro_status, snapshot.  *)
Write == [job : Job, catch : {"PENDING", "BOUND", "FAILED"}, snap : BOOLEAN]
NoWrite == [job |-> NoJob, catch |-> "PENDING", snap |-> FALSE]

Retryable(class) == class = "TRANSIENT"

(* Slip: one try too many.                                                 *)
ShouldRetry_OneMore(class, attempts) == Retryable(class) /\ attempts <= MaxAttempts

(* Slip: the class of the failure is not looked at.                        *)
ShouldRetry_AnyClass(class, attempts) == attempts < MaxAttempts

ShouldRetry(class, attempts) == Retryable(class) /\ attempts < MaxAttempts

(* 1 s doubled for every attempt after the first, at most 16 s.            *)
RetryBackoff(attempts) ==
    CASE attempts <= 1 -> 1
      [] attempts = 2  -> 2
      [] attempts = 3  -> 4
      [] attempts = 4  -> 8
      [] attempts >= 5 -> 16

(* Slip: a settled job counts as open.                                     *)
Open_Any(c) == job[c].status # "NONE"

Open(c) == job[c].status \in {"PENDING", "RUNNING"}
(* Slip: the query forgets next_run_at.                                    *)
DueJobs_Early == {c \in Catches : Open(c)}

DueJobs == {c \in Catches : Open(c) /\ job[c].due <= 0}
Current(w) == Head(batch[w])

-----------------------------------------------------------------------------
Init ==
    /\ catch = [c \in Catches |-> "ABSENT"]
    /\ job = [c \in Catches |-> NoJob]
    /\ snapshot = {}
    /\ rowLock = [c \in Catches |-> NoWorker]
    /\ pc = [w \in Workers |-> "down"]
    /\ batch = [w \in Workers |-> <<>>]
    /\ tx = [w \in Workers |-> NoWrite]
    /\ faults = 0

(* Slip: the job is entered under a status that no query knows.            *)
CreateCatch_Queued(c) ==
    /\ catch[c] = "ABSENT"
    /\ catch' = [catch EXCEPT ![c] = "PENDING"]
    /\ job' = [job EXCEPT ![c] = [NoJob EXCEPT !.status = "QUEUED"]]
    /\ UNCHANGED <<snapshot, rowLock, pc, batch, tx, faults>>

(* One transaction enters the catch and its job, due at once.              *)
CreateCatch(c) ==
    /\ catch[c] = "ABSENT"
    /\ catch' = [catch EXCEPT ![c] = "PENDING"]
    /\ job' = [job EXCEPT ![c] = [NoJob EXCEPT !.status = "PENDING"]]
    /\ UNCHANGED <<snapshot, rowLock, pc, batch, tx, faults>>

(* A server starts with Recovery, which returns RUNNING jobs to PENDING.   *)
(* (It runs every 30 s as well.  Its test of started_at is left out: no    *)
(* committed job is RUNNING, see RunningNeverCommitted.)                   *)
Start(w) ==
    /\ pc[w] = "down"
    /\ pc' = [pc EXCEPT ![w] = "idle"]
    /\ job' = [c \in Catches |->
                 IF job[c].status = "RUNNING"
                 THEN [job[c] EXCEPT !.status = "PENDING"] ELSE job[c]]
    /\ UNCHANGED <<catch, snapshot, rowLock, batch, tx, faults>>

(* The sequences SELECT ... ORDER BY next_run_at LIMIT may return.         *)
Selections ==
    LET n == IF Cardinality(DueJobs) < Batch THEN Cardinality(DueJobs) ELSE Batch
    IN {q \in [1 .. n -> DueJobs] :
          /\ \A i, j \in 1 .. n : i < j => q[i] # q[j] /\ job[q[i]].due <= job[q[j]].due
          /\ \A c \in DueJobs : \/ \E i \in 1 .. n : q[i] = c
                                \/ \A i \in 1 .. n : job[q[i]].due <= job[c].due}

(* Tick: the ids of the due jobs are read; nothing is locked yet.          *)
SelectDue(w) ==
    /\ pc[w] = "idle" /\ batch[w] = <<>>
    /\ DueJobs # {}
    /\ \E q \in Selections : batch' = [batch EXCEPT ![w] = q]
    /\ UNCHANGED <<tables, rowLock, pc, tx, faults>>

(* process, begin: the job's row is locked and, unless it is settled, set  *)
(* RUNNING with one more attempt, inside the transaction.  The due time in *)
(* tx counts from here: failOrRetry adds the backoff to this moment.       *)
Take(w) ==
    LET c == Current(w)
    IN
    /\ pc[w] = "idle" /\ batch[w] # <<>>
    /\ Open(c)
    /\ rowLock[c] = NoWorker
    /\ rowLock' = [rowLock EXCEPT ![c] = w]
    /\ tx' = [tx EXCEPT ![w] =
                [job   |-> [status   |-> "RUNNING",
                            attempts |-> job[c].attempts + 1,
                            class    |-> job[c].class,
                            due      |-> 0],
                 catch |-> "PENDING",
                 snap  |-> FALSE]]
    /\ pc' = [pc EXCEPT ![w] = "retro"]
    /\ UNCHANGED <<tables, batch, faults>>

(* process, begin: another worker has settled the job since the selection. *)
SkipSettled(w) ==
    /\ pc[w] = "idle" /\ batch[w] # <<>>
    /\ ~Open(Current(w))
    /\ rowLock[Current(w)] = NoWorker
    /\ batch' = [batch EXCEPT ![w] = Tail(@)]
    /\ UNCHANGED <<tables, rowLock, pc, tx, faults>>

(* Slip: hydro_status is left for the reader to work out.                  *)
Bind_ForgetsCatch(w) ==
    /\ pc[w] = "retro"
    /\ tx' = [tx EXCEPT ![w].job.status = "BOUND", ![w].job.due = 0, ![w].snap = TRUE]
    /\ pc' = [pc EXCEPT ![w] = "commit"]
    /\ UNCHANGED <<tables, rowLock, batch, faults>>

(* Retro succeeds: the snapshot, the job and the catch are written.        *)
Bind(w) ==
    /\ pc[w] = "retro"
    /\ tx' = [tx EXCEPT ![w] =
                [job   |-> [tx[w].job EXCEPT !.status = "BOUND", !.class = "NONE",
                                              !.due = 0],
                 catch |-> "BOUND",
                 snap  |-> TRUE]]
    /\ pc' = [pc EXCEPT ![w] = "commit"]
    /\ UNCHANGED <<tables, rowLock, batch, faults>>

(* Slip: a failure that may be retried leaves the job RUNNING.             *)
FailOrRetry_LeavesRunning(w, class) ==
    /\ pc[w] = "retro"
    /\ tx' = [tx EXCEPT ![w].job.class = class,
                        ![w].job.due = @ + RetryBackoff(tx[w].job.attempts)]
    /\ pc' = [pc EXCEPT ![w] = "commit"]
    /\ UNCHANGED <<tables, rowLock, batch, faults>>

(* Retro fails with an error of some class: failOrRetry.                   *)
FailOrRetry(w, class) ==
    LET j == tx[w].job
    IN
    /\ pc[w] = "retro"
    /\ \/ /\ ShouldRetry(class, j.attempts)
          /\ tx' = [tx EXCEPT ![w] =
                      [job   |-> [j EXCEPT !.status = "PENDING", !.class = class,
                                             !.due = @ + RetryBackoff(j.attempts)],
                       catch |-> "PENDING",
                       snap  |-> FALSE]]
       \/ /\ ~ShouldRetry(class, j.attempts)
          /\ tx' = [tx EXCEPT ![w] =
                      [job   |-> [j EXCEPT !.status = "FAILED", !.class = class,
                                             !.due = 0],
                       catch |-> "FAILED",
                       snap  |-> FALSE]]
    /\ pc' = [pc EXCEPT ![w] = "commit"]
    /\ UNCHANGED <<tables, rowLock, batch, faults>>

(* Slip: the transaction is left open.                                     *)
NextJob_KeepsRow(w) ==
    /\ pc' = [pc EXCEPT ![w] = "idle"]
    /\ batch' = [batch EXCEPT ![w] = Tail(@)]
    /\ tx' = [tx EXCEPT ![w] = NoWrite]
    /\ UNCHANGED rowLock

(* The worker is done with the job at hand; its row lock goes.             *)
NextJob(w) ==
    /\ pc' = [pc EXCEPT ![w] = "idle"]
    /\ batch' = [batch EXCEPT ![w] = Tail(@)]
    /\ rowLock' = [rowLock EXCEPT ![Current(w)] = NoWorker]
    /\ tx' = [tx EXCEPT ![w] = NoWrite]

Commit(w) ==
    LET c == Current(w)
    IN
    /\ pc[w] = "commit"
    /\ job' = [job EXCEPT ![c] = tx[w].job]
    /\ catch' = [catch EXCEPT ![c] = tx[w].catch]
    /\ snapshot' = IF tx[w].snap THEN snapshot \cup {c} ELSE snapshot
    /\ NextJob(w)
    /\ UNCHANGED faults

(* A statement or the commit fails; the error is logged and the attempt    *)
(* with all it wrote is rolled back.                                       *)
LoseTx(w) ==
    /\ pc[w] \in {"retro", "commit"}
    /\ faults < MaxFaults
    /\ faults' = faults + 1
    /\ NextJob(w)
    /\ UNCHANGED tables

(* The provider refuses with a body that cannot be stored in last_error:   *)
(* failOrRetry's UPDATE fails, every time.                                 *)
RefusedUnstorably(w) ==
    /\ pc[w] = "retro"
    /\ Current(w) \in BadBodies
    /\ NextJob(w)
    /\ UNCHANGED <<tables, faults>>

(* The server process dies, at any point of its work.                      *)
Crash(w) ==
    /\ pc[w] # "down"
    /\ faults < MaxFaults
    /\ faults' = faults + 1
    /\ pc' = [pc EXCEPT ![w] = "down"]
    /\ batch' = [batch EXCEPT ![w] = <<>>]
    /\ rowLock' = [c \in Catches |-> IF rowLock[c] = w THEN NoWorker ELSE rowLock[c]]
    /\ tx' = [tx EXCEPT ![w] = NoWrite]
    /\ UNCHANGED tables

(* A second passes.  (due of a settled job means nothing and is left 0.)   *)
Later(due) == IF due > -MaxLag THEN due - 1 ELSE due

Second ==
    /\ job' = [c \in Catches |->
                 IF job[c].status = "PENDING"
                 THEN [job[c] EXCEPT !.due = Later(@)] ELSE job[c]]
    /\ tx' = [w \in Workers |->
                 IF tx[w].job.status \in {"RUNNING", "PENDING"}
                 THEN [tx[w] EXCEPT !.job.due = Later(@)] ELSE tx[w]]
    /\ UNCHANGED <<catch, snapshot, rowLock, pc, batch, faults>>

-----------------------------------------------------------------------------
Retro(w) == Bind(w) \/ \E class \in {"TRANSIENT", "PERMANENT"} : FailOrRetry(w, class)

Work(w) ==
    \/ Start(w) \/ SelectDue(w) \/ Take(w) \/ SkipSettled(w)
    \/ Retro(w) \/ RefusedUnstorably(w) \/ Commit(w)

Next ==
    \/ \E c \in Catches : CreateCatch(c)
    \/ \E w \in Workers : Work(w) \/ LoseTx(w) \/ Crash(w)
    \/ Second

Spec == Init /\ [][Next]_vars

(* Each server is restarted and its background loop keeps ticking; time    *)
(* passes.                                                                 *)
Fairness == WF_vars(Second) /\ \A w \in Workers : WF_vars(Work(w))
FairSpec == Spec /\ Fairness

-----------------------------------------------------------------------------
(* Properties.                                                             *)

(* Every variable has its type.                                            *)
TypeOK ==
    /\ catch \in [Catches -> {"ABSENT", "PENDING", "BOUND", "FAILED"}]
    /\ job \in [Catches -> Job]
    /\ snapshot \in SUBSET Catches
    /\ rowLock \in [Catches -> Workers \cup {NoWorker}]
    /\ pc \in [Workers -> {"down", "idle", "retro", "commit"}]
    /\ batch \in [Workers -> Seq(Catches)]
    /\ tx \in [Workers -> Write]
    /\ faults \in Nat

(* The three tables tell one story: hydro_status is the status of the job, *)
(* and a snapshot exists exactly for the catches that are BOUND.  A crash  *)
(* or a second worker in between never shows.                              *)
TablesAgree ==
    \A c \in Catches :
        /\ catch[c] = IF job[c].status = "NONE" THEN "ABSENT" ELSE job[c].status
        /\ c \in snapshot <=> catch[c] = "BOUND"

(* RUNNING is written and overwritten inside one transaction, so nobody    *)
(* ever reads it: Recovery and process's test for a stuck job never find   *)
(* one, and a crash cannot leave one behind.                               *)
RunningNeverCommitted == \A c \in Catches : job[c].status # "RUNNING"

(* What is committed is one story, of tries that are over.                 *)
OneStory == TablesAgree /\ RunningNeverCommitted

(* ShouldRetry over the life of a job: an open job has an attempt left and *)
(* has only ever failed transiently; a job is given up only for a failure  *)
(* that may not be retried, or when its attempts are used up.              *)
NarrowRetry ==
    \A c \in Catches :
        /\ job[c].status = "PENDING" =>
             /\ job[c].attempts < MaxAttempts
             /\ job[c].class = IF job[c].attempts = 0 THEN "NONE" ELSE "TRANSIENT"
        /\ job[c].status = "FAILED" =>
             job[c].class = "PERMANENT" \/ job[c].attempts = MaxAttempts
        /\ job[c].attempts <= MaxAttempts

(* The other servers, if there are any, have not come up yet.              *)
Lone(w) == \A v \in Workers \ {w} : pc[v] = "down" /\ faults = 0

BatchIsDue(w) ==
    \A i \in 1 .. Len(batch[w]) : Open(batch[w][i]) => job[batch[w][i]].due <= 0

(* No attempt starts before its backoff is over, although process does not *)
(* look at next_run_at again and the batch may be old: while one server is *)
(* alone, a job that was due when it was selected is due when it is taken. *)
BackoffKept == \A w \in Workers : Lone(w) => BatchIsDue(w)

(* Retries are few, for transient failures only, and not early.            *)
RetriesKept == NarrowRetry /\ BackoffKept

(* A settled catch stays settled as it is, and every attempt that changes  *)
(* a job is counted, once.                                                 *)
SettledForGood ==
    [][\A c \in Catches :
         /\ job[c].status \in {"BOUND", "FAILED"} => UNCHANGED <<job[c], catch[c]>>
         /\ job[c].status = "PENDING" /\ <<job'[c].status, job'[c].class>>
                                            # <<job[c].status, job[c].class>> =>
              job'[c].attempts = job[c].attempts + 1]_vars

(* Every catch that is entered is settled in the end, if only finitely     *)
(* many transactions are lost and its own refusal can be stored: no job    *)
(* waits for ever behind others, behind a job that is refused unstorably   *)
(* again and again, behind its backoff, or behind a crashed server.  This  *)
(* holds while fewer than Batch catches are refused unstorably: a batch    *)
(* that only holds such catches starves every younger one.                 *)
EverySettles ==
    \A c \in Catches \ BadBodies :
        catch[c] = "PENDING" ~> catch[c] \in {"BOUND", "FAILED"}

(* The committed tables implement the promise of HydroBinding.             *)
Binding == [c \in Catches |-> [state |-> catch[c], tries |-> job[c].attempts]]
Abstract == INSTANCE HydroBinding WITH binding <- Binding
ImplementsBinding == Abstract!Spec
=============================================================================
