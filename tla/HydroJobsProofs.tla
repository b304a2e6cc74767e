--------------------------- MODULE HydroJobsProofs ---------------------------
(***************************************************************************)
(* Theorems about HydroJobs, for any finite set of catches, any number of  *)
(* servers, any MaxAttempts and Batch, and any number of faults.           *)
(***************************************************************************)
EXTENDS HydroJobs, FiniteSetTheorems, TLAPS

USE DEF Current, tables

-----------------------------------------------------------------------------
(* What a worker in the middle of a job knows: it has the job's row, the   *)
(* job is still PENDING, and its transaction has counted the attempt.      *)

Busy(w) == pc[w] \in {"retro", "commit"}

AtWork ==
    \A w \in Workers : Busy(w) =>
        /\ batch[w] # <<>>
        /\ rowLock[Current(w)] = w
        /\ job[Current(w)].status = "PENDING"
        /\ tx[w].job.attempts = job[Current(w)].attempts + 1

(* What its transaction has written.                                       *)
Outcome(x) ==
    \/ /\ x.job.status = "PENDING" /\ x.catch = "PENDING" /\ ~x.snap
       /\ x.job.class = "TRANSIENT" /\ x.job.attempts < MaxAttempts
    \/ x.job.status = "BOUND" /\ x.catch = "BOUND" /\ x.snap
    \/ /\ x.job.status = "FAILED" /\ x.catch = "FAILED" /\ ~x.snap
       /\ x.job.class = "PERMANENT" \/ x.job.attempts >= MaxAttempts

Written ==
    \A w \in Workers :
        /\ pc[w] = "retro" => tx[w].job.status = "RUNNING" /\ tx[w].catch = "PENDING" /\ ~tx[w].snap
        /\ pc[w] = "commit" => Outcome(tx[w])

(* A catch without a job has not been tried.                               *)
Fresh == \A c \in Catches : job[c].status = "NONE" => job[c].attempts = 0

IInv ==
    /\ TypeOK
    /\ Fresh
    /\ TablesAgree
    /\ RunningNeverCommitted
    /\ NarrowRetry
    /\ AtWork
    /\ Written

-----------------------------------------------------------------------------
(* The job at hand and the rest of the batch, when there is one.           *)
LEMMA HeadTail ==
    ASSUME NEW S, NEW q \in Seq(S), q # <<>>
    PROVE  Head(q) \in S /\ Tail(q) \in Seq(S)
OBVIOUS

(* What the query of Tick returns is a sequence of due jobs without        *)
(* repetition.                                                             *)
LEMMA SelectionsType ==
    ASSUME NEW q \in Selections
    PROVE  /\ q \in Seq(Catches)
           /\ \A i \in 1 .. Len(q) : q[i] \in DueJobs
           /\ \A i, j \in 1 .. Len(q) : i # j => q[i] # q[j]
<1> DEFINE n == IF Cardinality(DueJobs) < Batch THEN Cardinality(DueJobs) ELSE Batch
<1>1. IsFiniteSet(DueJobs)
  BY CatchesAssumption, FS_Subset DEF DueJobs
<1>2. Cardinality(DueJobs) \in Nat
  BY <1>1, FS_CardinalityType
<1>3. n \in Nat
  BY <1>2, BoundsAssumption
<1>4. q \in [1 .. n -> DueJobs] /\ \A i, j \in 1 .. n : i < j => q[i] # q[j]
  BY DEF Selections
<1> HIDE DEF n
<1>5. q \in Seq(DueJobs) /\ Len(q) = n
  BY <1>3, <1>4
<1>6. DueJobs \subseteq Catches
  BY DEF DueJobs
<1>7. q \in Seq(Catches)
  BY <1>5, <1>6
<1>8. \A i, j \in 1 .. Len(q) : i # j => i < j \/ j < i
  BY <1>3, <1>5
<1> QED BY <1>4, <1>5, <1>7, <1>8

(* Backoffs and lateness are whole numbers of seconds.                     *)
LEMMA BackoffType == \A n \in Nat : RetryBackoff(n) \in Int
BY DEF RetryBackoff

(* The passing of a second keeps a due time a number.                      *)
LEMMA LaterType == \A d \in Int : Later(d) \in Int
BY BoundsAssumption DEF Later

(* What failOrRetry and the binding write into the job's row.              *)
Updated(j, s, k, d) == [j EXCEPT !.status = s, !.class = k, !.due = d]

(* It is a job again, with the new status and the old attempts.            *)
LEMMA JobUpdate ==
    \A j \in Job, s \in JobStatus, k \in Classes, d \in Int :
        LET y == Updated(j, s, k, d)
        IN  /\ y \in Job
            /\ y.status = s /\ y.class = k /\ y.attempts = j.attempts
BY DEF Job, Updated

(* The invariant holds before any catch is entered.                        *)
LEMMA SafeInit == Init => IInv
<1> SUFFICES ASSUME Init PROVE IInv
  OBVIOUS
<1>1. TypeOK
  BY DEF Init, TypeOK, NoJob, Job, JobStatus, Classes, NoWrite, Write
<1>2. TablesAgree /\ RunningNeverCommitted /\ NarrowRetry /\ Fresh
  BY BoundsAssumption DEF Init, Fresh, TablesAgree, RunningNeverCommitted, NarrowRetry, Fresh, NoJob
<1>3. AtWork /\ Written
  BY DEF Init, AtWork, Written, Busy
<1> QED BY <1>1, <1>2, <1>3 DEF IInv

(* Every step of a worker, of CreateCatch and of the clock keeps it.       *)
LEMMA SafeStep == IInv /\ [Next]_vars => IInv'
<1> SUFFICES ASSUME IInv, [Next]_vars PROVE IInv'
  OBVIOUS
<1>t. TypeOK
  BY DEF IInv
<1>i. TablesAgree /\ RunningNeverCommitted /\ NarrowRetry /\ Fresh /\ AtWork /\ Written
  BY DEF IInv
<1>b. \A w \in Workers : Busy(w) => Current(w) \in Catches /\ Tail(batch[w]) \in Seq(Catches)
  BY <1>t, <1>i, HeadTail DEF TypeOK, AtWork
<1>0. CASE UNCHANGED vars
  BY <1>0, <1>t, <1>i DEF vars, IInv, TypeOK, TablesAgree, RunningNeverCommitted,
     NarrowRetry, Fresh, AtWork, Written, Busy
<1>1. ASSUME NEW c \in Catches, CreateCatch(c)
      PROVE  IInv'
  <2>1. /\ catch' = [catch EXCEPT ![c] = "PENDING"]
        /\ job' = [job EXCEPT ![c] = [NoJob EXCEPT !.status = "PENDING"]]
        /\ catch[c] = "ABSENT" /\ job[c].status = "NONE"
        /\ UNCHANGED <<snapshot, rowLock, pc, batch, tx, faults>>
    BY <1>1, <1>t, <1>i DEF CreateCatch, TablesAgree, TypeOK, Job, JobStatus
  <2>2. [NoJob EXCEPT !.status = "PENDING"] =
          [status |-> "PENDING", attempts |-> 0, class |-> "NONE", due |-> 0]
    BY DEF NoJob
  <2>3. TypeOK'
    BY <2>1, <2>2, <1>t DEF TypeOK, Job, JobStatus, Classes
  <2>4. TablesAgree' /\ RunningNeverCommitted' /\ NarrowRetry' /\ Fresh'
    BY <2>1, <2>2, <1>t, <1>i, BoundsAssumption
       DEF TypeOK, TablesAgree, RunningNeverCommitted, NarrowRetry, Fresh
  <2>5. \A w \in Workers : Busy(w) => Current(w) # c
    BY <2>1, <1>i DEF AtWork
  <2>6. AtWork' /\ Written'
    BY <2>1, <2>5, <1>t, <1>i, <1>b DEF TypeOK, AtWork, Written, Busy
  <2> QED BY <2>3, <2>4, <2>6 DEF IInv
<1>2. ASSUME NEW w \in Workers, Start(w)
      PROVE  IInv'
  <2>1. \A c \in Catches : job[c].status # "RUNNING"
    BY <1>i DEF RunningNeverCommitted
  <2>2. job' = job /\ pc' = [pc EXCEPT ![w] = "idle"]
        /\ UNCHANGED <<catch, snapshot, rowLock, batch, tx, faults>>
    BY <1>2, <2>1, <1>t DEF Start, TypeOK
  <2> QED BY <2>2, <1>t, <1>i DEF IInv, TypeOK, TablesAgree, RunningNeverCommitted,
             NarrowRetry, Fresh, AtWork, Written, Busy
<1>3. ASSUME NEW w \in Workers, SelectDue(w)
      PROVE  IInv'
  <2>1. PICK q \in Selections : batch' = [batch EXCEPT ![w] = q]
    BY <1>3 DEF SelectDue
  <2>2. q \in Seq(Catches)
    BY SelectionsType
  <2>3. pc[w] = "idle" /\ UNCHANGED <<tables, rowLock, pc, tx, faults>>
    BY <1>3 DEF SelectDue
  <2>4. TypeOK'
    BY <2>1, <2>2, <2>3, <1>t DEF TypeOK
  <2>5. AtWork' /\ Written'
    BY <2>1, <2>3, <1>t, <1>i DEF TypeOK, AtWork, Written, Busy
  <2> QED BY <2>3, <2>4, <2>5, <1>i
             DEF IInv, TablesAgree, RunningNeverCommitted, NarrowRetry, Fresh
<1>4. ASSUME NEW w \in Workers, Take(w)
      PROVE  IInv'
  <2> DEFINE c == Current(w)
             x == [job   |-> [status   |-> "RUNNING",
                              attempts |-> job[c].attempts + 1,
                              class    |-> job[c].class,
                              due      |-> 0],
                   catch |-> "PENDING",
                   snap  |-> FALSE]
  <2>1. /\ pc[w] = "idle" /\ batch[w] # <<>> /\ Open(c) /\ rowLock[c] = NoWorker
        /\ rowLock' = [rowLock EXCEPT ![c] = w]
        /\ tx' = [tx EXCEPT ![w] = x]
        /\ pc' = [pc EXCEPT ![w] = "retro"]
        /\ UNCHANGED <<tables, batch, faults>>
    BY <1>4 DEF Take
  <2>2. c \in Catches
    BY <2>1, <1>t, HeadTail DEF TypeOK
  <2>3. job[c].status = "PENDING"
    BY <2>1, <2>2, <1>i DEF Open, RunningNeverCommitted
  <2>4. x \in Write
    BY <2>2, <1>t DEF TypeOK, Write, Job, JobStatus
  <2>5. TypeOK'
    BY <2>1, <2>2, <2>4, <1>t DEF TypeOK
  <2>6. AtWork'
    BY <2>1, <2>2, <2>3, <1>t, <1>i, <1>b, NamesAssumption DEF TypeOK, AtWork, Busy
  <2>7. Written'
    BY <2>1, <1>t, <1>i DEF TypeOK, Written
  <2> QED BY <2>1, <2>5, <2>6, <2>7, <1>i
             DEF IInv, TablesAgree, RunningNeverCommitted, NarrowRetry, Fresh
<1>5. ASSUME NEW w \in Workers, SkipSettled(w)
      PROVE  IInv'
  <2>1. /\ pc[w] = "idle" /\ batch[w] # <<>>
        /\ batch' = [batch EXCEPT ![w] = Tail(batch[w])]
        /\ UNCHANGED <<tables, rowLock, pc, tx, faults>>
    BY <1>5 DEF SkipSettled
  <2>2. TypeOK'
    BY <2>1, <1>t, HeadTail DEF TypeOK
  <2>3. AtWork' /\ Written'
    BY <2>1, <1>t, <1>i DEF TypeOK, AtWork, Written, Busy
  <2> QED BY <2>1, <2>2, <2>3, <1>i
             DEF IInv, TablesAgree, RunningNeverCommitted, NarrowRetry, Fresh
<1>6. ASSUME NEW w \in Workers, Retro(w)
      PROVE  IInv'
  <2>1. pc[w] = "retro" /\ pc' = [pc EXCEPT ![w] = "commit"]
        /\ UNCHANGED <<tables, rowLock, batch, faults>>
    BY <1>6 DEF Retro, Bind, FailOrRetry
  <2>2. /\ tx[w] \in Write /\ Busy(w)
        /\ tx[w].job.status = "RUNNING" /\ tx[w].catch = "PENDING" /\ ~tx[w].snap
    BY <2>1, <1>t, <1>i DEF TypeOK, Written, Busy
  <2>3. PICK x \in Write : /\ tx' = [tx EXCEPT ![w] = x]
                           /\ Outcome(x)
                           /\ x.job.attempts = tx[w].job.attempts
    <3>1. CASE Bind(w)
      <4> DEFINE y == Updated(tx[w].job, "BOUND", "NONE", 0)
                 x == [job |-> y, catch |-> "BOUND", snap |-> TRUE]
      <4>1. y \in Job /\ y.status = "BOUND" /\ y.attempts = tx[w].job.attempts
        <5>1. tx[w].job \in Job /\ "BOUND" \in JobStatus /\ "NONE" \in Classes /\ 0 \in Int
          BY <2>2 DEF Write, JobStatus, Classes
        <5> QED BY <5>1, JobUpdate
      <4>2. tx' = [tx EXCEPT ![w] = x]
        BY <3>1 DEF Bind, Updated
      <4> HIDE DEF y
      <4>3. x \in Write /\ Outcome(x) /\ x.job.attempts = tx[w].job.attempts
        BY <4>1 DEF Write, Outcome
      <4> QED BY <4>2, <4>3
    <3>2. ASSUME NEW class \in {"TRANSIENT", "PERMANENT"}, FailOrRetry(w, class)
          PROVE  \E x \in Write : /\ tx' = [tx EXCEPT ![w] = x]
                                  /\ Outcome(x)
                                  /\ x.job.attempts = tx[w].job.attempts
      <4> DEFINE j == tx[w].job
      <4>0. j \in Job /\ RetryBackoff(j.attempts) \in Int /\ j.due \in Int /\ class \in Classes
        BY <2>2, BackoffType DEF Write, Job, Classes
      <4>1. CASE ShouldRetry(class, j.attempts)
        <5> DEFINE y == Updated(j, "PENDING", class, j.due + RetryBackoff(j.attempts))
                   x == [job |-> y, catch |-> "PENDING", snap |-> FALSE]
        <5>1. /\ y \in Job /\ y.status = "PENDING" /\ y.class = "TRANSIENT"
              /\ y.attempts = j.attempts /\ j.attempts < MaxAttempts
          <6>1. j.due + RetryBackoff(j.attempts) \in Int
            BY <4>0
          <6>2. class = "TRANSIENT" /\ j.attempts < MaxAttempts
            BY <4>1 DEF ShouldRetry, Retryable
          <6>3. "PENDING" \in JobStatus
            BY DEF JobStatus
          <6> QED BY <4>0, <6>1, <6>2, <6>3, JobUpdate
        <5>2. tx' = [tx EXCEPT ![w] = x]
          BY <3>2, <4>1, <4>0 DEF FailOrRetry, Updated
        <5> HIDE DEF y
        <5>3. x \in Write /\ Outcome(x) /\ x.job.attempts = tx[w].job.attempts
          BY <5>1 DEF Write, Outcome
        <5> QED BY <5>2, <5>3
      <4>2. CASE ~ShouldRetry(class, j.attempts)
        <5> DEFINE y == Updated(j, "FAILED", class, 0)
                   x == [job |-> y, catch |-> "FAILED", snap |-> FALSE]
        <5>1. /\ y \in Job /\ y.status = "FAILED" /\ y.class = class
              /\ y.attempts = j.attempts
          <6>1. "FAILED" \in JobStatus /\ 0 \in Int
            BY DEF JobStatus
          <6> QED BY <4>0, <6>1, JobUpdate
        <5>2. class = "PERMANENT" \/ j.attempts >= MaxAttempts
          BY <4>2, <4>0, BoundsAssumption DEF ShouldRetry, Retryable, Job
        <5>3. tx' = [tx EXCEPT ![w] = x]
          BY <3>2, <4>2 DEF FailOrRetry, Updated
        <5> HIDE DEF y
        <5>4. x \in Write /\ Outcome(x) /\ x.job.attempts = tx[w].job.attempts
          BY <5>1, <5>2 DEF Write, Outcome
        <5> QED BY <5>3, <5>4
      <4> QED BY <4>1, <4>2
    <3> QED BY <1>6, <3>1, <3>2 DEF Retro
  <2>4. TypeOK'
    BY <2>1, <2>3, <1>t DEF TypeOK
  <2>5. AtWork'
    BY <2>1, <2>2, <2>3, <1>t, <1>i DEF TypeOK, AtWork, Busy
  <2>6. Written'
    BY <2>1, <2>3, <1>t, <1>i DEF TypeOK, Written, Outcome
  <2> QED BY <2>1, <2>4, <2>5, <2>6, <1>i
             DEF IInv, TablesAgree, RunningNeverCommitted, NarrowRetry, Fresh
<1>7. ASSUME NEW w \in Workers, Busy(w), NextJob(w)
      PROVE  /\ pc' \in [Workers -> {"down", "idle", "retro", "commit"}]
             /\ batch' \in [Workers -> Seq(Catches)]
             /\ rowLock' \in [Catches -> Workers \cup {NoWorker}]
             /\ tx' \in [Workers -> Write]
             /\ ~Busy(w)'
             /\ \A v \in Workers \ {w} :
                  /\ pc'[v] = pc[v] /\ batch'[v] = batch[v] /\ tx'[v] = tx[v]
                  /\ Busy(v) => rowLock'[Current(v)] = v /\ Current(v) # Current(w)
  <2>1. NoWrite \in Write
    BY DEF NoWrite, NoJob, Write, Job, JobStatus, Classes
  <2>2. Current(w) \in Catches /\ Tail(batch[w]) \in Seq(Catches) /\ rowLock[Current(w)] = w
    BY <1>7, <1>b, <1>i DEF AtWork
  <2>3. \A v \in Workers \ {w} : Busy(v) => rowLock[Current(v)] = v /\ Current(v) \in Catches
    BY <1>b, <1>i DEF AtWork
  <2> QED BY <1>7, <2>1, <2>2, <2>3, <1>t DEF NextJob, TypeOK, Busy
<1>8. ASSUME NEW w \in Workers, Busy(w), NextJob(w), UNCHANGED tables, faults' \in Nat
      PROVE  IInv'
  <2>1. TypeOK'
    BY <1>7, <1>8, <1>t DEF TypeOK
  <2>2. \A v \in Workers : Busy(v)' => v # w /\ Busy(v)
    BY <1>7, <1>8 DEF Busy
  <2>3. AtWork'
    BY <2>2, <1>7, <1>8, <1>i DEF AtWork
  <2>4. Written'
    BY <2>2, <1>7, <1>8, <1>i DEF Written, Busy
  <2> QED BY <2>1, <2>3, <2>4, <1>8, <1>i
             DEF IInv, TablesAgree, RunningNeverCommitted, NarrowRetry, Fresh
<1>9. ASSUME NEW w \in Workers, LoseTx(w) \/ RefusedUnstorably(w)
      PROVE  IInv'
  <2>1. Busy(w) /\ NextJob(w) /\ UNCHANGED tables /\ faults' \in Nat
    BY <1>9, <1>t DEF LoseTx, RefusedUnstorably, Busy, TypeOK
  <2> QED BY <2>1, <1>8
<1>10. ASSUME NEW w \in Workers, Commit(w)
       PROVE  IInv'
  <2> DEFINE c == Current(w)
  <2>1. /\ Busy(w) /\ NextJob(w) /\ pc[w] = "commit"
        /\ job' = [job EXCEPT ![c] = tx[w].job]
        /\ catch' = [catch EXCEPT ![c] = tx[w].catch]
        /\ snapshot' = IF tx[w].snap THEN snapshot \cup {c} ELSE snapshot
        /\ faults' = faults
    BY <1>10 DEF Commit, Busy
  <2>2. /\ c \in Catches /\ tx[w] \in Write /\ Outcome(tx[w])
        /\ job[c].status = "PENDING" /\ tx[w].job.attempts = job[c].attempts + 1
    BY <2>1, <1>t, <1>i, <1>b DEF TypeOK, AtWork, Written
  <2>3. TypeOK'
    BY <2>1, <2>2, <1>7, <1>t DEF TypeOK, Write
  <2>4. TablesAgree'
    BY <2>1, <2>2, <1>t, <1>i DEF TypeOK, TablesAgree, Outcome
  <2>5. RunningNeverCommitted'
    BY <2>1, <2>2, <1>t, <1>i DEF TypeOK, RunningNeverCommitted, Outcome
  <2>b. Fresh'
    BY <2>1, <2>2, <1>t, <1>i DEF TypeOK, Fresh, Outcome
  <2>6. NarrowRetry'
    <3>1. /\ job[c].attempts < MaxAttempts /\ job[c].attempts \in Nat
          /\ job'[c] = tx[w].job /\ \A d \in Catches \ {c} : job'[d] = job[d]
      BY <2>1, <2>2, <1>t, <1>i DEF TypeOK, Job, NarrowRetry
    <3>2. tx[w].job.attempts <= MaxAttempts /\ tx[w].job.attempts # 0
      BY <2>2, <3>1, BoundsAssumption
    <3> QED BY <2>2, <3>1, <3>2, <1>i, BoundsAssumption DEF NarrowRetry, Outcome
  <2>a. \A v \in Workers : Busy(v)' => v # w /\ Busy(v)
    BY <2>1, <1>7 DEF Busy
  <2>7. AtWork'
    <3> SUFFICES ASSUME NEW v \in Workers, Busy(v)'
                 PROVE  /\ batch'[v] # <<>>
                        /\ rowLock'[Current(v)'] = v
                        /\ job'[Current(v)'].status = "PENDING"
                        /\ tx'[v].job.attempts = job'[Current(v)'].attempts + 1
      BY DEF AtWork
    <3>1. v # w /\ Busy(v)
      BY <2>a
    <3>2. Current(v)' = Current(v) /\ rowLock'[Current(v)] = v /\ Current(v) # c
          /\ tx'[v] = tx[v] /\ batch'[v] = batch[v]
      BY <3>1, <2>1, <1>7
    <3>3. job'[Current(v)] = job[Current(v)]
      BY <3>1, <3>2, <2>1, <1>b, <1>t DEF TypeOK
    <3> QED BY <3>1, <3>2, <3>3, <1>i DEF AtWork
  <2>8. Written'
    BY <2>a, <2>1, <1>7, <1>i DEF Written, Busy
  <2> QED BY <2>3, <2>4, <2>5, <2>b, <2>6, <2>7, <2>8 DEF IInv
<1>11. ASSUME NEW w \in Workers, Crash(w)
       PROVE  IInv'
  <2>1. NoWrite \in Write /\ <<>> \in Seq(Catches)
    BY DEF NoWrite, NoJob, Write, Job, JobStatus, Classes
  <2>2. TypeOK'
    BY <1>11, <2>1, <1>t DEF Crash, TypeOK
  <2>3. AtWork' /\ Written'
    BY <1>11, <1>t, <1>i, <1>b DEF Crash, TypeOK, AtWork, Written, Busy
  <2> QED BY <1>11, <2>2, <2>3, <1>i
             DEF Crash, IInv, TablesAgree, RunningNeverCommitted, NarrowRetry, Fresh
<1>12. CASE Second
  <2>1. \A c \in Catches : /\ job'[c] \in Job
                           /\ job'[c].status = job[c].status
                           /\ job'[c].attempts = job[c].attempts
                           /\ job'[c].class = job[c].class
    BY <1>12, <1>t, LaterType DEF Second, TypeOK, Job
  <2>2. ASSUME NEW w \in Workers
        PROVE  /\ tx'[w] \in Write
               /\ tx'[w].job.status = tx[w].job.status
               /\ tx'[w].job.attempts = tx[w].job.attempts
               /\ tx'[w].job.class = tx[w].job.class
               /\ tx'[w].catch = tx[w].catch
               /\ tx'[w].snap = tx[w].snap
    <3>1. tx[w] \in Write /\ tx[w].job \in Job /\ Later(tx[w].job.due) \in Int
      BY <1>t, LaterType DEF TypeOK, Write, Job
    <3>2. CASE tx[w].job.status \in {"RUNNING", "PENDING"}
      <4> DEFINE y == [tx[w].job EXCEPT !.due = Later(tx[w].job.due)]
      <4>1. tx'[w] = [tx[w] EXCEPT !.job = y]
        BY <1>12, <3>2, <3>1 DEF Second, Write, Job
      <4>2. /\ y \in Job /\ y.status = tx[w].job.status
            /\ y.attempts = tx[w].job.attempts /\ y.class = tx[w].job.class
        BY <3>1 DEF Job
      <4> HIDE DEF y
      <4> QED BY <4>1, <4>2, <3>1 DEF Write
    <3>3. CASE tx[w].job.status \notin {"RUNNING", "PENDING"}
      BY <1>12, <3>1, <3>3 DEF Second
    <3> QED BY <3>2, <3>3
  <2>3. UNCHANGED <<catch, snapshot, rowLock, pc, batch, faults>>
        /\ job' = [c \in Catches |-> job'[c]] /\ tx' = [w \in Workers |-> tx'[w]]
    BY <1>12 DEF Second
  <2>4. TypeOK'
    BY <2>1, <2>2, <2>3, <1>t DEF TypeOK
  <2>5. TablesAgree' /\ RunningNeverCommitted' /\ NarrowRetry' /\ Fresh'
    BY <2>1, <2>3, <1>i DEF TablesAgree, RunningNeverCommitted, NarrowRetry, Fresh
  <2>6. AtWork' /\ Written'
    BY <2>1, <2>2, <2>3, <1>i, <1>b DEF AtWork, Written, Busy, Outcome
  <2> QED BY <2>4, <2>5, <2>6 DEF IInv
<1> QED
  BY <1>0, <1>1, <1>2, <1>3, <1>4, <1>5, <1>6, <1>9, <1>10, <1>11, <1>12
     DEF Next, Work

(* The worker's invariant, for every number of catches, servers and tries. *)
THEOREM Invariance == Spec => []IInv
BY SafeInit, SafeStep, PTL DEF Spec

(* Every variable of the queue and of its workers keeps its type.          *)
THEOREM TypeCorrect == Spec => []TypeOK
BY Invariance, PTL DEF IInv

(* hydro_jobs, hydro_status and hydro_snapshots always tell one story,     *)
(* however many servers work on them and wherever they die; and no job in  *)
(* it is ever RUNNING: what Recovery looks for never exists.               *)
THEOREM AlwaysOneStory == Spec => []OneStory
BY Invariance, PTL DEF IInv, OneStory

(* An open job has a try left and has failed only transiently; a job is    *)
(* given up for a refusal or for its last try, never sooner or later.      *)
LEMMA RetriesAreNarrow == Spec => []NarrowRetry
BY Invariance, PTL DEF IInv

-----------------------------------------------------------------------------
(* How a step changes the committed tables: not at all but for the passing *)
(* of time, by entering a catch, or by committing a try.                   *)
Steady ==
    \A c \in Catches :
        /\ catch'[c] = catch[c]
        /\ job'[c].status = job[c].status
        /\ job'[c].attempts = job[c].attempts
        /\ job'[c].class = job[c].class
        /\ job[c].status # "PENDING" => job'[c] = job[c]

(* Every step is one of these.                                             *)
LEMMA TableSteps ==
    ASSUME IInv, [Next]_vars
    PROVE  Steady \/ (\E c \in Catches : CreateCatch(c)) \/ \E w \in Workers : Commit(w)
<1>t. TypeOK /\ RunningNeverCommitted
  BY DEF IInv
<1>1. UNCHANGED tables => Steady
  BY DEF Steady
<1>2. ASSUME NEW w \in Workers, Start(w)
      PROVE  Steady
  BY <1>2, <1>t DEF Start, Steady, TypeOK, RunningNeverCommitted
<1>3. Second => Steady
  BY <1>t DEF Second, Steady, TypeOK, Job
<1>4. ASSUME NEW w \in Workers,
             SelectDue(w) \/ Take(w) \/ SkipSettled(w) \/ Retro(w) \/ RefusedUnstorably(w)
               \/ LoseTx(w) \/ Crash(w)
      PROVE  UNCHANGED tables
  BY <1>4 DEF SelectDue, Take, SkipSettled, Retro, Bind, FailOrRetry, RefusedUnstorably,
              LoseTx, Crash
<1>5. UNCHANGED vars => UNCHANGED tables
  BY DEF vars
<1> QED BY <1>1, <1>2, <1>3, <1>4, <1>5 DEF Next, Work

(* What a commit does to the three tables.                                 *)
LEMMA CommitSteps ==
    ASSUME IInv, NEW w \in Workers, Commit(w)
    PROVE  LET c == Current(w)
           IN  /\ c \in Catches
               /\ job[c].status = "PENDING" /\ catch[c] = "PENDING"
               /\ job[c].attempts < MaxAttempts /\ job[c].attempts \in Nat
               /\ job' = [job EXCEPT ![c] = tx[w].job]
               /\ catch' = [catch EXCEPT ![c] = tx[w].catch]
               /\ tx[w].job.attempts = job[c].attempts + 1
               /\ Outcome(tx[w])
<1> DEFINE c == Current(w)
<1>t. TypeOK /\ TablesAgree /\ NarrowRetry /\ AtWork /\ Written
  BY DEF IInv
<1>1. /\ Busy(w) /\ pc[w] = "commit"
      /\ job' = [job EXCEPT ![c] = tx[w].job]
      /\ catch' = [catch EXCEPT ![c] = tx[w].catch]
  BY DEF Commit, Busy
<1>2. /\ batch[w] # <<>> /\ job[c].status = "PENDING" /\ Outcome(tx[w])
      /\ tx[w].job.attempts = job[c].attempts + 1
  BY <1>1, <1>t DEF AtWork, Written
<1>3. c \in Catches
  BY <1>2, <1>t, HeadTail DEF TypeOK
<1>4. catch[c] = "PENDING" /\ job[c].attempts < MaxAttempts /\ job[c].attempts \in Nat
  BY <1>2, <1>3, <1>t DEF TablesAgree, NarrowRetry, TypeOK, Job
<1> QED BY <1>1, <1>2, <1>3, <1>4

(* A settled catch stays settled, and a try that changes a job is counted. *)
THEOREM SettledStays == Spec => SettledForGood
<1> DEFINE Stays ==
      \A c \in Catches :
         /\ job[c].status \in {"BOUND", "FAILED"} => UNCHANGED <<job[c], catch[c]>>
         /\ job[c].status = "PENDING" /\ <<job'[c].status, job'[c].class>>
                                            # <<job[c].status, job[c].class>> =>
              job'[c].attempts = job[c].attempts + 1
<1>1. ASSUME IInv, [Next]_vars
      PROVE  Stays
  <2>t. TypeOK /\ TablesAgree
    BY <1>1 DEF IInv
  <2>1. Steady => Stays
    BY DEF Steady
  <2>2. ASSUME NEW c \in Catches, CreateCatch(c)
        PROVE  Stays
    <3>1. job[c].status = "NONE"
      BY <2>2, <2>t DEF CreateCatch, TypeOK, TablesAgree, Job, JobStatus
    <3> QED BY <2>2, <3>1, <2>t DEF CreateCatch, TypeOK
  <2>3. ASSUME NEW w \in Workers, Commit(w)
        PROVE  Stays
    <3> SUFFICES ASSUME NEW c \in Catches
                 PROVE  /\ job[c].status \in {"BOUND", "FAILED"} =>
                             job'[c] = job[c] /\ catch'[c] = catch[c]
                        /\ job[c].status = "PENDING" /\ <<job'[c].status, job'[c].class>>
                                            # <<job[c].status, job[c].class>> =>
                             job'[c].attempts = job[c].attempts + 1
      OBVIOUS
    <3>1. c # Current(w) => job'[c] = job[c] /\ catch'[c] = catch[c]
      BY <1>1, <2>3, <2>t, CommitSteps DEF TypeOK
    <3>2. c = Current(w) => /\ job[c].status = "PENDING"
                            /\ job'[c].attempts = job[c].attempts + 1
      BY <1>1, <2>3, <2>t, CommitSteps DEF TypeOK
    <3> QED BY <3>1, <3>2
  <2> QED BY <1>1, <2>1, <2>2, <2>3, TableSteps
<1>2. Stays <=>
      \A c \in Catches :
         /\ job[c].status \in {"BOUND", "FAILED"} => UNCHANGED <<job[c], catch[c]>>
         /\ job[c].status = "PENDING" /\ <<job'[c].status, job'[c].class>>
                                            # <<job[c].status, job[c].class>> =>
              job'[c].attempts = job[c].attempts + 1
  OBVIOUS
<1> HIDE DEF Stays
<1> QED BY <1>1, <1>2, Invariance, PTL DEF Spec, SettledForGood

-----------------------------------------------------------------------------
(* Initially no catch is bound or tried.                                   *)
LEMMA BindingInit == Init => Abstract!Init
BY DEF Init, Abstract!Init, Binding, NoJob

(* The worker and CreateCatch implement HydroBinding: a catch is tried at  *)
(* most MaxAttempts times and then settled for good.                       *)
THEOREM HydroJobsImplementsBinding == Spec => ImplementsBinding
<1>1. ASSUME IInv, [Next]_vars
      PROVE  [Abstract!Next]_Binding
  <2>t. TypeOK /\ TablesAgree /\ NarrowRetry /\ Fresh
    BY <1>1 DEF IInv
  <2>1. Steady => UNCHANGED Binding
    BY DEF Steady, Binding
  <2>2. ASSUME NEW c \in Catches, CreateCatch(c)
        PROVE  Abstract!Next
    <3>1. job[c].status = "NONE" /\ job[c].attempts = 0 /\ catch[c] = "ABSENT"
      BY <2>2, <2>t DEF CreateCatch, TypeOK, TablesAgree, Job, JobStatus, Fresh
    <3>2. job'[c].attempts = 0 /\ catch'[c] = "PENDING"
          /\ \A d \in Catches \ {c} : job'[d] = job[d] /\ catch'[d] = catch[d]
      BY <2>2, <2>t DEF CreateCatch, NoJob, TypeOK
    <3>3. Abstract!Submit(c)
      BY <3>1, <3>2 DEF Abstract!Submit, Binding
    <3> QED BY <3>3 DEF Abstract!Next, Abstract!Submit
  <2>3. ASSUME NEW w \in Workers, Commit(w)
        PROVE  Abstract!Next
    <3> DEFINE c == Current(w)
    <3>1. /\ c \in Catches
          /\ job[c].status = "PENDING" /\ catch[c] = "PENDING"
          /\ job[c].attempts < MaxAttempts /\ job[c].attempts \in Nat
          /\ tx[w].job.attempts = job[c].attempts + 1
          /\ Outcome(tx[w])
      BY <1>1, <2>3, CommitSteps
    <3>2. job'[c] = tx[w].job /\ catch'[c] = tx[w].catch
          /\ \A d \in Catches \ {c} : job'[d] = job[d] /\ catch'[d] = catch[d]
      BY <1>1, <2>3, <2>t, CommitSteps DEF TypeOK
    <3> HIDE DEF c
    <3>3. CASE tx[w].catch = "PENDING"
      <4>1. job[c].attempts + 1 < MaxAttempts
        BY <3>1, <3>3 DEF Outcome
      <4>2. Abstract!Try(c)
        BY <3>1, <3>2, <3>3, <4>1 DEF Abstract!Try, Binding
      <4> QED BY <3>1, <4>2 DEF Abstract!Next, Abstract!Try
    <3>4. CASE tx[w].catch \in {"BOUND", "FAILED"}
      <4>1. Abstract!Settle(c, tx[w].catch)
        BY <3>1, <3>2 DEF Abstract!Settle, Binding
      <4> QED BY <3>1, <3>4, <4>1 DEF Abstract!Next, Abstract!Settled, Abstract!Settle
    <3> QED BY <3>1, <3>3, <3>4 DEF Outcome
  <2> QED BY <1>1, <2>1, <2>2, <2>3, TableSteps
<1> QED BY <1>1, BindingInit, Invariance, PTL DEF Spec, ImplementsBinding, Abstract!Spec

-----------------------------------------------------------------------------
(* The ids of a batch differ, as the rows of the query do.                 *)
Distinct ==
    \A w \in Workers : \A i, j \in 1 .. Len(batch[w]) : i # j => batch[w][i] # batch[w][j]

(* What remains of a batch are its elements but the first.                 *)
LEMMA TailElements ==
    ASSUME NEW S, NEW q \in Seq(S), q # <<>>
    PROVE  /\ Len(Tail(q)) = Len(q) - 1 /\ Len(q) \in Nat /\ Len(q) >= 1
           /\ \A i \in 1 .. Len(Tail(q)) : i + 1 \in 1 .. Len(q) /\ Tail(q)[i] = q[i + 1]
           /\ Head(q) = q[1]
OBVIOUS

(* What remains of a batch without repetition has none and lacks the job   *)
(* that has been worked off.                                               *)
LEMMA DistinctTail ==
    ASSUME NEW S, NEW q \in Seq(S), q # <<>>,
           \A i, j \in 1 .. Len(q) : i # j => q[i] # q[j]
    PROVE  /\ \A i, j \in 1 .. Len(Tail(q)) : i # j => Tail(q)[i] # Tail(q)[j]
           /\ \A i \in 1 .. Len(Tail(q)) : Tail(q)[i] # Head(q) /\ \E k \in 1 .. Len(q) : Tail(q)[i] = q[k]
BY TailElements

(* No step puts a job into a batch twice.                                  *)
LEMMA DistinctStep == IInv /\ Distinct /\ [Next]_vars => Distinct'
<1> SUFFICES ASSUME IInv, Distinct, [Next]_vars PROVE Distinct'
  OBVIOUS
<1>t. TypeOK /\ AtWork
  BY DEF IInv
<1>1. UNCHANGED batch => Distinct'
  BY DEF Distinct
<1>2. ASSUME NEW w \in Workers, batch[w] # <<>>, batch' = [batch EXCEPT ![w] = Tail(batch[w])]
      PROVE  Distinct'
  <2>1. batch[w] \in Seq(Catches) /\ batch'[w] = Tail(batch[w])
        /\ \A v \in Workers \ {w} : batch'[v] = batch[v]
    BY <1>2, <1>t DEF TypeOK
  <2>2. \A i, j \in 1 .. Len(batch'[w]) : i # j => batch'[w][i] # batch'[w][j]
    <3>1. \A i, j \in 1 .. Len(batch[w]) : i # j => batch[w][i] # batch[w][j]
      BY DEF Distinct
    <3>2. \A i, j \in 1 .. Len(Tail(batch[w])) : i # j => Tail(batch[w])[i] # Tail(batch[w])[j]
      <4> DEFINE q == batch[w]
      <4>1. q \in Seq(Catches) /\ q # <<>> /\ \A i, j \in 1 .. Len(q) : i # j => q[i] # q[j]
        BY <1>2, <2>1, <3>1
      <4> HIDE DEF q
      <4>2. \A i, j \in 1 .. Len(Tail(q)) : i # j => Tail(q)[i] # Tail(q)[j]
        BY <4>1, DistinctTail
      <4> QED  BY <4>2 DEF q
    <3> QED  BY <2>1, <3>2
  <2>3. ASSUME NEW v \in Workers, v # w
        PROVE  \A i, j \in 1 .. Len(batch'[v]) : i # j => batch'[v][i] # batch'[v][j]
    <3>1. batch'[v] = batch[v]
      BY <2>1, <2>3
    <3> QED BY <3>1 DEF Distinct
  <2>4. \A v \in Workers : \A i, j \in 1 .. Len(batch'[v]) : i # j => batch'[v][i] # batch'[v][j]
    BY <2>2, <2>3
  <2> QED BY <2>4 DEF Distinct
<1>3. ASSUME NEW w \in Workers, SelectDue(w)
      PROVE  Distinct'
  <2>1. PICK q \in Selections : batch' = [batch EXCEPT ![w] = q]
    BY <1>3 DEF SelectDue
  <2>2. batch'[w] = q /\ \A v \in Workers \ {w} : batch'[v] = batch[v]
    BY <2>1, <1>t DEF TypeOK
  <2> QED BY <2>2, SelectionsType DEF Distinct
<1>4. ASSUME NEW w \in Workers, Crash(w)
      PROVE  Distinct'
  <2>1. batch'[w] = <<>> /\ \A v \in Workers \ {w} : batch'[v] = batch[v]
    BY <1>4, <1>t DEF Crash, TypeOK
  <2> QED BY <2>1 DEF Distinct
<1>5. ASSUME NEW w \in Workers,
             SkipSettled(w) \/ RefusedUnstorably(w) \/ LoseTx(w) \/ Commit(w)
      PROVE  batch[w] # <<>> /\ batch' = [batch EXCEPT ![w] = Tail(batch[w])]
  BY <1>5, <1>t DEF SkipSettled, RefusedUnstorably, LoseTx, Commit, NextJob, AtWork, Busy
<1>6. ASSUME NEW w \in Workers, Start(w) \/ Take(w) \/ Retro(w)
      PROVE  UNCHANGED batch
  BY <1>6 DEF Start, Take, Retro, Bind, FailOrRetry
<1> QED BY <1>1, <1>2, <1>3, <1>4, <1>5, <1>6 DEF Next, Work, CreateCatch, Second, vars

(* A server that is alone after a step was alone before it, and the step   *)
(* of a worker was its own.                                                *)
LEMMA LoneStep ==
    ASSUME TypeOK, NEW w \in Workers, Lone(w)', [Next]_vars
    PROVE  /\ Lone(w)
           /\ \A v \in Workers : Work(v) \/ LoseTx(v) \/ Crash(v) => v = w
<1>1. \A v \in Workers : Start(v) => pc'[v] = "idle"
  BY DEF Start, TypeOK
<1>2. \A v \in Workers : SelectDue(v) \/ Take(v) \/ SkipSettled(v) \/ Retro(v)
                           \/ RefusedUnstorably(v) \/ Commit(v) \/ LoseTx(v) => pc'[v] # "down"
  BY DEF SelectDue, Take, SkipSettled, Retro, Bind, FailOrRetry, RefusedUnstorably, Commit,
         LoseTx, NextJob, TypeOK
<1>3. \A v \in Workers : Crash(v) => faults' # 0
  BY DEF Crash, TypeOK
<1>4. \A v \in Workers : Work(v) \/ LoseTx(v) \/ Crash(v) => v = w
  BY <1>1, <1>2, <1>3 DEF Lone, Work
<1>5. ASSUME NEW v \in Workers \ {w}
      PROVE  pc[v] = "down" /\ faults = 0
  <2>1. pc'[v] = "down" /\ faults' = 0
    BY DEF Lone
  <2>2. CASE UNCHANGED vars \/ Second \/ \E c \in Catches : CreateCatch(c)
    BY <2>1, <2>2 DEF vars, Second, CreateCatch
  <2>3. CASE Work(w) \/ LoseTx(w) \/ Crash(w)
    <3>1. pc'[v] = pc[v]
      BY <2>3 DEF Work, Start, SelectDue, Take, SkipSettled, Retro, Bind, FailOrRetry,
                  RefusedUnstorably, Commit, LoseTx, Crash, NextJob, TypeOK
    <3>2. faults' = faults \/ faults' = faults + 1
      BY <2>3 DEF Work, Start, SelectDue, Take, SkipSettled, Retro, Bind, FailOrRetry,
                  RefusedUnstorably, Commit, LoseTx, Crash
    <3> QED BY <2>1, <3>1, <3>2 DEF TypeOK
  <2> QED BY <2>2, <2>3, <1>4 DEF Next
<1> QED BY <1>4, <1>5 DEF Lone

(* Only the commit of the job at hand moves a due time into the future,    *)
(* and that job is no longer in the batch.                                 *)
LEMMA BackoffStep == IInv /\ Distinct /\ BackoffKept /\ [Next]_vars => BackoffKept'
<1> SUFFICES ASSUME IInv, Distinct, BackoffKept, [Next]_vars,
                    NEW w \in Workers, Lone(w)'
             PROVE  BatchIsDue(w)'
  BY DEF BackoffKept
<1>t. TypeOK /\ AtWork /\ RunningNeverCommitted /\ TablesAgree
  BY DEF IInv
<1>e. \A i \in 1 .. Len(batch[w]) : batch[w][i] \in Catches
  BY <1>t DEF TypeOK
<1>l. Lone(w) /\ \A v \in Workers : Work(v) \/ LoseTx(v) \/ Crash(v) => v = w
  BY <1>t, LoneStep
<1>k. BatchIsDue(w)
  BY <1>l DEF BackoffKept
<1>1. UNCHANGED <<job, batch>> => BatchIsDue(w)'
  BY <1>k DEF BatchIsDue, Open
<1>2. ASSUME NEW c \in Catches, CreateCatch(c)
      PROVE  BatchIsDue(w)'
  <2>1. job'[c].due <= 0 /\ (\A d \in Catches \ {c} : job'[d] = job[d]) /\ batch' = batch
    BY <1>2, <1>t DEF CreateCatch, NoJob, TypeOK
  <2> QED BY <2>1, <1>e, <1>k DEF BatchIsDue, Open
<1>3. ASSUME Start(w)
      PROVE  BatchIsDue(w)'
  <2>1. \A c \in Catches : job'[c] = job[c]
    BY <1>3, <1>t DEF Start, RunningNeverCommitted
  <2>2. batch' = batch
    BY <1>3 DEF Start
  <2> QED BY <2>1, <2>2, <1>e, <1>k DEF BatchIsDue, Open
<1>4. ASSUME SelectDue(w)
      PROVE  BatchIsDue(w)'
  <2>1. PICK q \in Selections : batch' = [batch EXCEPT ![w] = q]
    BY <1>4 DEF SelectDue
  <2>2. job' = job /\ batch'[w] = q
    BY <1>4, <2>1, <1>t DEF SelectDue, TypeOK
  <2>3. \A i \in 1 .. Len(q) : job[q[i]].due <= 0
    BY SelectionsType DEF DueJobs
  <2> QED BY <2>2, <2>3 DEF BatchIsDue, Open
<1>5. ASSUME batch[w] # <<>>, batch' = [batch EXCEPT ![w] = Tail(batch[w])],
             \A d \in Catches \ {Current(w)} : job'[d] = job[d]
      PROVE  BatchIsDue(w)'
  <2>1. batch[w] \in Seq(Catches) /\ batch'[w] = Tail(batch[w])
    BY <1>5, <1>t DEF TypeOK
  <2>2. \A i, j \in 1 .. Len(batch[w]) : i # j => batch[w][i] # batch[w][j]
    BY DEF Distinct
  <2>3. ASSUME NEW i \in 1 .. Len(Tail(batch[w]))
        PROVE  \E k \in 1 .. Len(batch[w]) : /\ batch'[w][i] = batch[w][k]
                                             /\ job'[batch[w][k]] = job[batch[w][k]]
    <3>1. PICK k \in 1 .. Len(batch[w]) : Tail(batch[w])[i] = batch[w][k]
      BY <2>1, <2>2, <1>5, DistinctTail
    <3>2. batch[w][k] # Current(w)
      BY <3>1, <2>1, <2>2, <1>5, DistinctTail
    <3> QED BY <3>1, <3>2, <2>1, <1>5, <1>e
  <2>4. ASSUME NEW i \in 1 .. Len(batch'[w]),
               job'[batch'[w][i]].status \in {"PENDING", "RUNNING"}
        PROVE  job'[batch'[w][i]].due <= 0
    <3>1. PICK k \in 1 .. Len(batch[w]) : /\ batch'[w][i] = batch[w][k]
                                           /\ job'[batch[w][k]] = job[batch[w][k]]
      BY <2>1, <2>3, <2>4
    <3> QED BY <3>1, <2>4, <1>k DEF BatchIsDue, Open
  <2> QED BY <2>1, <2>4 DEF BatchIsDue, Open
<1>6. ASSUME SkipSettled(w) \/ RefusedUnstorably(w) \/ LoseTx(w) \/ Commit(w)
      PROVE  /\ batch[w] # <<>> /\ batch' = [batch EXCEPT ![w] = Tail(batch[w])]
             /\ \A d \in Catches \ {Current(w)} : job'[d] = job[d]
  BY <1>6, <1>t DEF SkipSettled, RefusedUnstorably, LoseTx, Commit, NextJob, AtWork, Busy, TypeOK
<1>7. ASSUME Take(w) \/ Retro(w)
      PROVE  UNCHANGED <<job, batch>>
  BY <1>7 DEF Take, Retro, Bind, FailOrRetry
<1>8. ASSUME Crash(w)
      PROVE  BatchIsDue(w)'
  <2>1. batch'[w] = <<>>
    BY <1>8, <1>t DEF Crash, TypeOK
  <2> QED BY <2>1 DEF BatchIsDue
<1>9. CASE Second
  <2>1. \A c \in Catches : job'[c].status = job[c].status /\ job'[c].due <= job[c].due
                           /\ job[c].due \in Int /\ job'[c].due \in Int
    BY <1>9, <1>t, BoundsAssumption DEF Second, Later, TypeOK, Job
  <2>2. batch' = batch
    BY <1>9 DEF Second
  <2> QED BY <2>1, <2>2, <1>e, <1>k DEF BatchIsDue, Open
<1>10. Work(w) \/ LoseTx(w) \/ Crash(w) => BatchIsDue(w)'
  BY <1>1, <1>3, <1>4, <1>5, <1>6, <1>7, <1>8 DEF Work
<1>11. CASE UNCHANGED vars
  BY <1>11, <1>1 DEF vars
<1> QED BY <1>2, <1>9, <1>10, <1>11, <1>l DEF Next

(* While one server is alone, no attempt starts before its backoff is      *)
(* over, however old the batch is it was selected in.                      *)
LEMMA BackoffAlwaysKept == Spec => []BackoffKept
<1>1. Init => Distinct /\ BackoffKept
  BY DEF Init, Distinct, BackoffKept, BatchIsDue
<1> QED BY <1>1, Invariance, DistinctStep, BackoffStep, PTL DEF Spec

(* Both together: retries are few, for transient failures only, and, while *)
(* a server is alone, never early.                                         *)
THEOREM RetriesAlwaysKept == Spec => []RetriesKept
BY RetriesAreNarrow, BackoffAlwaysKept, PTL DEF RetriesKept
-----------------------------------------------------------------------------
(* What EverySettles rests on, as far as single steps go: nobody waits in  *)
(* a circle for a job's row, no backoff is long, and no attempt is free.   *)

(* A job's row is locked by a worker that is at work on that very job.     *)
RowsInUse ==
    \A c \in Catches : rowLock[c] # NoWorker =>
        rowLock[c] \in Workers /\ Busy(rowLock[c]) /\ Current(rowLock[c]) = c

(* Every step keeps it: the row is taken with the job and goes with it.    *)
LEMMA RowsStep == IInv /\ RowsInUse /\ [Next]_vars => RowsInUse'
<1> SUFFICES ASSUME IInv, RowsInUse, [Next]_vars PROVE RowsInUse'
  OBVIOUS
<1>t. TypeOK /\ AtWork
  BY DEF IInv
<1>1. CASE UNCHANGED <<rowLock, pc, batch>>
  BY <1>1 DEF RowsInUse, Busy
<1>2. ASSUME NEW w \in Workers, ~Busy(w), ~Busy(w)', rowLock' = rowLock,
             \A v \in Workers \ {w} : pc'[v] = pc[v] /\ batch'[v] = batch[v]
      PROVE  RowsInUse'
  <2>1. \A v \in Workers : Busy(v) => v # w /\ Busy(v)' /\ Current(v)' = Current(v)
    BY <1>2 DEF Busy
  <2> QED BY <1>2, <2>1 DEF RowsInUse
<1>3. ASSUME NEW w \in Workers, Start(w) \/ SelectDue(w) \/ SkipSettled(w)
      PROVE  RowsInUse'
  <2>1. /\ ~Busy(w) /\ ~Busy(w)' /\ rowLock' = rowLock
        /\ \A v \in Workers \ {w} : pc'[v] = pc[v] /\ batch'[v] = batch[v]
    BY <1>3, <1>t DEF Start, SelectDue, SkipSettled, Busy, TypeOK
  <2> QED BY <2>1, <1>2
<1>4. ASSUME NEW w \in Workers, Take(w)
      PROVE  RowsInUse'
  <2>1. /\ ~Busy(w) /\ Busy(w)' /\ Current(w)' = Current(w)
        /\ rowLock' = [rowLock EXCEPT ![Current(w)] = w]
        /\ \A v \in Workers \ {w} : pc'[v] = pc[v]
        /\ batch' = batch
    BY <1>4, <1>t DEF Take, Busy, TypeOK
  <2>2. \A v \in Workers : Busy(v) => Busy(v)' /\ Current(v)' = Current(v)
    BY <2>1 DEF Busy
  <2> QED BY <2>1, <2>2, <1>t DEF RowsInUse, TypeOK
<1>5. ASSUME NEW w \in Workers, Retro(w)
      PROVE  RowsInUse'
  <2>1. /\ pc' = [pc EXCEPT ![w] = "commit"] /\ UNCHANGED <<rowLock, batch>>
    BY <1>5 DEF Retro, Bind, FailOrRetry
  <2>2. \A v \in Workers : Busy(v) => Busy(v)' /\ Current(v)' = Current(v)
    BY <2>1, <1>t DEF Busy, TypeOK
  <2> QED BY <2>1, <2>2 DEF RowsInUse
<1>6. ASSUME NEW w \in Workers,
             \A c \in Catches : rowLock'[c] = IF rowLock[c] = w THEN NoWorker ELSE rowLock[c],
             \A v \in Workers \ {w} : pc'[v] = pc[v] /\ batch'[v] = batch[v]
      PROVE  RowsInUse'
  <2>1. \A v \in Workers \ {w} : Busy(v) => Busy(v)' /\ Current(v)' = Current(v)
    BY <1>6 DEF Busy
  <2> QED BY <1>6, <2>1 DEF RowsInUse
<1>7. ASSUME NEW w \in Workers, RefusedUnstorably(w) \/ Commit(w) \/ LoseTx(w)
      PROVE  RowsInUse'
  <2>1. NextJob(w) /\ Busy(w)
    BY <1>7 DEF RefusedUnstorably, Commit, LoseTx, Busy
  <2>2. \A c \in Catches : rowLock[c] = w <=> c = Current(w)
    BY <2>1, <1>t, NamesAssumption, HeadTail DEF AtWork, RowsInUse, TypeOK
  <2>3. /\ \A c \in Catches : rowLock'[c] = IF rowLock[c] = w THEN NoWorker ELSE rowLock[c]
        /\ \A v \in Workers \ {w} : pc'[v] = pc[v] /\ batch'[v] = batch[v]
    BY <2>1, <2>2, <1>t DEF NextJob, TypeOK
  <2> QED BY <2>3, <1>6
<1>8. ASSUME NEW w \in Workers, Crash(w)
      PROVE  RowsInUse'
  <2>1. /\ \A c \in Catches : rowLock'[c] = IF rowLock[c] = w THEN NoWorker ELSE rowLock[c]
        /\ \A v \in Workers \ {w} : pc'[v] = pc[v] /\ batch'[v] = batch[v]
    BY <1>8, <1>t DEF Crash, TypeOK
  <2> QED BY <2>1, <1>6
<1> QED
  BY <1>1, <1>3, <1>4, <1>5, <1>7, <1>8 DEF Next, Work, CreateCatch, Second, vars

(* A worker that waits for a job's row waits for one that is in the middle *)
(* of that job and holds no other row: workers cannot wait for each other  *)
(* in a circle, and the provider is never asked for one catch by two       *)
(* workers at a time.                                                      *)
THEOREM OneWorkerPerJob ==
    Spec => [](/\ RowsInUse
               /\ \A v, w \in Workers : Busy(v) /\ Busy(w) /\ v # w => Current(v) # Current(w)
               /\ \A c, d \in Catches :
                    rowLock[c] # NoWorker /\ rowLock[c] = rowLock[d] => c = d)
<1> DEFINE OnePerJob ==
      /\ RowsInUse
      /\ \A v, w \in Workers : Busy(v) /\ Busy(w) /\ v # w => Current(v) # Current(w)
      /\ \A c, d \in Catches :
           rowLock[c] # NoWorker /\ rowLock[c] = rowLock[d] => c = d
<1>1. Init => RowsInUse
  BY DEF Init, RowsInUse
<1>2. IInv /\ RowsInUse => OnePerJob
  BY DEF IInv, AtWork, RowsInUse
<1> QED BY <1>1, <1>2, RowsStep, Invariance, PTL DEF Spec

(* What a job has still to wait, and what a transaction will make it wait, *)
(* is at most the longest backoff.                                         *)
ShortWaits ==
    /\ \A c \in Catches : job[c].due <= 16
    /\ \A w \in Workers : tx[w].job.due <= IF tx[w].job.status = "RUNNING" THEN 0 ELSE 16

(* Every step keeps it.                                                    *)
LEMMA ShortStep == IInv /\ ShortWaits /\ [Next]_vars => ShortWaits'
<1> SUFFICES ASSUME IInv, ShortWaits, [Next]_vars PROVE ShortWaits'
  OBVIOUS
<1>t. TypeOK /\ AtWork /\ Written /\ RunningNeverCommitted
  BY DEF IInv
<1>0. NoWrite.job.due = 0 /\ NoWrite.job.status = "NONE" /\ NoJob.due = 0
  BY DEF NoWrite, NoJob
<1>1. UNCHANGED <<job, tx>> => ShortWaits'
  BY DEF ShortWaits
<1>2. ASSUME NEW c \in Catches, CreateCatch(c)
      PROVE  ShortWaits'
  <2>1. /\ [NoJob EXCEPT !.status = "PENDING"].due = 0
        /\ job' = [job EXCEPT ![c] = [NoJob EXCEPT !.status = "PENDING"]] /\ tx' = tx
    BY <1>2 DEF CreateCatch, NoJob
  <2> QED BY <2>1, <1>t DEF ShortWaits, TypeOK
<1>3. ASSUME NEW w \in Workers, Start(w)
      PROVE  ShortWaits'
  <2>1. tx' = tx /\ \A c \in Catches : job'[c] = job[c]
    BY <1>3, <1>t DEF Start, RunningNeverCommitted
  <2> QED BY <2>1 DEF ShortWaits
<1>4. ASSUME NEW w \in Workers, SelectDue(w) \/ SkipSettled(w)
      PROVE  ShortWaits'
  BY <1>4, <1>1 DEF SelectDue, SkipSettled
<1>5. ASSUME NEW w \in Workers, Take(w)
      PROVE  ShortWaits'
  <2>1. /\ tx'[w].job.due = 0 /\ job' = job
        /\ \A v \in Workers \ {w} : tx'[v] = tx[v]
    BY <1>5, <1>t DEF Take, TypeOK
  <2> QED BY <2>1 DEF ShortWaits
<1>6. ASSUME NEW w \in Workers, Retro(w)
      PROVE  ShortWaits'
  <2>1. /\ tx[w].job \in Job /\ tx[w].job.due <= 0 /\ tx[w].job.due \in Int
        /\ tx[w].job.attempts \in Nat
    BY <1>6, <1>t DEF Retro, Bind, FailOrRetry, TypeOK, Write, Job, Written, ShortWaits
  <2>2. RetryBackoff(tx[w].job.attempts) \in 0 .. 16
    BY <2>1 DEF RetryBackoff
  <2>3. job' = job /\ \A v \in Workers \ {w} : tx'[v] = tx[v]
    BY <1>6, <1>t DEF Retro, Bind, FailOrRetry, TypeOK
  <2>4. tx'[w].job.status # "RUNNING" /\ tx'[w].job.due <= 16
    <3>1. CASE Bind(w)
      BY <3>1, <2>1, <1>t DEF Bind, TypeOK, Job
    <3>2. ASSUME NEW class \in {"TRANSIENT", "PERMANENT"}, FailOrRetry(w, class)
          PROVE  tx'[w].job.status # "RUNNING" /\ tx'[w].job.due <= 16
      <4> DEFINE j == tx[w].job
                 b == RetryBackoff(j.attempts)
      <4>1. j.due + b \in Int /\ j.due + b <= 16
        BY <2>1, <2>2
      <4>2. \A s \in {"PENDING", "FAILED"}, d \in Int :
              Updated(j, s, class, d).status = s /\ Updated(j, s, class, d).due = d
        BY <2>1 DEF Updated, Job
      <4>3. tx'[w].job \in {Updated(j, "PENDING", class, j.due + b), Updated(j, "FAILED", class, 0)}
        BY <3>2, <1>t DEF FailOrRetry, Updated, TypeOK
      <4> HIDE DEF j, b
      <4> QED BY <4>1, <4>2, <4>3
    <3> QED BY <1>6, <3>1, <3>2 DEF Retro
  <2> QED BY <2>3, <2>4 DEF ShortWaits
<1>7. ASSUME NEW w \in Workers, RefusedUnstorably(w) \/ LoseTx(w) \/ Crash(w)
      PROVE  ShortWaits'
  <2>1. job' = job /\ tx' = [tx EXCEPT ![w] = NoWrite]
    BY <1>7 DEF RefusedUnstorably, LoseTx, Crash, NextJob
  <2> QED BY <2>1, <1>0, <1>t DEF ShortWaits, TypeOK
<1>8. ASSUME NEW w \in Workers, Commit(w)
      PROVE  ShortWaits'
  <2>1. job' = [job EXCEPT ![Current(w)] = tx[w].job] /\ tx' = [tx EXCEPT ![w] = NoWrite]
    BY <1>8 DEF Commit, NextJob
  <2>2. tx[w].job.due <= 16
    <3>1. tx[w].job.due \in Int
      BY <1>t DEF TypeOK, Write, Job
    <3>2. tx[w].job.due <= IF tx[w].job.status = "RUNNING" THEN 0 ELSE 16
      BY DEF ShortWaits
    <3> QED BY <3>1, <3>2
  <2> QED BY <2>1, <2>2, <1>0, <1>t DEF ShortWaits, TypeOK
<1>9. CASE Second
  <2>1. \A d \in Int : Later(d) \in Int /\ Later(d) <= d
    BY BoundsAssumption DEF Later
  <2>2. \A c \in Catches : job'[c].due \in Int /\ job'[c].due <= job[c].due /\ job[c].due \in Int
    BY <1>9, <1>t, <2>1 DEF Second, TypeOK, Job
  <2>3. ASSUME NEW w \in Workers
        PROVE  /\ tx'[w].job.due \in Int /\ tx'[w].job.due <= tx[w].job.due
               /\ tx[w].job.due \in Int /\ tx'[w].job.status = tx[w].job.status
    <3>1. tx[w] \in Write /\ tx[w].job \in Job
      BY <1>t DEF TypeOK, Write
    <3>2. CASE tx[w].job.status \in {"RUNNING", "PENDING"}
      <4>1. tx'[w] = [tx[w] EXCEPT !.job = [tx[w].job EXCEPT !.due = Later(tx[w].job.due)]]
        BY <1>9, <3>1, <3>2 DEF Second, Write, Job
      <4>2. tx'[w].job = [tx[w].job EXCEPT !.due = Later(tx[w].job.due)]
        BY <3>1, <4>1 DEF Write
      <4> QED BY <4>2, <3>1, <2>1 DEF Job
    <3>3. CASE tx[w].job.status \notin {"RUNNING", "PENDING"}
      BY <1>9, <3>1, <3>3 DEF Second, Job
    <3> QED BY <3>2, <3>3
  <2> QED BY <2>2, <2>3 DEF ShortWaits
<1>10. UNCHANGED vars => ShortWaits'
  BY <1>1 DEF vars
<1> QED
  BY <1>2, <1>3, <1>4, <1>5, <1>6, <1>7, <1>8, <1>9, <1>10 DEF Next, Work

(* Whatever fails, an open job is due again after sixteen seconds: the     *)
(* backoffs of several attempts never add up.                              *)
THEOREM DueAgainSoon == Spec => [](\A c \in Catches : job[c].due <= 16)
<1>1. Init => ShortWaits
  BY DEF Init, ShortWaits, NoJob, NoWrite
<1>2. ShortWaits => \A c \in Catches : job[c].due <= 16
  BY DEF ShortWaits
<1> QED BY <1>1, <1>2, ShortStep, Invariance, PTL DEF Spec

(* Attempts are never forgotten, and each time a worker is done with a job *)
(* the attempt is on record, unless a transaction was lost (which faults   *)
(* counts) or the refusal cannot be stored.  With RetriesKept this bounds  *)
(* how often the provider is asked about a catch, by MaxAttempts and the   *)
(* faults; the only way round the bound is the finding of hydro_refusals.  *)
THEOREM NoAttemptForNothing ==
    Spec => [][/\ \A c \in Catches : job'[c].attempts >= job[c].attempts
               /\ \A w \in Workers : Busy(w) /\ ~Busy(w)' =>
                    \/ job'[Current(w)].attempts = job[Current(w)].attempts + 1
                    \/ faults' = faults + 1
                    \/ Current(w) \in BadBodies]_vars
<1> DEFINE Grow == \A c \in Catches : job'[c].attempts >= job[c].attempts
           Recorded(w) == \/ job'[Current(w)].attempts = job[Current(w)].attempts + 1
                          \/ faults' = faults + 1
                          \/ Current(w) \in BadBodies
           OnRecord == \A w \in Workers : Busy(w) /\ ~Busy(w)' => Recorded(w)
<1>1. ASSUME IInv, [Next]_vars
      PROVE  Grow
  <2>t. TypeOK /\ TablesAgree /\ Fresh
    BY <1>1 DEF IInv
  <2>1. Steady => Grow
    BY <2>t DEF Steady, TypeOK, Job
  <2>2. ASSUME NEW c \in Catches, CreateCatch(c)
        PROVE  Grow
    <3>1. job[c].attempts = 0 /\ [NoJob EXCEPT !.status = "PENDING"].attempts = 0
      BY <2>2, <2>t DEF CreateCatch, TypeOK, TablesAgree, Job, JobStatus, Fresh, NoJob
    <3> QED BY <2>2, <3>1, <2>t DEF CreateCatch, TypeOK, Job
  <2>3. ASSUME NEW w \in Workers, Commit(w)
        PROVE  Grow
    <3>1. /\ Current(w) \in Catches /\ job[Current(w)].attempts \in Nat
          /\ job' = [job EXCEPT ![Current(w)] = tx[w].job]
          /\ tx[w].job.attempts = job[Current(w)].attempts + 1
      BY <1>1, <2>3, CommitSteps
    <3>2. \A c \in Catches : job[c].attempts \in Nat
      BY <2>t DEF TypeOK, Job
    <3>3. \A c \in Catches : job'[c] = IF c = Current(w) THEN tx[w].job ELSE job[c]
      BY <3>1, <2>t DEF TypeOK
    <3> QED BY <3>1, <3>2, <3>3
  <2> QED BY <1>1, <2>1, <2>2, <2>3, TableSteps
<1>2. ASSUME IInv, [Next]_vars, NEW w \in Workers, Busy(w), ~Busy(w)'
      PROVE  Recorded(w)
  <2>t. TypeOK
    BY <1>2 DEF IInv
  <2>1. ~(UNCHANGED pc)
    BY <1>2 DEF Busy
  <2>2. CASE Commit(w)
    BY <1>2, <2>2, <2>t, CommitSteps DEF TypeOK
  <2>3. CASE LoseTx(w) \/ Crash(w) \/ RefusedUnstorably(w)
    BY <2>3 DEF LoseTx, Crash, RefusedUnstorably
  <2>4. ~(Start(w) \/ SelectDue(w) \/ Take(w) \/ SkipSettled(w) \/ Retro(w))
    BY <1>2, <2>1, <2>t DEF Start, SelectDue, Take, SkipSettled, Retro, Bind, FailOrRetry, Busy, TypeOK
  <2>5. ASSUME NEW v \in Workers, v # w
        PROVE  ~(Work(v) \/ LoseTx(v) \/ Crash(v))
    BY <1>2, <2>5, <2>t DEF Work, Start, SelectDue, Take, SkipSettled, Retro, Bind, FailOrRetry,
       RefusedUnstorably, Commit, LoseTx, Crash, NextJob, Busy, TypeOK
  <2>6. ~(UNCHANGED vars) /\ ~Second /\ ~\E c \in Catches : CreateCatch(c)
    BY <2>1 DEF vars, Second, CreateCatch
  <2> QED BY <1>2, <2>2, <2>3, <2>4, <2>5, <2>6 DEF Next, Work
<1>3. ASSUME IInv, [Next]_vars
      PROVE  OnRecord
  BY <1>2, <1>3
<1> QED BY <1>1, <1>3, Invariance, PTL DEF Spec
=============================================================================
