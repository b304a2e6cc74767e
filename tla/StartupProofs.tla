---------------------------- MODULE StartupProofs ----------------------------
(***************************************************************************)
(* Theorems about Startup, for any number of servers and faults and any    *)
(* seed whose first row is unique.                                         *)
(***************************************************************************)
EXTENDS Startup, TLAPS

(* Whoever is inside Migrate holds the advisory lock, and leaves it by     *)
(* unlock only when the tables are there.                                  *)
LockHeld ==
    \A s \in Servers :
        /\ pc[s] \in {"read", "apply", "unlock", "abort"} => lock = s
        /\ pc[s] = "unlock" => schema

(* Only one server ever gets past the first INSERT, and what is there is   *)
(* what that one has inserted.                                             *)
Writing(s) == pc[s] = "seed" /\ next[s] > 1
OneWriter ==
    /\ \A s \in Servers :
          pc[s] \in {"open", "lock", "read", "apply", "unlock", "abort", "storage", "count"}
             => next[s] = 1
    /\ \A s, t \in Servers : Writing(s) /\ Writing(t) => s = t
    /\ \A s \in Servers : Writing(s) =>
          \A i \in 1 .. SeedRows : rows[i] = IF i < next[s] THEN 1 ELSE 0

IInv == TypeOK /\ LockHeld /\ TablesFirst /\ OneWriter /\ SeededOnce /\ SeedHasNoGaps

-----------------------------------------------------------------------------
LEMMA InitHolds == Init => IInv
<1> SUFFICES ASSUME Init PROVE IInv
  OBVIOUS
<1> USE RowsAssumption, BoundsAssumption DEF Init
<1>1. TypeOK
  <2>1. 1 \in 1 .. SeedRows + 1 /\ 0 \in 0 .. MaxTries /\ 0 \in 0 .. MaxFaults
    OBVIOUS
  <2>2. rows \in [1 .. SeedRows -> Nat]
    OBVIOUS
  <2> QED  BY <2>1, <2>2 DEF TypeOK, Places, At
<1>2. LockHeld /\ TablesFirst /\ OneWriter
  BY DEF LockHeld, TablesFirst, OneWriter, Writing
<1>3. SeededOnce /\ SeedHasNoGaps
  BY DEF SeededOnce, SeedHasNoGaps
<1> QED  BY <1>1, <1>2, <1>3 DEF IInv

(* The steps that touch neither the seed nor the schema.                   *)
LEMMA QuietSteps ==
    ASSUME IInv, TypeOK', UNCHANGED rows,
           NEW s \in Servers,
           \A t \in Servers \ {s} : pc'[t] = pc[t] /\ next'[t] = next[t],
           schema => schema',
           pc'[s] # "seed" \/ next'[s] = 1,
           pc'[s] \in {"open", "lock", "read", "apply", "unlock", "abort", "storage", "count"}
              => next'[s] = 1,
           pc'[s] \in {"storage", "count", "seed", "serve", "unlock"} => schema'
    PROVE  TablesFirst' /\ OneWriter' /\ SeededOnce' /\ SeedHasNoGaps'
<1> USE DEF IInv
<1>1. TablesFirst'
  BY DEF TablesFirst
<1>2. \A t \in Servers : Writing(t)' => t # s /\ Writing(t) /\ next'[t] = next[t]
  BY DEF Writing
<1>3. OneWriter'
  BY <1>2 DEF OneWriter
<1>4. SeededOnce' /\ SeedHasNoGaps'
  BY DEF SeededOnce, SeedHasNoGaps
<1> QED  BY <1>1, <1>3, <1>4

LEMMA TypesKept == TypeOK /\ [Next]_vars => TypeOK'
<1> SUFFICES ASSUME TypeOK, [Next]_vars PROVE TypeOK'
  OBVIOUS
<1> USE RowsAssumption, BoundsAssumption DEF TypeOK, Places, At, Goto, Fault, Fine, Held
<1>1. ASSUME NEW s \in Servers, Start(s) PROVE TypeOK'
  BY <1>1 DEF Start
<1>2. ASSUME NEW s \in Servers, Open(s) PROVE TypeOK'
  <2>1. tries[s] < MaxTries /\ tries[s] \in Nat
    BY <1>2 DEF Open
  <2>2. faults' \in 0 .. MaxFaults
    BY <1>2 DEF Open
  <2>3. CASE Goto(s, "lock") /\ Fine /\ UNCHANGED tries
    BY <1>2, <2>2, <2>3 DEF Open
  <2>4. CASE /\ tries' = [tries EXCEPT ![s] = @ + 1]
             /\ Goto(s, IF tries[s] + 1 < MaxTries THEN "open" ELSE "down")
    <3>1. tries[s] + 1 \in 0 .. MaxTries
      BY <2>1
    <3>2. tries' \in [Servers -> 0 .. MaxTries] /\ tries'[s] = tries[s] + 1
      BY <2>4, <3>1
    <3>3. pc' \in [Servers -> Places]
      BY <2>4
    <3>4. \A t \in Servers : pc'[t] = "open" => tries'[t] < MaxTries
      <4>1. pc'[s] = "open" => tries[s] + 1 < MaxTries
        BY <2>4
      <4>2. \A t \in Servers \ {s} : pc'[t] = pc[t] /\ tries'[t] = tries[t]
        BY <2>4
      <4> QED  BY <3>2, <4>1, <4>2
    <3> QED  BY <1>2, <2>2, <3>2, <3>3, <3>4 DEF Open
  <2> QED  BY <1>2, <2>3, <2>4 DEF Open
<1>3. ASSUME NEW s \in Servers, Lock(s) PROVE TypeOK'
  <2>1. pc' \in [Servers -> Places] /\ lock' \in Servers \cup {NoServer}
    BY <1>3 DEF Lock
  <2>2. faults' \in 0 .. MaxFaults
    BY <1>3 DEF Lock
  <2>3. \A t \in Servers : pc'[t] = "open" => pc[t] = "open"
    BY <1>3 DEF Lock
  <2> QED  BY <1>3, <2>1, <2>2, <2>3 DEF Lock
<1>4. ASSUME NEW s \in Servers, ReadFile(s) PROVE TypeOK'
  <2>1. pc' \in [Servers -> Places] /\ \A t \in Servers : pc'[t] = "open" => pc[t] = "open"
    BY <1>4 DEF ReadFile
  <2>2. faults' \in 0 .. MaxFaults
    BY <1>4 DEF ReadFile
  <2> QED  BY <1>4, <2>1, <2>2 DEF ReadFile
<1>5. ASSUME NEW s \in Servers, ApplyFile(s) PROVE TypeOK'
  <2>1. pc' \in [Servers -> Places]
    BY <1>5 DEF ApplyFile
  <2>4. schema' \in BOOLEAN
    BY <1>5 DEF ApplyFile
  <2>2. faults' \in 0 .. MaxFaults
    <3>1. Fine \/ Fault
      BY <1>5 DEF ApplyFile
    <3> QED  BY <3>1
  <2>3. \A t \in Servers : pc'[t] = "open" => pc[t] = "open"
    BY <1>5 DEF ApplyFile
  <2> QED  BY <1>5, <2>1, <2>2, <2>3, <2>4 DEF ApplyFile
<1>6. ASSUME NEW s \in Servers, Unlock(s) PROVE TypeOK'
  BY <1>6 DEF Unlock
<1>7. ASSUME NEW s \in Servers, OpenStorage(s) PROVE TypeOK'
  <2>1. pc' \in [Servers -> Places] /\ \A t \in Servers : pc'[t] = "open" => pc[t] = "open"
    BY <1>7 DEF OpenStorage
  <2>2. faults' \in 0 .. MaxFaults
    BY <1>7 DEF OpenStorage
  <2> QED  BY <1>7, <2>1, <2>2 DEF OpenStorage
<1>8. ASSUME NEW s \in Servers, CountHunters(s) PROVE TypeOK'
  <2>1. pc' \in [Servers -> Places] /\ \A t \in Servers : pc'[t] = "open" => pc[t] = "open"
    <3>1. \/ Goto(s, "serve")
          \/ Goto(s, "seed")
          \/ Goto(s, "down")
      BY <1>8 DEF CountHunters
    <3> QED  BY <3>1
  <2>2. faults' \in 0 .. MaxFaults
    <3>1. Fine \/ Fault
      BY <1>8 DEF CountHunters
    <3> QED  BY <3>1
  <2> QED  BY <1>8, <2>1, <2>2 DEF CountHunters
<1>9. ASSUME NEW s \in Servers, Insert(s) PROVE TypeOK'
  <2>1. next[s] \in 1 .. SeedRows /\ next[s] + 1 \in 1 .. SeedRows + 1
    BY <1>9 DEF Insert
  <2>2. /\ rows' = rows \/ rows' = [rows EXCEPT ![next[s]] = @ + 1]
        /\ next' = next \/ next' = [next EXCEPT ![s] = next[s] + 1]
        /\ pc' = pc \/ pc' = [pc EXCEPT ![s] = "down"]
        /\ faults' \in 0 .. MaxFaults
    BY <1>9 DEF Insert
  <2>3. rows' \in [1 .. SeedRows -> Nat]
    <3>1. rows[next[s]] + 1 \in Nat
      BY <2>1
    <3> QED  BY <2>2, <3>1
  <2>5. next' \in [Servers -> 1 .. SeedRows + 1]
    BY <2>1, <2>2
  <2>4. pc' \in [Servers -> Places] /\ \A t \in Servers : pc'[t] = "open" => pc[t] = "open"
    BY <2>2
  <2> QED  BY <1>9, <2>2, <2>3, <2>4, <2>5 DEF Insert
<1>10. ASSUME NEW s \in Servers, Serve(s) PROVE TypeOK'
  BY <1>10 DEF Serve
<1>11. ASSUME NEW s \in Servers, Kill(s) PROVE TypeOK'
  <2>1. pc' \in [Servers -> Places] /\ schema' \in BOOLEAN
    BY <1>11 DEF Kill
  <2>2. lock' \in Servers \cup {NoServer} /\ faults' \in 0 .. MaxFaults
    BY <1>11 DEF Kill
  <2>3. \A t \in Servers : pc'[t] = "open" => pc[t] = "open"
    BY <1>11 DEF Kill
  <2> QED  BY <1>11, <2>1, <2>2, <2>3 DEF Kill
<1>12. ASSUME UNCHANGED vars PROVE TypeOK'
  BY <1>12 DEF vars
<1> QED
  BY <1>1, <1>2, <1>3, <1>4, <1>5, <1>6, <1>7, <1>8, <1>9, <1>10, <1>11, <1>12
     DEF Next, Step

LEMMA LockKept == TypeOK /\ LockHeld /\ [Next]_vars => LockHeld'
<1> SUFFICES ASSUME TypeOK, LockHeld, [Next]_vars PROVE LockHeld'
  OBVIOUS
<1> USE NoServerAssumption DEF TypeOK, LockHeld, At, Goto, Held
<1>1. ASSUME NEW s \in Servers, Start(s) PROVE LockHeld'
  BY <1>1 DEF Start
<1>2. ASSUME NEW s \in Servers, Open(s) PROVE LockHeld'
  BY <1>2 DEF Open
<1>3. ASSUME NEW s \in Servers, Lock(s) PROVE LockHeld'
  BY <1>3 DEF Lock
<1>4. ASSUME NEW s \in Servers, ReadFile(s) PROVE LockHeld'
  BY <1>4 DEF ReadFile
<1>5. ASSUME NEW s \in Servers, ApplyFile(s) PROVE LockHeld'
  BY <1>5 DEF ApplyFile
<1>6. ASSUME NEW s \in Servers, Unlock(s) PROVE LockHeld'
  BY <1>6 DEF Unlock
<1>7. ASSUME NEW s \in Servers, OpenStorage(s) PROVE LockHeld'
  BY <1>7 DEF OpenStorage
<1>8. ASSUME NEW s \in Servers, CountHunters(s) PROVE LockHeld'
  BY <1>8 DEF CountHunters
<1>9. ASSUME NEW s \in Servers, Insert(s) PROVE LockHeld'
  BY <1>9 DEF Insert
<1>10. ASSUME NEW s \in Servers, Serve(s) PROVE LockHeld'
  BY <1>10 DEF Serve
<1>11. ASSUME NEW s \in Servers, Kill(s) PROVE LockHeld'
  BY <1>11 DEF Kill
<1>12. ASSUME UNCHANGED vars PROVE LockHeld'
  BY <1>12 DEF vars
<1> QED
  BY <1>1, <1>2, <1>3, <1>4, <1>5, <1>6, <1>7, <1>8, <1>9, <1>10, <1>11, <1>12
     DEF Next, Step

-----------------------------------------------------------------------------
(* One INSERT of the seed.                                                 *)
LEMMA InsertKeeps ==
    ASSUME IInv, TypeOK', NEW s \in Servers, Insert(s)
    PROVE  TablesFirst' /\ OneWriter' /\ SeededOnce' /\ SeedHasNoGaps'
<1> DEFINE i == next[s]
<1> USE RowsAssumption DEF At, Goto
<1>1. /\ pc[s] = "seed" /\ i \in 1 .. SeedRows
      /\ schema' = schema
      /\ \A t \in Servers \ {s} : pc'[t] = pc[t] /\ next'[t] = next[t]
  <2>1. next[s] \in 1 .. SeedRows + 1 /\ pc \in [Servers -> Places]
        /\ next \in [Servers -> 1 .. SeedRows + 1]
    BY DEF IInv, TypeOK
  <2>2. pc[s] = "seed" /\ next[s] <= SeedRows /\ schema' = schema
    BY DEF Insert
  <2>3. i \in 1 .. SeedRows
    BY <2>1, <2>2
  <2>4. pc' = pc \/ pc' = [pc EXCEPT ![s] = "down"]
    BY DEF Insert
  <2>5. next' = next \/ next' = [next EXCEPT ![s] = next[s] + 1]
    BY DEF Insert
  <2>6. \A t \in Servers \ {s} : pc'[t] = pc[t]
    BY <2>1, <2>4
  <2>7. \A t \in Servers \ {s} : next'[t] = next[t]
    BY <2>1, <2>5
  <2> QED  BY <2>2, <2>3, <2>6, <2>7
<1>2. rows \in [1 .. SeedRows -> Nat] /\ pc \in [Servers -> Places]
      /\ next \in [Servers -> 1 .. SeedRows + 1]
  BY DEF IInv, TypeOK
<1>3. TablesFirst'
  <2>1. pc'[s] \in {"seed", "down"} /\ schema
    BY <1>1, <1>2 DEF Insert, IInv, TablesFirst
  <2> QED  BY <1>1, <2>1 DEF IInv, TablesFirst
<1>4. CASE rows' = rows /\ pc'[s] = "down"
  <2>1. \A t \in Servers : Writing(t)' => t # s /\ Writing(t) /\ next'[t] = next[t]
    BY <1>1, <1>4 DEF Writing
  <2>2. OneWriter'
    BY <1>1, <1>4, <2>1 DEF OneWriter, IInv
  <2>3. SeededOnce' /\ SeedHasNoGaps'
    BY <1>4 DEF SeededOnce, SeedHasNoGaps, IInv
  <2> QED  BY <1>3, <2>2, <2>3
<1>5. CASE /\ ~Refused(i) /\ rows' = [rows EXCEPT ![i] = @ + 1]
           /\ pc'[s] = "down" \/ (pc'[s] = "seed" /\ next'[s] = i + 1)
  (* With the first row still missing, nothing is there; else s writes.    *)
  <2>1. \A j \in 1 .. SeedRows : rows[j] = IF j < i THEN 1 ELSE 0
    <3>1. CASE i > 1
      BY <1>1, <3>1 DEF Writing, OneWriter, IInv
    <3>2. CASE i = 1
      <4>1. rows[1] = 0
        BY <1>1, <1>2, <1>5, <3>2 DEF Refused
      <4>2. \A j \in 1 .. SeedRows : rows[j] > 0 => \A k \in 1 .. j - 1 : rows[k] > 0
        BY DEF SeedHasNoGaps, IInv
      <4>3. \A j \in 1 .. SeedRows : j > 1 => 1 \in 1 .. j - 1
        OBVIOUS
      <4>4. \A j \in 1 .. SeedRows : ~(rows[j] > 0)
        BY <4>1, <4>2, <4>3
      <4> QED  BY <1>2, <3>2, <4>4
    <3> QED  BY <1>1, <3>1, <3>2
  <2>2. \A t \in Servers \ {s} : ~Writing(t)
    <3> SUFFICES ASSUME NEW t \in Servers \ {s}, Writing(t) PROVE FALSE
      OBVIOUS
    <3>1. next[t] \in Int /\ next[t] > 1
      BY <1>2 DEF Writing
    <3>2. rows[1] = 1
      <4>1. 1 \in 1 .. SeedRows
        OBVIOUS
      <4> QED  BY <3>1, <4>1 DEF OneWriter, IInv
    <3>3. i > 1
      BY <1>1, <2>1, <3>2
    <3>4. Writing(s)
      BY <1>1, <3>3 DEF Writing
    <3> QED  BY <3>4 DEF OneWriter, IInv
  <2>3. \A j \in 1 .. SeedRows : rows'[j] = IF j < i + 1 THEN 1 ELSE 0
    BY <1>1, <1>2, <1>5, <2>1
  <2>4. OneWriter'
    <3>1. \A t \in Servers : Writing(t)' => t = s
      BY <1>1, <2>2 DEF Writing
    <3>2. Writing(s)' => next'[s] = i + 1
      BY <1>5 DEF Writing
    <3>3. \A t \in Servers :
             pc'[t] \in {"open", "lock", "read", "apply", "unlock", "abort", "storage", "count"}
               => next'[t] = 1
      BY <1>1, <1>5 DEF OneWriter, IInv
    <3> QED  BY <2>3, <3>1, <3>2, <3>3 DEF OneWriter
  <2>5. SeededOnce'
    BY <2>3 DEF SeededOnce
  <2>6. SeedHasNoGaps'
    BY <1>1, <2>3 DEF SeedHasNoGaps
  <2> QED  BY <1>3, <2>4, <2>5, <2>6
<1> QED  BY <1>1, <1>2, <1>4, <1>5 DEF Insert

(* The seed and the schema, action by action.                              *)
LEMMA SeedKept ==
    IInv /\ TypeOK' /\ [Next]_vars => TablesFirst' /\ OneWriter' /\ SeededOnce' /\ SeedHasNoGaps'
<1> DEFINE Good == TablesFirst' /\ OneWriter' /\ SeededOnce' /\ SeedHasNoGaps'
<1> SUFFICES ASSUME IInv, TypeOK', [Next]_vars PROVE Good
  OBVIOUS
<1>t. pc \in [Servers -> Places] /\ next \in [Servers -> 1 .. SeedRows + 1]
  BY DEF IInv, TypeOK
<1>f. \A s \in Servers :
         pc[s] \in {"open", "lock", "read", "apply", "unlock", "abort", "storage", "count"}
           => next[s] = 1
  BY DEF IInv, OneWriter
<1>s. \A s \in Servers : pc[s] \in {"unlock", "storage", "count", "seed", "serve"} => schema
  BY DEF IInv, TablesFirst, LockHeld
<1> USE DEF At, Goto
<1>1. ASSUME NEW s \in Servers, Start(s) PROVE Good
  BY <1>1, <1>t, QuietSteps DEF Start
<1>2. ASSUME NEW s \in Servers, Open(s) PROVE Good
  BY <1>2, <1>t, <1>f, QuietSteps DEF Open
<1>3. ASSUME NEW s \in Servers, Lock(s) PROVE Good
  BY <1>3, <1>t, <1>f, QuietSteps DEF Lock
<1>4. ASSUME NEW s \in Servers, ReadFile(s) PROVE Good
  BY <1>4, <1>t, <1>f, QuietSteps DEF ReadFile
<1>5. ASSUME NEW s \in Servers, ApplyFile(s) PROVE Good
  <2>1. /\ pc[s] = "apply" /\ pc'[s] \in {"unlock", "abort"} /\ next' = next /\ rows' = rows
        /\ schema => schema'
        /\ pc'[s] = "unlock" => schema'
        /\ \A t \in Servers \ {s} : pc'[t] = pc[t]
    <3>1. pc[s] = "apply" /\ next' = next /\ rows' = rows
      BY <1>5 DEF ApplyFile
    <3>2. CASE schema' = TRUE /\ Goto(s, "unlock")
      BY <1>t, <3>1, <3>2
    <3>3. CASE schema' \in {schema, TRUE} /\ Goto(s, "abort")
      <4>1. schema => schema'
        BY <3>3
      <4> QED  BY <1>t, <3>1, <3>3, <4>1
    <3> QED  BY <1>5, <3>2, <3>3 DEF ApplyFile
  <2> QED  BY <2>1, <1>f, QuietSteps
<1>6. ASSUME NEW s \in Servers, Unlock(s) PROVE Good
  BY <1>6, <1>t, <1>f, <1>s, QuietSteps DEF Unlock
<1>7. ASSUME NEW s \in Servers, OpenStorage(s) PROVE Good
  BY <1>7, <1>t, <1>f, <1>s, QuietSteps DEF OpenStorage
<1>8. ASSUME NEW s \in Servers, CountHunters(s) PROVE Good
  <2>1. /\ pc[s] = "count" /\ pc'[s] \in {"serve", "seed", "down"} /\ next' = next
        /\ UNCHANGED <<rows, schema>>
        /\ \A t \in Servers \ {s} : pc'[t] = pc[t]
    BY <1>8, <1>t DEF CountHunters
  <2> QED  BY <2>1, <1>f, <1>s, QuietSteps
<1>9. ASSUME NEW s \in Servers, Insert(s) PROVE Good
  BY <1>9, InsertKeeps
<1>10. ASSUME NEW s \in Servers, Serve(s) PROVE Good
  BY <1>10, <1>t, <1>s, QuietSteps DEF Serve
<1>11. ASSUME NEW s \in Servers, Kill(s) PROVE Good
  <2>1. /\ pc'[s] = "down" /\ next' = next /\ rows' = rows /\ (schema => schema')
        /\ \A t \in Servers \ {s} : pc'[t] = pc[t]
    BY <1>11, <1>t DEF Kill
  <2> QED  BY <2>1, QuietSteps
<1>12. ASSUME UNCHANGED vars PROVE Good
  BY <1>12 DEF vars, IInv, TablesFirst, OneWriter, Writing, SeededOnce, SeedHasNoGaps
<1> QED
  BY <1>1, <1>2, <1>3, <1>4, <1>5, <1>6, <1>7, <1>8, <1>9, <1>10, <1>11, <1>12
     DEF Next, Step

-----------------------------------------------------------------------------
LEMMA Invariance == Spec => []IInv
<1>1. Init => IInv
  BY InitHolds
<1>2. IInv /\ [Next]_vars => IInv'
  BY TypesKept, LockKept, SeedKept DEF IInv
<1> QED  BY <1>1, <1>2, PTL DEF Spec

(* Every variable keeps its type, and main keeps to its number of tries.   *)
THEOREM TypeCorrect == Spec => []TypeOK
<1>1. IInv => TypeOK
  BY DEF IInv
<1> QED  BY <1>1, Invariance, PTL

(* The advisory lock keeps migrations apart, however many servers start    *)
(* and wherever they die, and nothing works on tables that are not there.  *)
THEOREM MigrationsComeFirst == Spec => []MigrationsFirst
<1>1. IInv => MigrationsFirst
  BY DEF IInv, LockHeld, MigratesAlone, MigrationsFirst
<1> QED  BY <1>1, Invariance, PTL

(* The one unique email protects the whole seed: no row of it comes twice, *)
(* and what is there of a broken-off seed is a beginning of the whole one. *)
THEOREM SeedComesInOrder == Spec => []SeededInOrder
<1>1. IInv => SeededInOrder
  BY DEF IInv, SeededInOrder
<1> QED  BY <1>1, Invariance, PTL
-----------------------------------------------------------------------------
(* What EveryoneServes rests on, as far as single steps go.                *)

(* The advisory lock is nobody's, or that of a server inside Migrate.      *)
LockInUse ==
    lock # NoServer => lock \in Servers /\ pc[lock] \in {"read", "apply", "unlock", "abort"}

(* The lock goes on every way out of Migrate, by exit and death too.       *)
LEMMA LockUseKept == TypeOK /\ LockHeld /\ LockInUse /\ [Next]_vars => LockInUse'
<1> SUFFICES ASSUME TypeOK, LockHeld, LockInUse, [Next]_vars PROVE LockInUse'
  OBVIOUS
<1>t. pc \in [Servers -> Places] /\ lock \in Servers \cup {NoServer}
  BY DEF TypeOK
<1> USE DEF LockInUse, At, Goto
<1>1. ASSUME NEW s \in Servers, Start(s) PROVE LockInUse'
  BY <1>1, <1>t DEF Start
<1>2. ASSUME NEW s \in Servers, Open(s) PROVE LockInUse'
  BY <1>2, <1>t DEF Open
<1>3. ASSUME NEW s \in Servers, Lock(s) PROVE LockInUse'
  BY <1>3, <1>t DEF Lock
<1>4. ASSUME NEW s \in Servers, ReadFile(s) PROVE LockInUse'
  BY <1>4, <1>t DEF ReadFile
<1>5. ASSUME NEW s \in Servers, ApplyFile(s) PROVE LockInUse'
  BY <1>5, <1>t DEF ApplyFile
<1>6. ASSUME NEW s \in Servers, Unlock(s) PROVE LockInUse'
  BY <1>6, <1>t DEF Unlock, Held
<1>7. ASSUME NEW s \in Servers, OpenStorage(s) PROVE LockInUse'
  BY <1>7, <1>t DEF OpenStorage
<1>8. ASSUME NEW s \in Servers, CountHunters(s) PROVE LockInUse'
  BY <1>8, <1>t DEF CountHunters
<1>9. ASSUME NEW s \in Servers, Insert(s) PROVE LockInUse'
  <2>1. pc[s] = "seed" /\ lock' = lock /\ (pc' = pc \/ pc' = [pc EXCEPT ![s] = "down"])
    BY <1>9 DEF Insert
  <2> QED  BY <2>1, <1>t
<1>10. ASSUME NEW s \in Servers, Serve(s) PROVE LockInUse'
  BY <1>10, <1>t DEF Serve
<1>11. ASSUME NEW s \in Servers, Kill(s) PROVE LockInUse'
  BY <1>11, <1>t DEF Kill, Held
<1>12. ASSUME UNCHANGED vars PROVE LockInUse'
  BY <1>12 DEF vars
<1> QED
  BY <1>1, <1>2, <1>3, <1>4, <1>5, <1>6, <1>7, <1>8, <1>9, <1>10, <1>11, <1>12
     DEF Next, Step

(* A server that waits for the advisory lock waits for one that is alive   *)
(* and inside Migrate, where it waits for nobody: a server that has died,  *)
(* failed or got past the migrations keeps no other one waiting.           *)
THEOREM LockComesFree ==
    Spec => [](lock # NoServer =>
                 /\ lock \in Servers
                 /\ pc[lock] \in {"read", "apply", "unlock", "abort"})
<1>1. Init => LockInUse
  BY DEF Init, LockInUse
<1>2. IInv /\ LockInUse /\ [Next]_vars => LockInUse'
  BY LockUseKept DEF IInv
<1>3. LockInUse => (lock # NoServer =>
                      /\ lock \in Servers
                      /\ pc[lock] \in {"read", "apply", "unlock", "abort"})
  BY DEF LockInUse
<1> QED  BY <1>1, <1>2, <1>3, Invariance, PTL DEF Spec

(* How far a server has come.                                              *)
Progress(place) ==
    CASE place = "down"    -> 0 [] place = "open"  -> 1 [] place = "lock"   -> 2
      [] place = "read"    -> 3 [] place = "apply" -> 4 [] place = "unlock" -> 5
      [] place = "abort"   -> 5 [] place = "storage" -> 6 [] place = "count" -> 7
      [] place = "seed"    -> 8 [] place = "serve" -> 9

(* A step in which nothing fails takes the server further, or it ends one  *)
(* that has failed before, or one that seeds while the hunter is there.    *)
Forward(s) ==
    Step(s) /\ faults' = faults =>
        \/ Progress(pc'[s]) > Progress(pc[s])
        \/ pc'[s] = "seed" /\ pc[s] = "seed" /\ next'[s] > next[s]
        \/ pc[s] = "abort"
        \/ pc[s] = "seed" /\ rows[1] > 0

(* What there is of tables and seed stays.                                 *)
Lasting == (schema => schema') /\ \A i \in 1 .. SeedRows : rows'[i] >= rows[i]

(* A start that nothing disturbs leads straight to serving: no step is     *)
(* repeated, only what failed before makes a server exit, and a server     *)
(* that exits because another one seeds finds the hunter when it is        *)
(* started again, for nothing of the tables and the seed is ever undone.   *)
THEOREM StartsGoForward == Spec => [][Lasting /\ \A s \in Servers : Forward(s)]_vars
<1>1. ASSUME IInv, [Next]_vars
      PROVE  Lasting
  <2>t. /\ pc \in [Servers -> Places] /\ rows \in [1 .. SeedRows -> Nat]
        /\ next \in [Servers -> 1 .. SeedRows + 1] /\ schema \in BOOLEAN
    BY <1>1 DEF IInv, TypeOK
  <2>1. UNCHANGED <<schema, rows>> => Lasting
    BY <2>t DEF Lasting
  <2>2. ASSUME NEW s \in Servers, ApplyFile(s) \/ Kill(s)
        PROVE  Lasting
    <3>1. rows' = rows /\ (schema => schema')
      BY <2>2, <2>t DEF ApplyFile, Kill
    <3> QED  BY <2>t, <3>1 DEF Lasting
  <2>3. ASSUME NEW s \in Servers, Insert(s)
        PROVE  Lasting
    <3>1. next[s] \in 1 .. SeedRows /\ schema' = schema
      BY <2>3, <2>t, RowsAssumption DEF Insert
    <3>2. rows' = rows \/ rows' = [rows EXCEPT ![next[s]] = @ + 1]
      BY <2>3 DEF Insert
    <3>3. \A i \in 1 .. SeedRows : rows[i] \in Nat
      BY <2>t
    <3>4. rows[next[s]] + 1 >= rows[next[s]]
      BY <3>1, <3>3
    <3>5. \A i \in 1 .. SeedRows : rows'[i] = rows[i] \/ rows'[i] = rows[i] + 1
      BY <2>t, <3>1, <3>2
    <3> QED  BY <3>1, <3>3, <3>5 DEF Lasting
  <2> QED
    BY <1>1, <2>1, <2>2, <2>3
       DEF Next, Step, Start, Open, Lock, ReadFile, Unlock, OpenStorage, CountHunters, Serve, vars
<1>2. ASSUME IInv, NEW s \in Servers, Step(s), faults' = faults
      PROVE  \/ Progress(pc'[s]) > Progress(pc[s])
             \/ pc'[s] = "seed" /\ pc[s] = "seed" /\ next'[s] > next[s]
             \/ pc[s] = "abort"
             \/ pc[s] = "seed" /\ rows[1] > 0
  <2>t. /\ pc \in [Servers -> Places] /\ rows \in [1 .. SeedRows -> Nat]
        /\ next \in [Servers -> 1 .. SeedRows + 1] /\ faults \in Nat
    BY <1>2, BoundsAssumption DEF IInv, TypeOK
  <2>f. ~Fault
    BY <1>2, <2>t DEF Fault
  <2>1. CASE Insert(s)
    <3>1. next[s] \in 1 .. SeedRows /\ pc[s] = "seed"
      BY <2>1, <2>t, RowsAssumption DEF Insert, At
    <3>2. CASE Refused(next[s])
      <4>1. next[s] = 1 \/ 1 \in 1 .. next[s] - 1
        BY <3>1
      <4>2. rows[1] > 0
        BY <1>2, <3>1, <3>2, <4>1 DEF IInv, SeedHasNoGaps, Refused
      <4> QED  BY <3>1, <4>2
    <3>3. CASE ~Refused(next[s])
      <4>1. next' = [next EXCEPT ![s] = next[s] + 1] /\ pc' = pc
        BY <2>1, <2>f, <3>3 DEF Insert
      <4> QED  BY <2>t, <3>1, <4>1
    <3> QED  BY <3>2, <3>3
  <2>2. CASE Unlock(s)
    BY <2>2, <2>t DEF Unlock, At, Goto, Progress
  <2>3. CASE Start(s) \/ Open(s) \/ Lock(s) \/ ReadFile(s)
    BY <2>3, <2>t, <2>f DEF Start, Open, Lock, ReadFile, At, Goto, Progress
  <2>4. CASE ApplyFile(s) \/ OpenStorage(s)
    <3>1. \/ pc[s] = "apply" /\ pc' = [pc EXCEPT ![s] = "unlock"]
          \/ pc[s] = "storage" /\ pc' = [pc EXCEPT ![s] = "count"]
      BY <2>4, <2>f DEF ApplyFile, OpenStorage, At, Goto
    <3> QED  BY <2>t, <3>1 DEF Progress
  <2>5. CASE CountHunters(s) \/ Serve(s)
    <3>1. \/ pc[s] = "count" /\ pc' \in {[pc EXCEPT ![s] = "seed"], [pc EXCEPT ![s] = "serve"]}
          \/ pc[s] = "seed" /\ pc' = [pc EXCEPT ![s] = "serve"]
      BY <2>5, <2>f DEF CountHunters, Serve, At, Goto
    <3> QED  BY <2>t, <3>1 DEF Progress
  <2> QED  BY <1>2, <2>1, <2>2, <2>3, <2>4, <2>5 DEF Step
<1>3. ASSUME IInv, [Next]_vars
      PROVE  Lasting /\ \A s \in Servers : Forward(s)
  BY <1>1, <1>2, <1>3 DEF Forward
<1> QED  BY <1>3, Invariance, PTL DEF Spec
=============================================================================
