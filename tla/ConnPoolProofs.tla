---------------------------- MODULE ConnPoolProofs ----------------------------
(***************************************************************************)
(* Theorems about ConnPool, for any number of callers, any MaxConns and    *)
(* any number of inner queries.                                            *)
(***************************************************************************)
EXTENDS ConnPool, FiniteSetTheorems, SequenceTheorems, TLAPS

(* A caller asks for a second connection on behalf of a row, and only the  *)
(* listing handlers have rows that call for one.                           *)
RowsWanted ==
    \A r \in Callers :
        /\ stage[r] \in {"second", "inner"} => rows[r] > 0
        /\ rows[r] > 0 => r \in Listers

IInv == TypeOK /\ NothingLeaks /\ RowsWanted

-----------------------------------------------------------------------------
(* The sets that NothingLeaks counts are finite.                           *)
LEMMA Countable ==
    /\ IsFiniteSet(Holding) /\ Cardinality(Holding) \in Nat
    /\ IsFiniteSet(Twice) /\ Cardinality(Twice) \in Nat
<1>1. Holding \subseteq Callers /\ Twice \subseteq Callers
  BY DEF Holding, Twice
<1> QED  BY <1>1, CallersAssumption, FS_Subset, FS_CardinalityType

(* One caller more in a set, or one less.                                  *)
LEMMA OneMore ==
    ASSUME NEW S, IsFiniteSet(S), NEW r, r \notin S
    PROVE  Cardinality(S \cup {r}) = Cardinality(S) + 1
BY FS_AddElement

LEMMA OneLess ==
    ASSUME NEW S, IsFiniteSet(S), NEW r, r \in S
    PROVE  Cardinality(S \ {r}) = Cardinality(S) - 1
BY FS_RemoveElement

(* Taking the waiter at place i out of the queue.                          *)
LEMMA WithoutIsSeq ==
    ASSUME NEW S, NEW q \in Seq(S), NEW i \in 1 .. Len(q)
    PROVE  /\ Without(q, i) \in Seq(S)
           /\ Len(Without(q, i)) = Len(q) - 1
           /\ \A j \in 1 .. Len(q) - 1 :
                 Without(q, i)[j] = IF j < i THEN q[j] ELSE q[j + 1]
<1> DEFINE w == Without(q, i)
<1>1. Len(q) - 1 \in Nat
  OBVIOUS
<1>2. w = [j \in 1 .. Len(q) - 1 |-> IF j < i THEN q[j] ELSE q[j + 1]]
  BY DEF Without
<1>3. \A j \in 1 .. Len(q) - 1 : (IF j < i THEN q[j] ELSE q[j + 1]) \in S
  OBVIOUS
<1>4. w \in [1 .. Len(q) - 1 -> S]
  BY <1>2, <1>3
<1>5. w \in Seq(S) /\ Len(w) = Len(q) - 1
  BY <1>1, <1>2, <1>4
<1> QED  BY <1>2, <1>5

-----------------------------------------------------------------------------
(* The queue through the things that happen to it.                         *)

(* A caller that was not waiting joins at the end.                         *)
LEMMA Joins ==
    ASSUME NEW st \in [Callers -> Stages], NEW q \in Seq(Callers),
           QueueExact(st, q),
           NEW r \in Callers, st[r] \notin Waiting, NEW x \in Waiting
    PROVE  /\ Append(q, r) \in Seq(Callers)
           /\ QueueExact([st EXCEPT ![r] = x], Append(q, r))
<1> DEFINE a == Append(q, r)  t == [st EXCEPT ![r] = x]
<1>1. a \in Seq(Callers) /\ Len(a) = Len(q) + 1 /\ a[Len(q) + 1] = r
  OBVIOUS
<1>2. \A i \in 1 .. Len(q) : a[i] = q[i] /\ q[i] \in Callers /\ q[i] # r
  BY DEF QueueExact
<1>3. \A i \in 1 .. Len(a) : i \in 1 .. Len(q) \/ i = Len(q) + 1
  BY <1>1
<1>4. t[r] = x /\ \A c \in Callers : c # r => t[c] = st[c]
  OBVIOUS
<1> HIDE DEF a, t
<1>5. \A i \in 1 .. Len(a) : t[a[i]] \in Waiting
  BY <1>1, <1>2, <1>3, <1>4 DEF QueueExact
<1>6. \A i, j \in 1 .. Len(a) : a[i] = a[j] => i = j
  BY <1>1, <1>2, <1>3 DEF QueueExact
<1>7. \A c \in Callers : t[c] \in Waiting => \E i \in 1 .. Len(a) : a[i] = c
  <2> SUFFICES ASSUME NEW c \in Callers, t[c] \in Waiting
               PROVE  \E i \in 1 .. Len(a) : a[i] = c
    OBVIOUS
  <2>1. CASE c = r
    <3>1. Len(q) + 1 \in 1 .. Len(a)
      BY <1>1
    <3> QED  BY <1>1, <2>1, <3>1
  <2>2. CASE c # r
    <3>1. PICK i \in 1 .. Len(q) : q[i] = c
      BY <1>4, <2>2 DEF QueueExact
    <3>2. i \in 1 .. Len(a) /\ a[i] = c
      BY <1>1, <1>2, <3>1
    <3> QED  BY <3>2
  <2> QED  BY <2>1, <2>2
<1>8. QueueExact(t, a)
  BY <1>5, <1>6, <1>7 DEF QueueExact
<1> QED  BY <1>1, <1>8 DEF a, t

(* The waiter at place i leaves and waits no more.                         *)
LEMMA Leaves ==
    ASSUME NEW st \in [Callers -> Stages], NEW q \in Seq(Callers),
           QueueExact(st, q),
           NEW i \in 1 .. Len(q), NEW x, x \notin Waiting
    PROVE  /\ Without(q, i) \in Seq(Callers)
           /\ QueueExact([st EXCEPT ![q[i]] = x], Without(q, i))
<1> DEFINE w == Without(q, i)  r == q[i]  t == [st EXCEPT ![r] = x]
           from(j) == IF j < i THEN j ELSE j + 1
<1>1. w \in Seq(Callers) /\ Len(w) = Len(q) - 1
  BY WithoutIsSeq
<1>2. \A j \in 1 .. Len(w) :
         from(j) \in 1 .. Len(q) /\ from(j) # i /\ w[j] = q[from(j)]
  <2> SUFFICES ASSUME NEW j \in 1 .. Len(w)
               PROVE  from(j) \in 1 .. Len(q) /\ from(j) # i /\ w[j] = q[from(j)]
    OBVIOUS
  <2>1. w[j] = IF j < i THEN q[j] ELSE q[j + 1]
    BY <1>1, WithoutIsSeq
  <2>2. from(j) \in 1 .. Len(q) /\ from(j) # i
    BY <1>1
  <2> QED  BY <2>1, <2>2
<1>3. \A j, k \in 1 .. Len(w) : from(j) = from(k) => j = k
  BY <1>1
<1>4. r \in Callers /\ t[r] = x /\ \A c \in Callers : c # r => t[c] = st[c]
  OBVIOUS
<1>5. \A m \in 1 .. Len(q) : m # i => \E j \in 1 .. Len(w) : from(j) = m
  <2> SUFFICES ASSUME NEW m \in 1 .. Len(q), m # i
               PROVE  \E j \in 1 .. Len(w) : from(j) = m
    OBVIOUS
  <2>1. CASE m < i
    <3>1. m \in 1 .. Len(w) /\ from(m) = m
      BY <1>1, <2>1
    <3> QED  BY <3>1
  <2>2. CASE m > i
    <3>1. m - 1 \in 1 .. Len(w) /\ from(m - 1) = m
      BY <1>1, <2>2
    <3> QED  BY <3>1
  <2> QED  BY <2>1, <2>2
<1>6. \A m \in 1 .. Len(q) : q[m] \in Callers /\ (m # i => q[m] # r)
  BY DEF QueueExact
<1> HIDE DEF w, r, t, from
<1>7. \A j \in 1 .. Len(w) : t[w[j]] \in Waiting
  <2> SUFFICES ASSUME NEW j \in 1 .. Len(w)  PROVE t[w[j]] \in Waiting
    OBVIOUS
  <2>1. from(j) \in 1 .. Len(q) /\ from(j) # i /\ w[j] = q[from(j)]
    BY <1>2
  <2>2. w[j] \in Callers /\ w[j] # r
    BY <1>6, <2>1
  <2>3. st[q[from(j)]] \in Waiting
    BY <2>1 DEF QueueExact
  <2> QED  BY <1>4, <2>1, <2>2, <2>3
<1>8. \A j, k \in 1 .. Len(w) : w[j] = w[k] => j = k
  BY <1>2, <1>3 DEF QueueExact
<1>9. \A c \in Callers : t[c] \in Waiting => \E j \in 1 .. Len(w) : w[j] = c
  <2> SUFFICES ASSUME NEW c \in Callers, t[c] \in Waiting
               PROVE  \E j \in 1 .. Len(w) : w[j] = c
    OBVIOUS
  <2>1. c # r /\ st[c] \in Waiting
    BY <1>4
  <2>2. PICK m \in 1 .. Len(q) : q[m] = c
    BY <2>1 DEF QueueExact
  <2>3. m # i
    BY <2>1, <2>2 DEF r
  <2>4. PICK j \in 1 .. Len(w) : from(j) = m
    BY <1>5, <2>3
  <2>5. w[j] = c
    BY <1>2, <2>2, <2>4
  <2> QED  BY <2>5
<1>10. QueueExact(t, w)
  BY <1>7, <1>8, <1>9 DEF QueueExact
<1> QED  BY <1>1, <1>10 DEF w, t, r

(* The head of the queue is the waiter at place 1.                         *)
LEMMA TailIsWithout ==
    ASSUME NEW q \in Seq(Callers), q # <<>>
    PROVE  /\ 1 \in 1 .. Len(q) /\ q[1] = Head(q) /\ Head(q) \in Callers
           /\ Tail(q) = Without(q, 1)
<1>1. 1 \in 1 .. Len(q) /\ q[1] = Head(q) /\ Head(q) \in Callers
  OBVIOUS
<1>2. Tail(q) \in Seq(Callers) /\ Len(Tail(q)) = Len(q) - 1
      /\ \A j \in 1 .. Len(q) - 1 : Tail(q)[j] = q[j + 1]
  OBVIOUS
<1>3. Without(q, 1) \in Seq(Callers) /\ Len(Without(q, 1)) = Len(q) - 1
      /\ \A j \in 1 .. Len(q) - 1 : Without(q, 1)[j] = q[j + 1]
  BY <1>1, WithoutIsSeq
<1>4. \A j \in 1 .. Len(q) - 1 : Tail(q)[j] = Without(q, 1)[j]
  BY <1>2, <1>3
<1>5. Len(Tail(q)) = Len(Without(q, 1))
  BY <1>2, <1>3
<1> QED  BY <1>1, <1>2, <1>3, <1>4, <1>5, SeqEqual

(* Who does not wait and goes on not waiting leaves the queue as it is.    *)
LEMMA Stays ==
    ASSUME NEW st \in [Callers -> Stages], NEW q \in Seq(Callers),
           QueueExact(st, q),
           NEW r \in Callers, st[r] \notin Waiting, NEW x, x \notin Waiting
    PROVE  QueueExact([st EXCEPT ![r] = x], q)
<1>1. \A i \in 1 .. Len(q) : q[i] \in Callers /\ q[i] # r
  BY DEF QueueExact
<1> QED  BY <1>1 DEF QueueExact

-----------------------------------------------------------------------------
(* What a caller's move does to the two sets that NothingLeaks counts.     *)
At(st, T) == {r \in Callers : st[r] \in T}
In(x, T) == IF x \in T THEN 1 ELSE 0
Held(st) == Cardinality(At(st, {"open", "second", "inner"}))
              + Cardinality(At(st, {"inner"}))

(* How many connections a caller holds at each stage.                      *)
Has(x) == CASE x = "inner" -> 2 [] x \in {"open", "second"} -> 1
            [] x \in {"idle", "first"} -> 0

(* A set after caller r has moved, by whether r belongs to it.             *)
LEMMA Moved ==
    ASSUME NEW st \in [Callers -> Stages], NEW r \in Callers, NEW x \in Stages,
           NEW T \in SUBSET Stages
    PROVE  /\ Cardinality(At(st, T)) \in Nat
           /\ Cardinality(At([st EXCEPT ![r] = x], T)) = Cardinality(At(st, T))
                  + In(x, T) - In(st[r], T)
<1> USE DEF At, In
<1> DEFINE S == At(st, T)  S2 == At([st EXCEPT ![r] = x], T)
<1>1. IsFiniteSet(S) /\ Cardinality(S) \in Nat
  BY CallersAssumption, FS_Subset, FS_CardinalityType
<1>2. IsFiniteSet(S2) /\ Cardinality(S2) \in Nat
  BY CallersAssumption, FS_Subset, FS_CardinalityType
<1>3. CASE x \in T /\ st[r] \notin T
  <2>1. S2 = S \cup {r} /\ r \notin S
    BY <1>3
  <2> QED  BY <1>1, <1>2, <1>3, <2>1, FS_AddElement
<1>4. CASE x \notin T /\ st[r] \in T
  <2>1. S2 = S \ {r} /\ r \in S
    BY <1>4
  <2>2. Cardinality(S2) = Cardinality(S) - 1
    BY <1>1, <2>1, OneLess
  <2> QED  BY <1>1, <1>2, <1>4, <2>2
<1>5. CASE x \in T <=> st[r] \in T
  <2>1. S2 = S
    BY <1>5
  <2> QED  BY <1>1, <1>2, <1>5, <2>1
<1> QED  BY <1>3, <1>4, <1>5

(* So the number held changes by what the caller gains or gives back.      *)
LEMMA HeldMoves ==
    ASSUME NEW st \in [Callers -> Stages], NEW r \in Callers, NEW x \in Stages
    PROVE  /\ Held(st) \in Nat
           /\ Held([st EXCEPT ![r] = x]) = Held(st) + Has(x) - Has(st[r])
<1> DEFINE t == [st EXCEPT ![r] = x]
           H == {"open", "second", "inner"}  I == {"inner"}
<1>1. H \in SUBSET Stages /\ I \in SUBSET Stages
  BY DEF Stages
<1>2. \A z \in Stages :
         In(z, H) + In(z, I) = Has(z) /\ In(z, H) \in Nat /\ In(z, I) \in Nat
  BY DEF Has, Stages, In
<1>3. Held(st) = Cardinality(At(st, H)) + Cardinality(At(st, I))
      /\ Held(t) = Cardinality(At(t, H)) + Cardinality(At(t, I))
  BY DEF Held
<1> HIDE DEF H, I
<1>4. /\ Cardinality(At(st, H)) \in Nat
      /\ Cardinality(At(t, H)) = Cardinality(At(st, H)) + In(x, H) - In(st[r], H)
  BY <1>1, Moved
<1>5. /\ Cardinality(At(st, I)) \in Nat
      /\ Cardinality(At(t, I)) = Cardinality(At(st, I)) + In(x, I) - In(st[r], I)
  BY <1>1, Moved
<1>6. st[r] \in Stages
  OBVIOUS
<1> HIDE DEF t
<1> QED  BY <1>4, <1>5, <1>2, <1>3, <1>6 DEF t

(* NothingLeaks, said of the stages.                                       *)
LEMMA LeaksHeld == NothingLeaks <=> used = Held(stage)
<1>1. Holding = At(stage, {"open", "second", "inner"})
  BY DEF Holding, At
<1>2. Twice = At(stage, {"inner"})
  BY DEF Twice, At
<1> QED  BY <1>1, <1>2 DEF NothingLeaks, Held

-----------------------------------------------------------------------------
(* No caller and no connection is out at the start.                        *)
LEMMA InitHolds == Init => IInv
<1> SUFFICES ASSUME Init PROVE IInv
  OBVIOUS
<1> USE DEF Init
<1>1. TypeOK
  BY BoundsAssumption DEF TypeOK, QueueExact, Stages, Waiting
<1>2. Holding = {} /\ Twice = {}
  BY DEF Holding, Twice
<1>3. NothingLeaks
  BY <1>2, FS_EmptySet DEF NothingLeaks
<1>4. RowsWanted
  BY DEF RowsWanted
<1> QED  BY <1>1, <1>3, <1>4 DEF IInv

(* The number of connections held at each stage, one by one.               *)
LEMMA HasValues ==
    /\ Has("idle") = 0 /\ Has("first") = 0
    /\ Has("open") = 1 /\ Has("second") = 1 /\ Has("inner") = 2
    /\ {"idle", "first", "open", "second", "inner"} = Stages
    /\ "first" \in Waiting /\ "second" \in Waiting
    /\ "idle" \notin Waiting /\ "open" \notin Waiting /\ "inner" \notin Waiting
BY DEF Has, Stages, Waiting

(* Whoever holds a connection is counted.                                  *)
LEMMA HeldPositive ==
    ASSUME NEW st \in [Callers -> Stages], NEW r \in Callers, Has(st[r]) >= 1
    PROVE  Held(st) \in Nat \ {0}
<1> DEFINE t == [st EXCEPT ![r] = "idle"]
<1>1. t \in [Callers -> Stages] /\ "idle" \in Stages /\ st[r] \in Stages
  BY HasValues
<1>2. Held(t) \in Nat
  BY <1>1, HeldMoves
<1>3. Held(st) \in Nat /\ Held(t) = Held(st) + Has("idle") - Has(st[r])
  BY <1>1, HeldMoves
<1>4. Has(st[r]) \in Nat
  BY <1>1 DEF Has, Stages
<1> HIDE DEF t
<1> QED  BY <1>2, <1>3, <1>4, HasValues

(* Every step keeps the queue exact and the pool's account right.          *)
LEMMA NextKeeps == IInv /\ [Next]_vars => IInv'
<1> SUFFICES ASSUME IInv, [Next]_vars PROVE IInv'
  OBVIOUS
<1> DEFINE Typed == /\ stage' \in [Callers -> Stages]
                    /\ rows' \in [Callers -> 0 .. MaxRows]
                    /\ used' \in 0 .. MaxConns
           Queued == queue' \in Seq(Callers) /\ QueueExact(stage', queue')
           Counted == used' = Held(stage')
           Wanted == RowsWanted'
           Good == Typed /\ Queued /\ Counted /\ Wanted
<1>1. /\ stage \in [Callers -> Stages] /\ rows \in [Callers -> 0 .. MaxRows]
      /\ queue \in Seq(Callers) /\ used \in 0 .. MaxConns
      /\ QueueExact(stage, queue) /\ used = Held(stage)
      /\ MaxConns \in Nat \ {0} /\ MaxRows \in Nat /\ RowsWanted
  BY LeaksHeld, BoundsAssumption DEF IInv, TypeOK
<1>2. SUFFICES Good
  <2>1. (used = Held(stage))' => NothingLeaks'
    BY LeaksHeld, PTL
  <2> QED  BY <2>1 DEF IInv, TypeOK, QueueExact
<1>3. ASSUME NEW r \in Callers, NEW x \in Stages, stage' = [stage EXCEPT ![r] = x],
             stage[r] \notin Waiting, x \notin Waiting, UNCHANGED queue
      PROVE  Queued
  BY <1>1, <1>3, Stays
<1>4. ASSUME NEW r \in Callers, NEW x \in Stages, stage' = [stage EXCEPT ![r] = x],
             used' = used + Has(x) - Has(stage[r])
      PROVE  Counted
  BY <1>1, <1>4, HeldMoves
<1>5. ASSUME NEW r \in Callers, NEW k \in 0 .. MaxRows, Acquire(r, k)
      PROVE  Good
  <2>1. /\ stage' = [stage EXCEPT ![r] = "first"] /\ queue' = Append(queue, r)
        /\ stage[r] = "idle" /\ used' = used /\ rows' = [rows EXCEPT ![r] = k]
    BY <1>5 DEF Acquire
  <2>2. Typed
    BY <1>1, <2>1, HasValues
  <2>3. Queued
    BY <1>1, <2>1, Joins, HasValues
  <2>4. Counted
    <3>1. used' = used + Has("first") - Has(stage[r])
      BY <1>1, <2>1, HasValues
    <3> QED  BY <1>4, <2>1, <3>1, HasValues
  <2>5. Wanted
    BY <1>1, <1>5, <2>1, HasValues DEF RowsWanted, Acquire, Nests
  <2> QED  BY <2>2, <2>3, <2>4, <2>5
<1>6. ASSUME Grant PROVE Good
  <2> DEFINE r == Head(queue)  x == IF stage[r] = "first" THEN "open" ELSE "inner"
  <2>1. /\ stage' = [stage EXCEPT ![r] = x] /\ queue' = Tail(queue) /\ queue # <<>>
        /\ used < MaxConns /\ used' = used + 1 /\ rows' = rows
    BY <1>6 DEF Grant
  <2>2. 1 \in 1 .. Len(queue) /\ queue[1] = r /\ r \in Callers /\ queue' = Without(queue, 1)
    BY <1>1, <2>1, TailIsWithout
  <2>3. stage[r] \in Waiting
    BY <1>1, <2>2 DEF QueueExact
  <2>4. x \in Stages /\ x \notin Waiting /\ Has(x) = Has(stage[r]) + 1
    BY <2>3, HasValues DEF Waiting
  <2> HIDE DEF r, x
  <2>5. Typed
    BY <1>1, <2>1, <2>2, <2>4
  <2>6. Queued
    BY <1>1, <2>1, <2>2, <2>4, Leaves
  <2>7. Has(stage[r]) \in Nat
    BY <2>3, HasValues DEF Waiting
  <2>8. Counted
    <3>1. used' = used + Has(x) - Has(stage[r])
      BY <1>1, <2>1, <2>4, <2>7
    <3> QED  BY <1>4, <2>1, <2>2, <2>4, <3>1
  <2>9. Wanted
    BY <1>1, <2>1, <2>2, <2>3, <2>4 DEF RowsWanted, Waiting, x
  <2> QED  BY <2>5, <2>6, <2>8, <2>9
<1>7. ASSUME NEW r \in Callers, InnerQuery(r) PROVE Good
  <2>1. /\ stage' = [stage EXCEPT ![r] = "second"] /\ queue' = Append(queue, r)
        /\ stage[r] = "open" /\ used' = used /\ rows' = rows
    BY <1>7 DEF InnerQuery
  <2>2. Typed
    BY <1>1, <2>1, HasValues
  <2>3. Queued
    BY <1>1, <2>1, Joins, HasValues
  <2>4. Counted
    <3>1. used' = used + Has("second") - Has(stage[r])
      BY <1>1, <2>1, HasValues
    <3> QED  BY <1>4, <2>1, <3>1, HasValues
  <2>5. Wanted
    BY <1>1, <1>7, <2>1 DEF RowsWanted, InnerQuery
  <2> QED  BY <2>2, <2>3, <2>4, <2>5
<1>8. ASSUME NEW r \in Callers, Close(r) \/ ScanFails(r)
      PROVE  Good
  <2>1. /\ stage' = [stage EXCEPT ![r] = "idle"] /\ queue' = queue
        /\ stage[r] = "open" /\ used' = used - 1
        /\ rows' = rows \/ rows' = [rows EXCEPT ![r] = 0]
    BY <1>8 DEF Close, ScanFails
  <2>2. used \in Nat \ {0}
    BY <1>1, <2>1, HeldPositive, HasValues
  <2>3. Typed
    BY <1>1, <2>1, <2>2, HasValues
  <2>4. Queued
    BY <1>3, <2>1, HasValues
  <2>5. Counted
    <3>1. used' = used + Has("idle") - Has(stage[r])
      BY <1>1, <2>1, HasValues
    <3> QED  BY <1>4, <2>1, <3>1, HasValues
  <2>6. Wanted
    BY <1>1, <1>8, <2>1 DEF RowsWanted
  <2> QED  BY <2>3, <2>4, <2>5, <2>6
<1>9. ASSUME NEW r \in Callers, InnerDone(r) PROVE Good
  <2>1. /\ stage' = [stage EXCEPT ![r] = "open"] /\ queue' = queue
        /\ stage[r] = "inner" /\ used' = used - 1
        /\ rows' = [rows EXCEPT ![r] = @ - 1]
    BY <1>9 DEF InnerDone
  <2>2. used \in Nat \ {0}
    BY <1>1, <2>1, HeldPositive, HasValues
  <2>3. rows[r] > 0
    BY <1>1, <2>1 DEF RowsWanted
  <2>4. Typed
    BY <1>1, <2>1, <2>2, <2>3, HasValues
  <2>5. Queued
    BY <1>3, <2>1, HasValues
  <2>6. Counted
    <3>1. used' = used + Has("open") - Has(stage[r])
      BY <1>1, <2>1, HasValues
    <3> QED  BY <1>4, <2>1, <3>1, HasValues
  <2>7. Wanted
    BY <1>1, <2>1 DEF RowsWanted
  <2> QED  BY <2>4, <2>5, <2>6, <2>7
<1>10. ASSUME NEW r \in Callers, HangUp(r) PROVE Good
  <2> DEFINE x == IF stage[r] = "first" THEN "idle" ELSE "open"
  <2>1. PICK i \in 1 .. Len(queue) : queue[i] = r /\ queue' = Without(queue, i)
    BY <1>10 DEF HangUp
  <2>2. /\ stage' = [stage EXCEPT ![r] = x] /\ stage[r] \in Waiting
        /\ used' = used /\ rows' = [rows EXCEPT ![r] = 0]
    BY <1>10 DEF HangUp
  <2>3. x \in Stages /\ x \notin Waiting /\ Has(x) = Has(stage[r])
    BY <2>2, HasValues DEF Waiting
  <2>4. Has(x) \in Nat
    BY HasValues
  <2> HIDE DEF x
  <2>5. Typed
    BY <1>1, <2>2, <2>3
  <2>6. Queued
    BY <1>1, <2>1, <2>2, <2>3, Leaves
  <2>7. Counted
    <3>1. used' = used + Has(x) - Has(stage[r])
      BY <1>1, <2>2, <2>3, <2>4
    <3> QED  BY <1>4, <2>2, <2>3, <3>1
  <2>8. Wanted
    BY <1>1, <2>2 DEF RowsWanted, x
  <2> QED  BY <2>5, <2>6, <2>7, <2>8
<1>11. ASSUME UNCHANGED vars PROVE Good
  BY <1>1, <1>11 DEF vars, RowsWanted
<1> QED  BY <1>5, <1>6, <1>7, <1>8, <1>9, <1>10, <1>11 DEF Next, Step

-----------------------------------------------------------------------------
(* The invariant that the theorems follow from.                            *)
LEMMA Invariance == Spec => []IInv
<1>1. Init => IInv
  BY InitHolds
<1>2. IInv /\ [Next]_vars => IInv'
  BY NextKeeps
<1> QED  BY <1>1, <1>2, PTL DEF Spec

(* Every variable keeps its type, and the queue holds exactly the callers  *)
(* that wait, once each.                                                   *)
THEOREM TypeCorrect == Spec => []TypeOK
<1>1. IInv => TypeOK
  BY DEF IInv
<1> QED  BY <1>1, Invariance, PTL

(* Whatever a handler does, the pool's account of the connections it has   *)
(* handed out is what the callers hold.                                    *)
THEOREM ConnectionsReturn == Spec => []NothingLeaks
<1>1. IInv => NothingLeaks
  BY DEF IInv
<1> QED  BY <1>1, Invariance, PTL

(* When nobody can go on and no connection is left, each one is held by a  *)
(* caller that waits for its second, and only listing handlers want one.   *)
LEMMA StallIsNesting == IInv => OnlyListersStall
<1> SUFFICES ASSUME IInv, \A r \in Callers : stage[r] \notin {"open", "inner"},
                    ~(used < MaxConns)
             PROVE  Stalled
  BY DEF OnlyListersStall
<1>1. Twice = {}
  BY DEF Twice
<1>2. Holding = Stuck
  BY CallersAssumption DEF IInv, RowsWanted, Holding, Stuck
<1>3. used = Cardinality(Stuck)
  BY <1>1, <1>2, Countable, FS_EmptySet DEF IInv, NothingLeaks
<1>4. used \in 0 .. MaxConns
  BY DEF IInv, TypeOK
<1> QED  BY <1>3, <1>4, BoundsAssumption DEF Stalled

(* Whatever plain requests, transactions and background loops do, and      *)
(* whatever the size of the pool, it comes to rest with callers waiting    *)
(* only when each of its connections is held by a listing handler that     *)
(* waits for a second one.                                                 *)
THEOREM OnlyListersEverStall == Spec => []OnlyListersStall
<1>1. IInv => OnlyListersStall
  BY StallIsNesting
<1> QED  BY <1>1, Invariance, PTL

(* Such a standstill holds every connection there is.                      *)
LEMMA StalledHoldsAll ==
    ASSUME IInv, Stalled
    PROVE  used = MaxConns /\ \A r \in Callers : stage[r] \notin {"open", "inner"}
<1>1. Stuck \in SUBSET Holding /\ Cardinality(Stuck) = MaxConns
  BY CallersAssumption DEF Stuck, Holding, Stalled
<1>2. /\ used = Cardinality(Holding) + Cardinality(Twice) /\ used \in 0 .. MaxConns
      /\ IsFiniteSet(Holding) /\ IsFiniteSet(Twice)
      /\ Cardinality(Holding) \in Nat /\ Cardinality(Twice) \in Nat /\ MaxConns \in Nat
  BY Countable, BoundsAssumption DEF IInv, TypeOK, NothingLeaks
<1>3. Cardinality(Stuck) <= Cardinality(Holding)
      /\ (Cardinality(Holding) = Cardinality(Stuck) => Holding = Stuck)
  BY <1>1, <1>2, FS_Subset
<1>4. Holding = Stuck /\ Cardinality(Twice) = 0 /\ used = MaxConns
  BY <1>1, <1>2, <1>3
<1>5. \A r \in Holding : stage[r] = "second"
  BY <1>4 DEF Stuck
<1> QED  BY <1>4, <1>5 DEF Holding

(* A standstill lasts until the client of a stuck handler hangs up.        *)
StallEnds ==
    Stalled => Stalled' \/ \E r \in Listers : stage[r] = "second" /\ HangUp(r)

(* Nothing else ends it: no statement that ends, no timeout and no other   *)
(* request or its client, and whoever comes later waits as well.           *)
THEOREM StallEndsByHangUp == Spec => [][StallEnds]_vars
<1>1. IInv /\ [Next]_vars => StallEnds
  <2> SUFFICES ASSUME IInv, [Next]_vars, Stalled,
                      ~ \E r \in Listers : stage[r] = "second" /\ HangUp(r)
               PROVE  Stuck' = Stuck
    BY DEF StallEnds, Stalled
  <2>1. used = MaxConns /\ \A r \in Callers : stage[r] \notin {"open", "inner"}
    BY StalledHoldsAll
  <2>2. stage \in [Callers -> Stages] /\ MaxConns \in Nat /\ Listers \subseteq Callers
    BY CallersAssumption, BoundsAssumption DEF IInv, TypeOK
  <2>3. ~Grant
    BY <2>1, <2>2 DEF Grant
  <2>4. ASSUME NEW r \in Callers, NEW k \in 0 .. MaxRows, Acquire(r, k)
        PROVE  Stuck' = Stuck
    BY <2>2, <2>4 DEF Acquire, Stuck
  <2>5. ASSUME NEW r \in Callers, Step(r) \/ ScanFails(r)
        PROVE  FALSE
    BY <2>1, <2>5 DEF Step, InnerQuery, InnerDone, Close, ScanFails
  <2>6. ASSUME NEW r \in Callers, HangUp(r)
        PROVE  Stuck' = Stuck
    <3>1. stage[r] = "second" => r \in Listers
      BY <2>2 DEF IInv, RowsWanted
    <3>2. stage[r] = "first" /\ stage' = [stage EXCEPT ![r] = "idle"]
      BY <2>6, <3>1 DEF HangUp, Waiting
    <3> QED  BY <2>2, <3>2 DEF Stuck
  <2>7. CASE UNCHANGED vars
    BY <2>7 DEF vars, Stuck
  <2> QED  BY <2>3, <2>4, <2>5, <2>6, <2>7 DEF Next
<1> QED  BY <1>1, Invariance, PTL DEF Spec
-----------------------------------------------------------------------------
(* What ServedOrStalled rests on, as far as single steps go.                *)

(* Caller r stands in the queue q at place i or before it.                 *)
Within(q, r, i) == \E j \in 1 .. Len(q) : j <= i /\ q[j] = r

(* When the waiter at place k has gone, nobody else stands further back,   *)
(* and those behind it stand further ahead.                                *)
LEMMA CloseRanks ==
    ASSUME NEW q \in Seq(Callers), NEW k \in 1 .. Len(q), NEW i \in 1 .. Len(q), i # k
    PROVE  Within(Without(q, k), q[i], IF i < k THEN i ELSE i - 1)
<1> DEFINE j == IF i < k THEN i ELSE i - 1
<1>1. j \in 1 .. Len(q) - 1 /\ (IF j < k THEN j ELSE j + 1) = i
  OBVIOUS
<1>2. Len(Without(q, k)) = Len(q) - 1 /\ Without(q, k)[j] = q[i]
  BY <1>1, WithoutIsSeq
<1> QED  BY <1>1, <1>2 DEF Within

(* First come, first served, as an action: whoever waits keeps its place   *)
(* or moves up until it gets its connection or hangs up; when a connection *)
(* is handed out, the first in the queue gets it and all others move up.   *)
InOrder ==
    \A i \in 1 .. Len(queue) :
        /\ \/ stage'[queue[i]] \notin Waiting
           \/ Within(queue', queue[i], i)
        /\ used' > used =>
             IF i = 1 THEN stage'[queue[i]] \notin Waiting
                      ELSE Within(queue', queue[i], i - 1)

(* Every step of the pool and of its callers keeps this order, so a caller *)
(* waits for as many connections as there were callers before it, whoever  *)
(* comes later, listing handlers and their inner queries included.         *)
THEOREM NobodyOvertakes == Spec => [][InOrder]_vars
<1> DEFINE Kept(i) == stage'[queue[i]] \notin Waiting \/ Within(queue', queue[i], i)
           Moves(i) == used' > used =>
                         IF i = 1 THEN stage'[queue[i]] \notin Waiting
                                  ELSE Within(queue', queue[i], i - 1)
<1>1. ASSUME IInv, [Next]_vars, NEW i \in 1 .. Len(queue)
      PROVE  Kept(i) /\ Moves(i)
  <2>1. /\ stage \in [Callers -> Stages] /\ queue \in Seq(Callers)
        /\ QueueExact(stage, queue) /\ used \in Nat /\ queue[i] \in Callers
    BY <1>1, BoundsAssumption DEF IInv, TypeOK
  <2>2. UNCHANGED queue => Within(queue', queue[i], i)
    BY DEF Within
  <2>3. ASSUME NEW r \in Callers, queue' = Append(queue, r)
        PROVE  Within(queue', queue[i], i)
    <3>1. i \in 1 .. Len(queue') /\ queue'[i] = queue[i]
      BY <2>1, <2>3
    <3> QED  BY <3>1 DEF Within
  <2>4. ASSUME NEW r \in Callers,
               \/ \E k \in 0 .. MaxRows : Acquire(r, k)
               \/ InnerQuery(r)
        PROVE  Kept(i) /\ Moves(i)
    <3>1. queue' = Append(queue, r) /\ used' = used
      BY <2>4 DEF Acquire, InnerQuery
    <3> QED  BY <2>1, <2>3, <3>1
  <2>5. ASSUME NEW r \in Callers, InnerDone(r) \/ Close(r) \/ ScanFails(r)
        PROVE  Kept(i) /\ Moves(i)
    <3>1. queue' = queue /\ used' = used - 1
      BY <2>5 DEF InnerDone, Close, ScanFails
    <3> QED  BY <2>1, <2>2, <3>1
  <2>6. CASE Grant
    <3> DEFINE r == Head(queue)
    <3>1. 1 \in 1 .. Len(queue) /\ queue[1] = r /\ r \in Callers /\ queue' = Without(queue, 1)
      BY <2>1, <2>6, TailIsWithout DEF Grant
    <3>2. stage'[r] \in {"open", "inner"}
      BY <2>1, <2>6, <3>1 DEF Grant
    <3>3. CASE i = 1
      BY <3>1, <3>2, <3>3 DEF Waiting
    <3>4. CASE i # 1
      <4>1. Within(queue', queue[i], i - 1)
        BY <2>1, <3>1, <3>4, CloseRanks
      <4>2. Within(queue', queue[i], i)
        BY <2>1, <4>1 DEF Within
      <4> QED  BY <3>4, <4>1, <4>2
    <3> QED  BY <3>3, <3>4
  <2>7. ASSUME NEW r \in Callers, HangUp(r)
        PROVE  Kept(i) /\ Moves(i)
    <3>1. PICK k \in 1 .. Len(queue) : queue[k] = r /\ queue' = Without(queue, k)
      BY <2>7 DEF HangUp
    <3>2. stage'[r] \in {"idle", "open"} /\ used' = used
      BY <2>1, <2>7 DEF HangUp
    <3>3. CASE i = k
      BY <2>1, <3>1, <3>2, <3>3 DEF Waiting
    <3>4. CASE i # k
      <4>1. Within(queue', queue[i], IF i < k THEN i ELSE i - 1)
        BY <2>1, <3>1, <3>4, CloseRanks
      <4>2. Within(queue', queue[i], i)
        BY <4>1 DEF Within
      <4> QED  BY <2>1, <3>2, <4>2
    <3> QED  BY <3>3, <3>4
  <2>8. CASE UNCHANGED vars
    BY <2>1, <2>2, <2>8 DEF vars
  <2> QED  BY <1>1, <2>4, <2>5, <2>6, <2>7, <2>8 DEF Next, Step
<1>2. ASSUME IInv, [Next]_vars
      PROVE  InOrder
  BY <1>1, <1>2 DEF InOrder
<1> QED  BY <1>2, Invariance, PTL DEF Spec
=============================================================================
