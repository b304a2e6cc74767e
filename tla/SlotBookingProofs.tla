-------------------------- MODULE SlotBookingProofs --------------------------
(***************************************************************************)
(* Theorems about SlotBooking, for any users, slots, activities, number of *)
(* requests, TTL and length of time.                                       *)
(***************************************************************************)
EXTENDS SlotBooking, TLAPS

USE DEF Exists, SlotOf, Current, NoExpiry

-----------------------------------------------------------------------------
(* The store and the Locker as functions: what they return has its type.   *)

Ops == SlotOps \cup {"checkin"}

(* Whatever an operation writes is a row and a hold again.                 *)
LEMMA WritesType ==
    ASSUME NEW op \in Ops, NEW v \in View, NEW u \in Users, NEW t \in Nat
    PROVE  OpWrites(op, v, u, t) \in View
<1>1. ASSUME NEW st \in SlotStatus \ {"OPEN"}, NEW e \in Nat \cup {NoExpiry}
      PROVE  Saved(v, u, st, e) \in View
  BY DEF Saved, View, Row, Hold, SlotStatus
<1>2. Released(v) \in View
  BY DEF Released, View, Row, Hold, FreshRow, NoHold, SlotStatus
<1>3. t + TTL \in Nat
  BY TimeAssumption
<1> QED
  BY <1>1, <1>2, <1>3 DEF OpWrites, Ops, SlotOps, SlotStatus

(* Every operation decides on one of the verdicts.                         *)
LEMMA VerdictType ==
    ASSUME NEW op \in Ops, NEW v \in View, NEW u \in Users, NEW t \in Nat
    PROVE  OpVerdict(op, v, u, t) \in Verdicts
<1>1. \A st : SaveVerdict(v, u, st) \in Verdicts
  BY DEF SaveVerdict, Verdicts
<1> QED
  BY <1>1 DEF OpVerdict, ClaimVerdict, ConfirmVerdict, ReleaseVerdict,
              CheckInVerdict, Verdicts, Ops, SlotOps

(* The rows and holds of a free slot have their types.                     *)
LEMMA NoViewType == NoView \in View /\ FreshRow \in Row /\ NoHold \in Hold
  BY DEF NoView, View, Row, Hold, FreshRow, NoHold, SlotStatus

-----------------------------------------------------------------------------
(* Type correctness needs to know a little of the control state: who is in *)
(* the middle of an operation has a call, and a slot to operate on.        *)

AtSlot(r) == pc[r] \in {"lock", "get", "apply", "unlock", "end"}

Control ==
    \A r \in Requests :
        /\ pc[r] \notin {"idle", "done"} => call[r] \in Calls
        /\ AtSlot(r) => call[r].slot \in Slots
        /\ pc[r] \in {"lock", "unlock"} => call[r].op = "claim"
        /\ pc[r] \in {"record", "find"} => call[r].op = "checkin"

Typed == TypeOK /\ Control

(* Types and control state hold initially.                                 *)
LEMMA TypedInit == Init => Typed
<1> SUFFICES ASSUME Init PROVE Typed
  OBVIOUS
<1>1. TypeOK
  BY NoViewType, TimeAssumption DEF Init, TypeOK, PCs, Verdicts
<1>2. Control
  BY DEF Init, Control, AtSlot
<1> QED BY <1>1, <1>2 DEF Typed

(* Every action keeps types and control state.                             *)
LEMMA TypedStep == Typed /\ [Next]_vars => Typed'
<1> SUFFICES ASSUME Typed, [Next]_vars PROVE Typed'
  OBVIOUS
<1> USE DEF Typed, db, Answer, Goto
<1>0. CASE UNCHANGED vars
  BY <1>0 DEF TypeOK, Control, AtSlot, vars
<1>1. ASSUME NEW a \in Activities, CreateActivity(a) \/ OpenActivity(a)
      PROVE  Typed'
  BY <1>1 DEF TypeOK, Control, AtSlot, CreateActivity, OpenActivity
<1>2. ASSUME NEW r \in Requests, NEW u \in Users, NEW a \in Activities,
             NEW op \in SlotOps, NEW s \in Slots, BeginSlotOp(r, op, u, s, a)
      PROVE  Typed'
  <2>1. call' = [call EXCEPT ![r] = [op |-> op, user |-> u, slot |-> s, act |-> a]]
        /\ [op |-> op, user |-> u, slot |-> s, act |-> a] \in Calls
    BY <1>2 DEF BeginSlotOp, Calls
  <2>2. TypeOK'
    BY <1>2, <2>1 DEF TypeOK, BeginSlotOp, PCs, Verdicts
  <2>3. Control'
    BY <1>2, <2>1 DEF TypeOK, Control, AtSlot, BeginSlotOp
  <2> QED BY <2>2, <2>3
<1>3. ASSUME NEW r \in Requests, NEW u \in Users, NEW a \in Activities,
             NEW near \in BOOLEAN, BeginCheckin(r, u, a, near)
      PROVE  Typed'
  <2>1. [op |-> "checkin", user |-> u, slot |-> NoSlot, act |-> a] \in Calls
    BY DEF Calls
  <2>2. TypeOK'
    BY <1>3, <2>1 DEF TypeOK, BeginCheckin, PCs, Verdicts
  <2>3. Control'
    BY <1>3, <2>1 DEF TypeOK, Control, AtSlot, BeginCheckin
  <2> QED BY <2>2, <2>3
<1>4. ASSUME NEW r \in Requests, TryLock(r) \/ TryLockNoReply(r)
      PROVE  Typed'
  <2>1. SlotOf(r) \in Slots
    BY <1>4 DEF TypeOK, Control, AtSlot, TryLock, TryLockNoReply
  <2>2. TypeOK'
    BY <1>4, <2>1 DEF TypeOK, TryLock, TryLockNoReply, PCs, Verdicts
  <2>3. Control'
    BY <1>4 DEF TypeOK, Control, AtSlot, TryLock, TryLockNoReply
  <2> QED BY <2>2, <2>3
<1>5. ASSUME NEW r \in Requests, GetForUpdate(r)
      PROVE  Typed'
  <2>1. Current(SlotOf(r)) \in View
    BY <1>5 DEF TypeOK, Control, AtSlot, GetForUpdate, View
  <2>2. TypeOK'
    BY <1>5, <2>1 DEF TypeOK, GetForUpdate, PCs
  <2>3. Control'
    BY <1>5 DEF TypeOK, Control, AtSlot, GetForUpdate
  <2> QED BY <2>2, <2>3
<1>6. ASSUME NEW r \in Requests, GetNoRows(r) \/ Fail(r)
      PROVE  Typed'
  <2>1. TypeOK'
    BY <1>6 DEF TypeOK, GetNoRows, Fail, AfterOp, PCs, Verdicts
  <2>2. Control'
    BY <1>6 DEF TypeOK, Control, AtSlot, GetNoRows, Fail, AfterOp
  <2> QED BY <2>1, <2>2
<1>7. ASSUME NEW r \in Requests, Apply(r)
      PROVE  Typed'
  <2>1. call[r].op \in Ops /\ call[r].user \in Users /\ tx[r] \in View /\ now \in Nat
    BY <1>7 DEF TypeOK, Control, Apply, Calls, Ops
  <2>2. /\ OpVerdict(call[r].op, tx[r], call[r].user, now) \in Verdicts
        /\ OpWrites(call[r].op, tx[r], call[r].user, now) \in View
    BY <2>1, WritesType, VerdictType
  <2>3. verdict' \in [Requests -> Verdicts] /\ tx' \in [Requests -> View]
    BY <1>7, <2>1, <2>2 DEF TypeOK, Apply
  <2>4. TypeOK'
    BY <1>7, <2>3 DEF TypeOK, Apply, AfterOp, PCs
  <2>5. Control'
    BY <1>7 DEF TypeOK, Control, AtSlot, Apply, AfterOp
  <2> QED BY <2>4, <2>5
<1>8. ASSUME NEW r \in Requests, Unlock(r)
      PROVE  Typed'
  <2>1. TypeOK'
    BY <1>8 DEF TypeOK, Unlock, PCs
  <2>2. Control'
    BY <1>8 DEF TypeOK, Control, AtSlot, Unlock
  <2> QED BY <2>1, <2>2
<1>9. ASSUME NEW r \in Requests, Commit(r) \/ Rollback(r)
      PROVE  Typed'
  <2>1. tx[r].row \in Row /\ tx[r].hold \in Hold
    BY DEF TypeOK, View
  <2>2. TypeOK'
    BY <1>9, <2>1, NoViewType
       DEF TypeOK, Commit, Rollback, FreeRow, PCs, Verdicts
  <2>3. Control'
    BY <1>9 DEF TypeOK, Control, AtSlot, Commit, Rollback
  <2> QED BY <2>2, <2>3
<1>10. ASSUME NEW r \in Requests, RecordCheckin(r)
       PROVE  Typed'
  <2>1. <<call[r].act, call[r].user>> \in Activities \X Users
    BY <1>10 DEF Control, RecordCheckin, Calls
  <2>2. TypeOK'
    BY <1>10, <2>1 DEF TypeOK, RecordCheckin, PCs, Verdicts
  <2>3. Control'
    BY <1>10 DEF TypeOK, Control, AtSlot, RecordCheckin
  <2> QED BY <2>2, <2>3
<1>11. ASSUME NEW r \in Requests, FindSlot(r)
       PROVE  Typed'
  <2>1. CASE Answer(r, "OK") /\ UNCHANGED call
    BY <1>11, <2>1 DEF TypeOK, Control, AtSlot, FindSlot, PCs, Verdicts
  <2>2. CASE Goto(r, "get") /\ UNCHANGED verdict
    <3>1. PICK s \in Slots : call' = [call EXCEPT ![r].slot = s]
      BY <1>11, <2>2 DEF FindSlot, Held, TypeOK
    <3>2. call[r] \in Calls /\ [call[r] EXCEPT !.slot = s] \in Calls
      BY <1>11, <3>1 DEF FindSlot, Control, Calls
    <3>3. call' \in [Requests -> Calls \cup {NoCall}] /\ call'[r] = [call[r] EXCEPT !.slot = s]
      BY <3>1, <3>2 DEF TypeOK
    <3>4. TypeOK'
      BY <1>11, <2>2, <3>3 DEF TypeOK, FindSlot, PCs
    <3>5. Control'
      BY <1>11, <2>2, <3>1, <3>2, <3>3 DEF TypeOK, Control, AtSlot, FindSlot, Calls
    <3> QED BY <3>4, <3>5
  <2> QED BY <1>11, <2>1, <2>2 DEF FindSlot
<1>12. ASSUME NEW t \in 0 .. now, ExpireDue(t)
       PROVE  Typed'
  <2>1. \A s \in Slots : Released(Current(s)).row \in Row
    BY DEF TypeOK, Released, Row, FreshRow, SlotStatus
  <2>2. TypeOK'
    BY <1>12, <2>1, NoViewType DEF TypeOK, ExpireDue
  <2>3. Control'
    BY <1>12 DEF Control, AtSlot, ExpireDue
  <2> QED BY <2>2, <2>3
<1>13. ASSUME NEW s \in Slots, KeyLapse(s)
       PROVE  Typed'
  BY <1>13 DEF TypeOK, Control, AtSlot, KeyLapse
<1>14. CASE Tick
  BY <1>14 DEF TypeOK, Control, AtSlot, Tick
<1>15. CASE Crash
  <2>1. TypeOK'
    BY <1>15, NoViewType DEF TypeOK, Crash, PCs, Verdicts
  <2>2. Control'
    BY <1>15 DEF TypeOK, Control, AtSlot, Crash, InFlight
  <2> QED BY <2>1, <2>2
<1> QED
  BY <1>0, <1>1, <1>2, <1>3, <1>4, <1>5, <1>6, <1>7, <1>8, <1>9, <1>10, <1>11,
     <1>12, <1>13, <1>14, <1>15 DEF Next, Arrive, Proceed, Break

(* Every variable always has its type.                                     *)
THEOREM TypeCorrect == Spec => []TypeOK
<1>1. Spec => []Typed
  BY TypedInit, TypedStep, PTL DEF Spec
<1>2. Typed => TypeOK
  BY DEF Typed
<1> QED BY <1>1, <1>2, PTL

-----------------------------------------------------------------------------
(* The inductive invariant.  A view agrees with itself when its row of     *)
(* slots and its row of slot_holds do; a write is legal when it is the     *)
(* operation's step of the state machine, made for the right user.         *)

Agrees(v) ==
    /\ v.hold = [user |-> v.row.holder, status |-> v.row.status]
    /\ v.row.status = "OPEN" <=> v.row.holder = NoUser
    /\ v.row.status = "LOCKED" <=> v.row.expires # NoExpiry

Legal(op, u, from, to) ==
    /\ to.version = from.version + 1
    /\ to.status = Target(op)
    /\ to.holder = IF op = "release" THEN NoUser ELSE u
    /\ from.holder = IF op = "claim" THEN NoUser ELSE u
    /\ op = "claim" => from.status = "OPEN"
    /\ op = "confirm" => from.status = "LOCKED"
    /\ op = "release" => from.status \in {"LOCKED", "CONFIRMED"}
    /\ op = "checkin" => from.status \in {"CONFIRMED", "CHECKED_IN"}

(* Between its read and the end of its transaction a request has the row   *)
(* to itself, and what it is about to commit is legal.                     *)
Exclusive ==
    \A r \in Requests :
        /\ pc[r] = "apply" =>
             rowLock[SlotOf(r)] = r /\ tx[r] = Current(SlotOf(r))
        /\ pc[r] \in {"unlock", "end"} /\ verdict[r] = "OK" =>
             /\ rowLock[SlotOf(r)] = r
             /\ Agrees(tx[r])
             /\ Legal(call[r].op, call[r].user, slots[SlotOf(r)], tx[r].row)

(* A check-in is on record before its slot is looked up, and the slot is   *)
(* one of the activity's.                                                  *)
Recorded ==
    \A r \in Requests : call[r].op = "checkin" =>
        /\ pc[r] = "find" \/ AtSlot(r) => <<call[r].act, call[r].user>> \in checkins
        /\ AtSlot(r) => Home[SlotOf(r)] = call[r].act

(* A winning claim was given a version that the slot has not fallen behind.*)
Past ==
    \A r \in Requests :
        pc[r] = "done" /\ verdict[r] = "OK" /\ call[r].op = "claim" =>
            /\ SlotOf(r) \in Slots
            /\ tx[r].row.version <= slots[SlotOf(r)].version

IInv ==
    /\ Typed
    /\ HoldsMatchSlots
    /\ Exclusive
    /\ Recorded
    /\ CheckedInRecorded
    /\ Past
    /\ WinnersDiffer

(* On a view that agrees with itself every operation that succeeds leaves  *)
(* one that agrees with itself, and makes a legal step.                    *)
LEMMA OperationsLegal ==
    ASSUME NEW op \in Ops, NEW v \in View, NEW u \in Users, NEW t \in Nat,
           Agrees(v), OpVerdict(op, v, u, t) = "OK"
    PROVE  /\ Agrees(OpWrites(op, v, u, t))
           /\ Legal(op, u, v.row, OpWrites(op, v, u, t).row)
<1> USE NobodyAssumption, TimeAssumption
    DEF Agrees, Legal, Target, OpVerdict, OpWrites, View, Row, Saved, Released,
        FreshRow, NoHold, CanSlot, SaveVerdict, UpdateMatches
<1>1. CASE op = "claim"
  BY <1>1 DEF ClaimVerdict
<1>2. CASE op = "confirm"
  BY <1>2 DEF ConfirmVerdict
<1>3. CASE op = "release"
  BY <1>3 DEF ReleaseVerdict
<1>4. CASE op = "checkin"
  BY <1>4 DEF CheckInVerdict
<1> QED
  BY <1>1, <1>2, <1>3, <1>4 DEF Ops, SlotOps

(* On such a view the store never refuses a write the state machine allows.*)
LEMMA StoreAccepts ==
    ASSUME NEW op \in Ops, NEW v \in View, NEW u \in Users, NEW t \in Nat,
           Agrees(v)
    PROVE  /\ OpVerdict(op, v, u, t) # "BAD_STATE"
           /\ v.row.status = "OPEN" => v.hold = NoHold
<1> USE NobodyAssumption DEF Agrees, View, Row, CanSlot, NoHold
<1>1. v.row.status = "OPEN" => v.hold = NoHold
  OBVIOUS
<1>2. op \in {"claim", "confirm", "release", "checkin"}
  BY DEF Ops, SlotOps
<1>3. OpVerdict(op, v, u, t) # "BAD_STATE"
  BY <1>2 DEF OpVerdict, ClaimVerdict, ConfirmVerdict, ReleaseVerdict,
              CheckInVerdict, SaveVerdict, UpdateMatches
<1> QED BY <1>1, <1>3

(* The inductive invariant holds of the empty tables.                      *)
LEMMA SafeInit == Init => IInv
<1> SUFFICES ASSUME Init PROVE IInv
  OBVIOUS
<1>1. Typed
  BY TypedInit
<1>2. HoldsMatchSlots /\ CheckedInRecorded
  BY DEF Init, HoldsMatchSlots, CheckedInRecorded, FreshRow, NoHold
<1>3. Exclusive /\ Recorded /\ Past /\ WinnersDiffer
  BY DEF Init, Exclusive, Recorded, Past, WinnersDiffer, NoCall
<1> QED BY <1>1, <1>2, <1>3 DEF IInv

(* The parts of the invariant that a step leaving the tables alone can     *)
(* disturb are those about requests.                                       *)
LEMMA TablesAlone ==
    ASSUME IInv, [Next]_vars, UNCHANGED db,
           Exclusive', Recorded', Past', WinnersDiffer'
    PROVE  IInv'
<1>1. Typed'
  BY TypedStep DEF IInv
<1>2. HoldsMatchSlots' /\ CheckedInRecorded'
  BY DEF IInv, HoldsMatchSlots, CheckedInRecorded, db
<1> QED BY <1>1, <1>2 DEF IInv

(* Every action of a request, of the sweep, of Redis and of a crash keeps  *)
(* the inductive invariant.                                                *)
LEMMA SafeStep == IInv /\ [Next]_vars => IInv'
<1> SUFFICES ASSUME IInv, [Next]_vars PROVE IInv'
  OBVIOUS
<1> USE DEF db, Answer, Goto
<1>t. TypeOK /\ Control /\ Typed'
  BY TypedStep DEF IInv, Typed
<1>i. HoldsMatchSlots /\ Exclusive /\ Recorded /\ CheckedInRecorded /\ Past /\ WinnersDiffer
  BY DEF IInv
<1>0. CASE UNCHANGED vars
  BY <1>0, <1>i, TablesAlone
     DEF vars, Exclusive, Recorded, AtSlot, Past, WinnersDiffer
<1>1. ASSUME NEW a \in Activities, CreateActivity(a) \/ OpenActivity(a)
      PROVE  IInv'
  BY <1>1, <1>t, <1>i DEF CreateActivity, OpenActivity, IInv, Exclusive, Recorded,
         AtSlot, Past, WinnersDiffer, HoldsMatchSlots, CheckedInRecorded
<1>2. ASSUME NEW r \in Requests, NEW u \in Users, NEW a \in Activities,
             NEW op \in SlotOps, NEW s \in Slots, BeginSlotOp(r, op, u, s, a)
      PROVE  IInv'
  <2>1. /\ call' = [call EXCEPT ![r] = [op |-> op, user |-> u, slot |-> s, act |-> a]]
        /\ pc' \in {[pc EXCEPT ![r] = l] : l \in {"done", "lock", "get"}}
        /\ pc'[r] = "done" => verdict'[r] # "OK"
        /\ pc[r] = "idle"
        /\ op # "checkin"
    BY <1>2, <1>t DEF BeginSlotOp, TypeOK, SlotOps
  <2>2. \A q \in Requests \ {r} : /\ pc'[q] = pc[q] /\ call'[q] = call[q]
                                  /\ verdict'[q] = verdict[q]
    BY <1>2, <1>t DEF BeginSlotOp, TypeOK
  <2>3. UNCHANGED <<db, rowLock, tx>>
    BY <1>2 DEF BeginSlotOp
  <2>4. Exclusive'
    BY <2>1, <2>2, <2>3, <1>t, <1>i DEF Exclusive, TypeOK
  <2>5. Recorded'
    BY <2>1, <2>2, <2>3, <1>t, <1>i DEF Recorded, AtSlot, TypeOK
  <2>6. Past' /\ WinnersDiffer'
    BY <2>1, <2>2, <2>3, <1>t, <1>i DEF Past, WinnersDiffer, TypeOK
  <2> QED BY <2>3, <2>4, <2>5, <2>6, TablesAlone
<1>3. ASSUME NEW r \in Requests, NEW u \in Users, NEW a \in Activities,
             NEW near \in BOOLEAN, BeginCheckin(r, u, a, near)
      PROVE  IInv'
  <2>1. /\ pc'[r] \in {"done", "record"}
        /\ pc'[r] = "done" => verdict'[r] # "OK"
    BY <1>3, <1>t DEF BeginCheckin, TypeOK
  <2>2. \A q \in Requests \ {r} : /\ pc'[q] = pc[q] /\ call'[q] = call[q]
                                  /\ verdict'[q] = verdict[q]
    BY <1>3, <1>t DEF BeginCheckin, TypeOK
  <2>3. UNCHANGED <<db, rowLock, tx>>
    BY <1>3 DEF BeginCheckin
  <2>4. Exclusive' /\ Recorded' /\ Past' /\ WinnersDiffer'
    BY <2>1, <2>2, <2>3, <1>i DEF Exclusive, Recorded, AtSlot, Past, WinnersDiffer
  <2> QED BY <2>3, <2>4, TablesAlone
<1>4. ASSUME NEW r \in Requests, TryLock(r) \/ TryLockNoReply(r)
      PROVE  IInv'
  <2>1. /\ pc[r] = "lock" /\ call[r].op = "claim"
        /\ pc'[r] \in {"done", "get"}
        /\ pc'[r] = "done" => verdict'[r] # "OK"
    BY <1>4, <1>t DEF TryLock, TryLockNoReply, TypeOK, Control
  <2>2. \A q \in Requests \ {r} : pc'[q] = pc[q] /\ verdict'[q] = verdict[q]
    BY <1>4, <1>t DEF TryLock, TryLockNoReply, TypeOK
  <2>3. UNCHANGED <<db, rowLock, tx, call>>
    BY <1>4 DEF TryLock, TryLockNoReply
  <2>4. Exclusive' /\ Recorded' /\ Past' /\ WinnersDiffer'
    BY <2>1, <2>2, <2>3, <1>i DEF Exclusive, Recorded, AtSlot, Past, WinnersDiffer
  <2> QED BY <2>3, <2>4, TablesAlone
<1>5. ASSUME NEW r \in Requests, GetForUpdate(r)
      PROVE  IInv'
  <2>1. SlotOf(r) \in Slots
    BY <1>5, <1>t DEF GetForUpdate, Control, AtSlot
  <2>2. /\ pc' = [pc EXCEPT ![r] = "apply"]
        /\ tx' = [tx EXCEPT ![r] = Current(SlotOf(r))]
        /\ rowLock' = [rowLock EXCEPT ![SlotOf(r)] = r]
        /\ rowLock[SlotOf(r)] = NoRequest
        /\ pc[r] = "get"
        /\ UNCHANGED <<db, call, verdict>>
    BY <1>5 DEF GetForUpdate
  <2>3. Exclusive'
    BY <2>1, <2>2, <1>t, <1>i, NobodyAssumption DEF Exclusive, TypeOK
  <2>4. Recorded' /\ Past' /\ WinnersDiffer'
    BY <2>2, <1>t, <1>i DEF Recorded, AtSlot, Past, WinnersDiffer, TypeOK
  <2> QED BY <2>2, <2>3, <2>4, TablesAlone
<1>6. ASSUME NEW r \in Requests, GetNoRows(r) \/ Fail(r)
      PROVE  IInv'
  <2>1. /\ pc[r] \in {"get", "apply"} /\ pc'[r] \in {"unlock", "end"}
        /\ verdict'[r] # "OK"
    BY <1>6, <1>t DEF GetNoRows, Fail, AfterOp, TypeOK
  <2>2. \A q \in Requests \ {r} : pc'[q] = pc[q] /\ verdict'[q] = verdict[q]
    BY <1>6, <1>t DEF GetNoRows, Fail, TypeOK
  <2>3. UNCHANGED <<db, rowLock, tx, call>>
    BY <1>6 DEF GetNoRows, Fail
  <2>4. Exclusive' /\ Recorded' /\ Past' /\ WinnersDiffer'
    BY <2>1, <2>2, <2>3, <1>i DEF Exclusive, Recorded, AtSlot, Past, WinnersDiffer
  <2> QED BY <2>3, <2>4, TablesAlone
<1>7. ASSUME NEW r \in Requests, Apply(r)
      PROVE  IInv'
  <2> DEFINE c == call[r]
             v == OpVerdict(c.op, tx[r], c.user, now)
             w == OpWrites(c.op, tx[r], c.user, now)
  <2>1. /\ c.op \in Ops /\ c.user \in Users /\ tx[r] \in View /\ now \in Nat
        /\ SlotOf(r) \in Slots /\ pc[r] = "apply"
    BY <1>7, <1>t DEF Apply, TypeOK, Control, AtSlot, Calls, Ops
  <2>2. /\ pc'[r] \in {"unlock", "end"} /\ verdict'[r] = v
        /\ v = "OK" => tx'[r] = w
        /\ UNCHANGED <<db, rowLock, call>>
    BY <1>7, <1>t DEF Apply, AfterOp, TypeOK
  <2>3. \A q \in Requests \ {r} : /\ pc'[q] = pc[q] /\ tx'[q] = tx[q]
                                  /\ verdict'[q] = verdict[q]
    BY <1>7, <1>t DEF Apply, TypeOK
  <2>4. rowLock[SlotOf(r)] = r /\ tx[r] = Current(SlotOf(r)) /\ Agrees(tx[r])
    BY <2>1, <1>i DEF Exclusive, HoldsMatchSlots, Agrees
  <2>5. v = "OK" => Agrees(w) /\ Legal(c.op, c.user, tx[r].row, w.row)
    BY <2>1, <2>4, OperationsLegal
  <2>6. Exclusive'
    BY <2>1, <2>2, <2>3, <2>4, <2>5, <1>i DEF Exclusive
  <2>7. Recorded' /\ Past' /\ WinnersDiffer'
    BY <2>1, <2>2, <2>3, <1>i DEF Recorded, AtSlot, Past, WinnersDiffer
  <2> QED BY <2>2, <2>6, <2>7, TablesAlone
<1>8. ASSUME NEW r \in Requests, Unlock(r)
      PROVE  IInv'
  <2>1. /\ pc[r] = "unlock" /\ pc' = [pc EXCEPT ![r] = "end"]
        /\ UNCHANGED <<db, rowLock, call, tx, verdict>>
    BY <1>8 DEF Unlock
  <2>2. Exclusive' /\ Recorded' /\ Past' /\ WinnersDiffer'
    BY <2>1, <1>t, <1>i DEF Exclusive, Recorded, AtSlot, Past, WinnersDiffer, TypeOK
  <2> QED BY <2>1, <2>2, TablesAlone
<1>9. ASSUME NEW r \in Requests, Commit(r)
      PROVE  IInv'
  <2> DEFINE s == SlotOf(r)
  <2>1. /\ pc[r] = "end" /\ verdict[r] = "OK" /\ pc'[r] = "done"
        /\ slots' = [slots EXCEPT ![s] = tx[r].row]
        /\ holds' = [holds EXCEPT ![s] = tx[r].hold]
        /\ \A x \in Slots : rowLock'[x] = IF rowLock[x] = r THEN NoRequest ELSE rowLock[x]
        /\ UNCHANGED <<checkins, call, tx>>
    BY <1>9, <1>t DEF Commit, FreeRow, TypeOK
  <2>2. \A q \in Requests \ {r} : pc'[q] = pc[q] /\ verdict'[q] = verdict[q]
    BY <1>9, <1>t DEF Commit, TypeOK
  <2>3. s \in Slots /\ rowLock[s] = r /\ Agrees(tx[r])
        /\ Legal(call[r].op, call[r].user, slots[s], tx[r].row)
        /\ call[r].op \in Ops
    BY <2>1, <1>t, <1>i DEF Control, AtSlot, Exclusive, Ops, Calls
  <2>4. HoldsMatchSlots'
    BY <2>1, <2>3, <1>t, <1>i DEF HoldsMatchSlots, Agrees, TypeOK
  <2>5. Exclusive'
    <3> SUFFICES ASSUME NEW q \in Requests, q # r,
                        pc[q] \in {"apply", "unlock", "end"},
                        pc[q] # "apply" => verdict[q] = "OK"
                 PROVE  rowLock'[SlotOf(q)] = q /\ SlotOf(q) # s /\ SlotOf(q) \in Slots
      BY <2>1, <2>2, <1>t, <1>i DEF Exclusive, TypeOK
    <3> QED BY <2>1, <2>3, <1>t, <1>i DEF Exclusive, Control, AtSlot
  <2>6. Recorded'
    BY <2>1, <2>2, <1>i DEF Recorded, AtSlot
  <2>7. CheckedInRecorded'
    <3>1. tx[r].row.status = "CHECKED_IN" => <<Home[s], tx[r].row.holder>> \in checkins
      <4> SUFFICES ASSUME tx[r].row.status = "CHECKED_IN"
                   PROVE  <<Home[s], tx[r].row.holder>> \in checkins
        OBVIOUS
      <4>1. call[r].op = "checkin" /\ tx[r].row.holder = call[r].user
        BY <2>3 DEF Legal, Target, Ops, SlotOps
      <4> QED BY <4>1, <2>1, <1>i DEF Recorded, AtSlot
    <3> QED BY <3>1, <2>1, <2>3, <1>t, <1>i DEF CheckedInRecorded, TypeOK
  <2>8. tx[r].row.version > slots[s].version /\ \A x \in Slots : slots'[x].version >= slots[x].version
    BY <2>1, <2>3, <1>t DEF Legal, TypeOK, Row
  <2>9. \A q \in Requests : tx[q].row.version \in Int
    BY <1>t DEF TypeOK, View, Row
  <2>10. \A x \in Slots : slots[x].version \in Int /\ slots'[x].version \in Int
    BY <1>t DEF Typed, TypeOK, Row
  <2>11. Past'
    BY <2>1, <2>2, <2>3, <2>8, <2>9, <2>10, <1>t, <1>i DEF Past, TypeOK
  <2>12. WinnersDiffer'
    BY <2>1, <2>2, <2>3, <2>8, <2>9, <2>10, <1>i DEF WinnersDiffer, Past
  <2> QED BY <2>4, <2>5, <2>6, <2>7, <2>11, <2>12, <1>t DEF IInv
<1>10. ASSUME NEW r \in Requests, Rollback(r)
       PROVE  IInv'
  <2>1. /\ pc[r] = "end" /\ pc'[r] = "done" /\ verdict'[r] # "OK"
        /\ \A x \in Slots : rowLock'[x] = IF rowLock[x] = r THEN NoRequest ELSE rowLock[x]
        /\ UNCHANGED <<db, call>>
    BY <1>10, <1>t DEF Rollback, FreeRow, TypeOK
  <2>2. \A q \in Requests \ {r} : /\ pc'[q] = pc[q] /\ tx'[q] = tx[q]
                                  /\ verdict'[q] = verdict[q]
    BY <1>10, <1>t DEF Rollback, TypeOK
  <2>3. \A q \in Requests : pc[q] \in {"apply", "unlock", "end"} => SlotOf(q) \in Slots
    BY <1>t DEF Control, AtSlot
  <2>4. Exclusive'
    BY <2>1, <2>2, <2>3, <1>i DEF Exclusive
  <2>5. Recorded' /\ Past' /\ WinnersDiffer'
    BY <2>1, <2>2, <1>i DEF Recorded, AtSlot, Past, WinnersDiffer
  <2> QED BY <2>1, <2>4, <2>5, TablesAlone
<1>11. ASSUME NEW r \in Requests, RecordCheckin(r)
       PROVE  IInv'
  <2>1. /\ pc[r] = "record" /\ call[r].op = "checkin"
        /\ checkins \subseteq checkins'
        /\ pc'[r] = "find" => <<call[r].act, call[r].user>> \in checkins'
        /\ pc'[r] \in {"find", "done"}
        /\ UNCHANGED <<slots, holds, rowLock, call, tx>>
    BY <1>11, <1>t DEF RecordCheckin, TypeOK, Control
  <2>2. \A q \in Requests \ {r} : pc'[q] = pc[q] /\ verdict'[q] = verdict[q]
    BY <1>11, <1>t DEF RecordCheckin, TypeOK
  <2>3. Exclusive' /\ Past' /\ WinnersDiffer'
    BY <2>1, <2>2, <1>i DEF Exclusive, Past, WinnersDiffer
  <2>4. Recorded'
    BY <2>1, <2>2, <1>i DEF Recorded, AtSlot
  <2>5. HoldsMatchSlots' /\ CheckedInRecorded'
    BY <2>1, <1>i DEF HoldsMatchSlots, CheckedInRecorded
  <2> QED BY <2>3, <2>4, <2>5, <1>t DEF IInv
<1>12. ASSUME NEW r \in Requests, FindSlot(r)
       PROVE  IInv'
  <2>1. /\ pc[r] = "find" /\ call[r].op = "checkin" /\ call[r] \in Calls
        /\ UNCHANGED <<db, rowLock, tx>>
    BY <1>12, <1>t DEF FindSlot, Control
  <2>2. \A q \in Requests \ {r} : /\ pc'[q] = pc[q] /\ call'[q] = call[q]
                                  /\ verdict'[q] = verdict[q]
    BY <1>12, <1>t DEF FindSlot, TypeOK
  <2>3. CASE Answer(r, "OK") /\ UNCHANGED call
    <3>1. pc'[r] = "done" /\ call' = call
      BY <2>3, <1>t DEF TypeOK
    <3>2. Exclusive' /\ Recorded' /\ Past' /\ WinnersDiffer'
      BY <3>1, <2>1, <2>2, <1>i DEF Exclusive, Recorded, AtSlot, Past, WinnersDiffer
    <3> QED BY <3>2, <2>1, TablesAlone
  <2>4. CASE Goto(r, "get") /\ UNCHANGED verdict
    <3>1. PICK s \in Held(call[r].act, call[r].user) : call' = [call EXCEPT ![r].slot = s]
      BY <1>12, <2>4, <1>t DEF FindSlot, TypeOK
    <3>2. /\ pc'[r] = "get" /\ Home[s] = call[r].act
          /\ call'[r] = [call[r] EXCEPT !.slot = s]
      BY <3>1, <2>4, <1>t DEF Held, TypeOK
    <3>3. /\ call'[r].op = "checkin" /\ call'[r].slot = s
          /\ call'[r].act = call[r].act /\ call'[r].user = call[r].user
      BY <3>2, <2>1 DEF Calls
    <3>4. Exclusive' /\ Past' /\ WinnersDiffer'
      BY <3>2, <3>3, <2>1, <2>2, <1>i DEF Exclusive, Past, WinnersDiffer
    <3>5. Recorded'
      BY <3>2, <3>3, <2>1, <2>2, <1>i DEF Recorded, AtSlot
    <3> QED BY <3>4, <3>5, <2>1, TablesAlone
  <2> QED BY <1>12, <2>3, <2>4 DEF FindSlot
<1>13. ASSUME NEW t \in 0 .. now, ExpireDue(t)
       PROVE  IInv'
  <2>1. /\ \A s \in Due(t) : s \in Slots /\ rowLock[s] = NoRequest
        /\ UNCHANGED <<checkins, rowLock, pc, call, tx, verdict>>
    BY <1>13 DEF ExpireDue, Due
  <2>2. \A s \in Slots : s \notin Due(t) => slots'[s] = slots[s] /\ holds'[s] = holds[s]
    BY <1>13 DEF ExpireDue
  <2>3. \A s \in Due(t) :
          /\ slots'[s] = [FreshRow EXCEPT !.version = slots[s].version + 1]
          /\ holds'[s] = NoHold
    BY <1>13, <2>1 DEF ExpireDue, Released
  <2>4. \A s \in Due(t) :
          /\ slots'[s].status = "OPEN" /\ slots'[s].holder = NoUser
          /\ slots'[s].expires = NoExpiry /\ slots'[s].version = slots[s].version + 1
    BY <2>3 DEF FreshRow
  <2>5. HoldsMatchSlots'
    BY <2>1, <2>2, <2>3, <2>4, <1>i DEF HoldsMatchSlots, NoHold
  <2>6. Exclusive'
    <3>1. ASSUME NEW q \in Requests, rowLock[SlotOf(q)] = q, SlotOf(q) \in Slots
          PROVE  slots'[SlotOf(q)] = slots[SlotOf(q)] /\ holds'[SlotOf(q)] = holds[SlotOf(q)]
      BY <3>1, <2>1, <2>2, NobodyAssumption
    <3>2. \A q \in Requests : pc[q] \in {"apply", "unlock", "end"} => SlotOf(q) \in Slots
      BY <1>t DEF Control, AtSlot
    <3> QED BY <3>1, <3>2, <2>1, <1>i DEF Exclusive
  <2>7. Recorded' /\ WinnersDiffer'
    BY <2>1, <1>i DEF Recorded, AtSlot, WinnersDiffer
  <2>8. CheckedInRecorded'
    BY <2>1, <2>2, <2>4, <1>i DEF CheckedInRecorded
  <2>9. \A s \in Slots : /\ slots[s].version \in Int
                         /\ slots'[s].version = slots[s].version
                            \/ slots'[s].version = slots[s].version + 1
    BY <2>2, <2>4, <1>t DEF TypeOK, Row
  <2>10. \A q \in Requests : tx[q].row.version \in Int
    BY <1>t DEF TypeOK, View, Row
  <2>11. Past'
    BY <2>1, <2>9, <2>10, <1>i DEF Past
  <2> QED BY <2>5, <2>6, <2>7, <2>8, <2>11, <1>t DEF IInv
<1>14. ASSUME (\E s \in Slots : KeyLapse(s)) \/ Tick
       PROVE  IInv'
  <2>1. UNCHANGED <<db, rowLock, pc, call, tx, verdict>>
    BY <1>14 DEF KeyLapse, Tick
  <2> QED BY <2>1, <1>i, TablesAlone
             DEF Exclusive, Recorded, AtSlot, Past, WinnersDiffer
<1>15. CASE Crash
  <2>1. /\ \A q \in Requests : pc'[q] \in {"idle", "done"}
        /\ \A q \in Requests : pc'[q] = "done" /\ verdict'[q] = "OK" =>
              pc[q] = "done" /\ verdict[q] = "OK" /\ tx'[q] = tx[q]
        /\ UNCHANGED <<db, call>>
    BY <1>15, <1>t DEF Crash, InFlight, TypeOK
  <2>2. Exclusive' /\ Recorded' /\ Past' /\ WinnersDiffer'
    BY <2>1, <1>i DEF Exclusive, Recorded, AtSlot, Past, WinnersDiffer
  <2> QED BY <2>1, <2>2, TablesAlone
<1> QED
  BY <1>0, <1>1, <1>2, <1>3, <1>4, <1>5, <1>6, <1>7, <1>8, <1>9, <1>10, <1>11,
     <1>12, <1>13, <1>14, <1>15 DEF Next, Arrive, Proceed, Break

(* The inductive invariant that the theorems below rest on.                *)
THEOREM Invariance == Spec => []IInv
BY SafeInit, SafeStep, PTL DEF Spec

-----------------------------------------------------------------------------
(* The theorems.                                                           *)

(* Tables slots and slot_holds never disagree, and a slot is checked in    *)
(* only by a user whose check-in is on record.                             *)
THEOREM TablesAlwaysMatch == Spec => []TablesMatch
<1>1. IInv => TablesMatch
  BY DEF IInv, TablesMatch
<1> QED BY <1>1, Invariance, PTL

(* The row lock makes the conditional UPDATE and the unique key redundant. *)
THEOREM RowLockAlwaysSuffices == Spec => []RowLockSuffices
<1>1. IInv => RowLockSuffices
  <2> SUFFICES ASSUME IInv, NEW r \in Requests
               PROVE  /\ pc[r] = "apply" =>
                           /\ rowLock[SlotOf(r)] = r
                           /\ tx[r] = Current(SlotOf(r))
                           /\ OpVerdict(call[r].op, tx[r], call[r].user, now) # "BAD_STATE"
                           /\ tx[r].row.status = "OPEN" => tx[r].hold = NoHold
                      /\ pc[r] \in {"unlock", "end"} /\ verdict[r] = "OK" =>
                           /\ rowLock[SlotOf(r)] = r
                           /\ tx[r].row.version = slots[SlotOf(r)].version + 1
    BY DEF RowLockSuffices
  <2>1. CASE pc[r] = "apply"
    <3>1. /\ call[r].op \in Ops /\ call[r].user \in Users /\ now \in Nat
          /\ tx[r] \in View /\ SlotOf(r) \in Slots
      BY <2>1 DEF IInv, Typed, TypeOK, Control, AtSlot, Calls, Ops
    <3>2. rowLock[SlotOf(r)] = r /\ tx[r] = Current(SlotOf(r)) /\ Agrees(tx[r])
      BY <2>1, <3>1 DEF IInv, Exclusive, HoldsMatchSlots, Agrees
    <3> QED BY <2>1, <3>1, <3>2, StoreAccepts
  <2>2. CASE pc[r] # "apply"
    BY <2>2 DEF IInv, Exclusive, Legal
  <2> QED BY <2>1, <2>2
<1> QED BY <1>1, Invariance, PTL

(* No two claims win the same holding of a slot, with any number of        *)
(* claimants, whatever Redis does.                                         *)
THEOREM OneWinner == Spec => []WinnersDiffer
<1>1. IInv => WinnersDiffer
  BY DEF IInv
<1> QED BY <1>1, Invariance, PTL

(* What a step does to the rows of slots: nothing, one request's commit of *)
(* a legal write, or the sweep.                                            *)
LEMMA RowsMove ==
    ASSUME IInv, [Next]_vars
    PROVE  \/ UNCHANGED <<slots, holds>>
           \/ \E r \in Requests :
                /\ Commit(r)
                /\ pc[r] = "end" /\ pc'[r] = "done"
                /\ SlotOf(r) \in Slots
                /\ call[r].op \in Ops /\ call[r].user \in Users
                /\ slots' = [slots EXCEPT ![SlotOf(r)] = tx[r].row]
                /\ Legal(call[r].op, call[r].user, slots[SlotOf(r)], tx[r].row)
           \/ \E t \in 0 .. now : ExpireDue(t)
<1> USE DEF db
<1>1. CASE UNCHANGED vars
  BY <1>1 DEF vars
<1>2. ASSUME NEW a \in Activities, CreateActivity(a) \/ OpenActivity(a)
      PROVE  UNCHANGED <<slots, holds>>
  BY <1>2 DEF CreateActivity, OpenActivity
<1>3. ASSUME NEW r \in Requests, Arrive(r) \/ Break(r)
      PROVE  UNCHANGED <<slots, holds>>
  BY <1>3 DEF Arrive, BeginSlotOp, BeginCheckin, Break, TryLockNoReply, Fail
<1>4. ASSUME NEW r \in Requests, Proceed(r), ~Commit(r)
      PROVE  UNCHANGED <<slots, holds>>
  BY <1>4 DEF Proceed, TryLock, GetForUpdate, GetNoRows, Apply, Unlock, Rollback,
              RecordCheckin, FindSlot
<1>5. ASSUME NEW r \in Requests, Commit(r)
      PROVE  /\ pc[r] = "end" /\ pc'[r] = "done"
             /\ SlotOf(r) \in Slots
             /\ call[r].op \in Ops /\ call[r].user \in Users
             /\ slots' = [slots EXCEPT ![SlotOf(r)] = tx[r].row]
             /\ Legal(call[r].op, call[r].user, slots[SlotOf(r)], tx[r].row)
  BY <1>5 DEF Commit, Answer, IInv, Typed, TypeOK, Control, AtSlot, Exclusive,
              Calls, Ops
<1>6. ASSUME (\E s \in Slots : KeyLapse(s)) \/ Tick \/ Crash
      PROVE  UNCHANGED <<slots, holds>>
  BY <1>6 DEF KeyLapse, Tick, Crash
<1> QED
  BY <1>1, <1>2, <1>3, <1>4, <1>5, <1>6 DEF Next

(* What the sweep does to them: every lock that has lapsed becomes free.   *)
LEMMA SweepFrees ==
    ASSUME IInv, NEW t \in 0 .. now, ExpireDue(t)
    PROVE  /\ Due(t) \subseteq Due(now)
           /\ \A s \in Slots : slots'[s] # slots[s] => s \in Due(t)
           /\ \A s \in Due(t) : /\ slots[s].status = "LOCKED"
                                /\ slots'[s].status = "OPEN"
                                /\ slots'[s].holder = NoUser
<1>1. \A s \in Slots : slots[s].expires \in Int /\ now \in Int
  BY DEF IInv, Typed, TypeOK, Row
<1>2. Due(t) \subseteq Due(now) /\ \A s \in Due(t) : slots[s].status = "LOCKED"
  BY <1>1 DEF Due, Lapsed
<1>3. \A s \in Slots : slots'[s] # slots[s] => s \in Due(t)
  BY DEF ExpireDue
<1>4. \A s \in Due(t) : slots'[s] = [FreshRow EXCEPT !.version = slots[s].version + 1]
  BY DEF ExpireDue, Released, Due
<1>5. \A s \in Due(t) : slots'[s].status = "OPEN" /\ slots'[s].holder = NoUser
  BY <1>4 DEF FreshRow
<1> QED BY <1>2, <1>3, <1>5

(* Nobody loses a slot that has not lapsed without having asked.           *)
THEOREM NobodyEvicted == Spec => HolderConsent
<1>1. IInv /\ [Next]_vars =>
        [\A s \in Slots :
           slots[s].status # "OPEN" /\ slots'[s] # slots[s] =>
              \/ s \in Due(now) /\ slots'[s].status = "OPEN"
              \/ \E r \in Requests : /\ pc[r] = "end" /\ pc'[r] = "done"
                                     /\ SlotOf(r) = s
                                     /\ call[r].user = slots[s].holder]_vars
  <2> SUFFICES ASSUME IInv, [Next]_vars, NEW s \in Slots,
                      slots[s].status # "OPEN", slots'[s] # slots[s]
               PROVE  \/ s \in Due(now) /\ slots'[s].status = "OPEN"
                      \/ \E r \in Requests : /\ pc[r] = "end" /\ pc'[r] = "done"
                                             /\ SlotOf(r) = s
                                             /\ call[r].user = slots[s].holder
    OBVIOUS
  <2>1. ASSUME NEW t \in 0 .. now, ExpireDue(t)
        PROVE  s \in Due(now) /\ slots'[s].status = "OPEN"
    BY <2>1, SweepFrees
  <2>2. ASSUME NEW r \in Requests, pc[r] = "end", pc'[r] = "done",
               slots' = [slots EXCEPT ![SlotOf(r)] = tx[r].row],
               Legal(call[r].op, call[r].user, slots[SlotOf(r)], tx[r].row)
        PROVE  SlotOf(r) = s /\ call[r].user = slots[s].holder
    BY <2>2 DEF Legal, IInv, Typed, TypeOK
  <2> QED BY <2>1, <2>2, RowsMove
<1> QED BY <1>1, Invariance, PTL DEF Spec, HolderConsent

-----------------------------------------------------------------------------
(* Whose step it is, and what follows from it for waiting and refusing.    *)

(* What a request is doing changes by a step of its own or with its server.*)
LEMMA StepOf ==
    ASSUME IInv, [Next]_vars, NEW r \in Requests
    PROVE  \/ pc'[r] = pc[r] /\ call'[r] = call[r] /\ verdict'[r] = verdict[r]
              /\ (\A s \in Slots : rowLock'[s] = r <=> rowLock[s] = r)
           \/ Arrive(r) \/ Proceed(r) \/ Break(r)
           \/ Crash
<1> USE DEF Goto, Answer, db
<1>t. TypeOK /\ Control /\ r # NoRequest
  BY NobodyAssumption DEF IInv, Typed
<1>0. CASE UNCHANGED vars
  BY <1>0 DEF vars
<1>1. ASSUME NEW a \in Activities, CreateActivity(a) \/ OpenActivity(a)
      PROVE  UNCHANGED <<pc, call, verdict, rowLock>>
  BY <1>1 DEF CreateActivity, OpenActivity
<1>2. ASSUME NEW q \in Requests, q # r, Arrive(q)
      PROVE  pc'[r] = pc[r] /\ call'[r] = call[r] /\ verdict'[r] = verdict[r]
             /\ rowLock' = rowLock
  BY <1>2, <1>t DEF Arrive, BeginSlotOp, BeginCheckin, TypeOK
<1>3. ASSUME NEW q \in Requests, q # r, Proceed(q) \/ Break(q)
      PROVE  pc'[r] = pc[r] /\ call'[r] = call[r] /\ verdict'[r] = verdict[r]
  BY <1>3, <1>t DEF Proceed, TryLock, GetForUpdate, GetNoRows, Apply, Unlock, Commit,
     Rollback, RecordCheckin, FindSlot, Break, TryLockNoReply, Fail, TypeOK
<1>4. ASSUME NEW q \in Requests, q # r, Proceed(q) \/ Break(q), NEW s \in Slots
      PROVE  rowLock'[s] = r <=> rowLock[s] = r
  <2>1. CASE GetForUpdate(q)
    <3>1. SlotOf(q) \in Slots
      BY <2>1, <1>t DEF GetForUpdate, Control, AtSlot
    <3> QED BY <2>1, <3>1, <1>4, <1>t DEF GetForUpdate, TypeOK
  <2>2. CASE Commit(q) \/ Rollback(q)
    BY <2>2, <1>4, <1>t DEF Commit, Rollback, FreeRow
  <2>3. CASE UNCHANGED rowLock
    BY <2>3
  <2> QED BY <1>4, <2>1, <2>2, <2>3 DEF Proceed, TryLock, GetNoRows, Apply, Unlock,
             RecordCheckin, FindSlot, Break, TryLockNoReply, Fail
<1>5. ASSUME (\E t \in 0 .. now : ExpireDue(t)) \/ (\E s \in Slots : KeyLapse(s)) \/ Tick
      PROVE  UNCHANGED <<pc, call, verdict, rowLock>>
  BY <1>5 DEF ExpireDue, KeyLapse, Tick
<1>6. ASSUME NEW q \in Requests, q # r, Arrive(q) \/ Proceed(q) \/ Break(q)
      PROVE  pc'[r] = pc[r] /\ call'[r] = call[r] /\ verdict'[r] = verdict[r]
             /\ (\A s \in Slots : rowLock'[s] = r <=> rowLock[s] = r)
  BY <1>2, <1>3, <1>4, <1>6
<1> QED
  BY <1>0, <1>1, <1>5, <1>6 DEF Next

(* A row lock is held by a request that operates on that row and whose     *)
(* next step waits for nobody.                                             *)
HolderMoves ==
    \A s \in Slots, r \in Requests : rowLock[s] = r =>
        pc[r] \in {"apply", "unlock", "end"} /\ SlotOf(r) = s

(* Every step keeps it.                                                    *)
LEMMA HolderStep == IInv /\ HolderMoves /\ [Next]_vars => HolderMoves'
<1> SUFFICES ASSUME IInv, HolderMoves, [Next]_vars,
                    NEW s \in Slots, NEW r \in Requests, rowLock'[s] = r
             PROVE  pc'[r] \in {"apply", "unlock", "end"} /\ SlotOf(r)' = s
  BY DEF HolderMoves
<1> USE DEF Goto, Answer, db
<1>t. TypeOK /\ Control /\ r # NoRequest
  BY NobodyAssumption DEF IInv, Typed
<1>1. CASE pc'[r] = pc[r] /\ call'[r] = call[r]
           /\ (\A x \in Slots : rowLock'[x] = r <=> rowLock[x] = r)
  BY <1>1 DEF HolderMoves
<1>2. CASE Arrive(r)
  <2>1. rowLock[s] = r /\ pc[r] = "idle"
    BY <1>2 DEF Arrive, BeginSlotOp, BeginCheckin
  <2> QED BY <2>1 DEF HolderMoves
<1>3. CASE GetForUpdate(r)
  <2>1. SlotOf(r) \in Slots /\ pc[r] = "get"
    BY <1>3, <1>t DEF GetForUpdate, Control, AtSlot
  <2> QED BY <1>3, <2>1, <1>t DEF GetForUpdate, HolderMoves, TypeOK
<1>4. CASE Commit(r) \/ Rollback(r)
  BY <1>4, <1>t DEF Commit, Rollback, FreeRow
<1>5. CASE (Proceed(r) \/ Break(r)) /\ ~GetForUpdate(r) /\ ~Commit(r) /\ ~Rollback(r)
  <2>1. rowLock' = rowLock
    BY <1>5 DEF Proceed, TryLock, GetNoRows, Apply, Unlock, RecordCheckin, FindSlot,
                Break, TryLockNoReply, Fail
  <2>2. pc[r] \in {"apply", "unlock", "end"} /\ SlotOf(r) = s
    BY <2>1 DEF HolderMoves
  <2>3. Apply(r) \/ Unlock(r) \/ Fail(r)
    BY <1>5, <2>2 DEF Proceed, TryLock, GetNoRows, RecordCheckin, FindSlot, Break,
                      TryLockNoReply
  <2> QED BY <2>2, <2>3, <1>t DEF Apply, Unlock, Fail, AfterOp, TypeOK
<1>6. CASE Crash
  BY <1>6, <1>t DEF Crash
<1> QED
  BY <1>1, <1>2, <1>3, <1>4, <1>5, <1>6, StepOf

(* Whoever waits in SELECT ... FOR UPDATE waits for a request that waits   *)
(* for nobody, and nobody holds two rows: requests never wait in a circle, *)
(* which EveryRequestAnswered needs and no single schedule would show.     *)
THEOREM NoCircleOfWaits ==
    Spec => [](\A r \in Requests : pc[r] = "get" /\ rowLock[SlotOf(r)] # NoRequest =>
                 /\ rowLock[SlotOf(r)] \in Requests \ {r}
                 /\ pc[rowLock[SlotOf(r)]] \in {"apply", "unlock", "end"}
                 /\ \A s \in Slots : rowLock[s] = rowLock[SlotOf(r)] => s = SlotOf(r))
<1> DEFINE Waits ==
    \A r \in Requests : pc[r] = "get" /\ rowLock[SlotOf(r)] # NoRequest =>
        /\ rowLock[SlotOf(r)] \in Requests \ {r}
        /\ pc[rowLock[SlotOf(r)]] \in {"apply", "unlock", "end"}
        /\ \A s \in Slots : rowLock[s] = rowLock[SlotOf(r)] => s = SlotOf(r)
<1>1. Init => HolderMoves
  BY NobodyAssumption DEF Init, HolderMoves
<1>2. Spec => []HolderMoves
  BY <1>1, HolderStep, Invariance, PTL DEF Spec
<1>3. IInv /\ HolderMoves => Waits
  BY DEF IInv, Typed, TypeOK, Control, AtSlot, HolderMoves
<1> QED BY <1>2, <1>3, Invariance, PTL

(* How far a request has come in its handler.                              *)
Stage(label) ==
    CASE label = "idle"   -> 0 [] label = "record" -> 1 [] label = "find" -> 2
      [] label = "lock"   -> 3 [] label = "get"    -> 4 [] label = "apply" -> 5
      [] label = "unlock" -> 6 [] label = "end"    -> 7 [] label = "done" -> 8

(* Handlers only go forward: nothing is tried again, so a request is done  *)
(* after at most eight steps of its own, however others interfere.         *)
THEOREM HandlersAdvance ==
    Spec => [][\A r \in Requests :
                 /\ pc'[r] # pc[r] => Stage(pc'[r]) > Stage(pc[r])
                 /\ Arrive(r) \/ Proceed(r) \/ Break(r) => pc'[r] # pc[r]]_vars
<1>1. ASSUME IInv, [Next]_vars, NEW r \in Requests
      PROVE  /\ pc'[r] # pc[r] => Stage(pc'[r]) > Stage(pc[r])
             /\ Arrive(r) \/ Proceed(r) \/ Break(r) => pc'[r] # pc[r]
  <2> USE DEF Goto, Answer
  <2>t. pc \in [Requests -> PCs]
    BY <1>1 DEF IInv, Typed, TypeOK
  <2>1. CASE Arrive(r)
    BY <2>1, <2>t DEF Arrive, BeginSlotOp, BeginCheckin, Stage
  <2>2. CASE Proceed(r) \/ Break(r)
    BY <2>2, <2>t DEF Proceed, TryLock, GetForUpdate, GetNoRows, Apply, Unlock, Commit,
       Rollback, RecordCheckin, FindSlot, Break, TryLockNoReply, Fail, AfterOp, Stage
  <2>3. CASE Crash
    <3>1. pc'[r] = IF pc[r] \in {"idle", "done"} THEN pc[r] ELSE "done"
      BY <2>3 DEF Crash, InFlight
    <3> QED BY <3>1, <2>1, <2>2, <2>t DEF Stage, PCs
  <2> QED BY <1>1, <2>1, <2>2, <2>3, StepOf
<1>2. IInv /\ [Next]_vars =>
        [\A r \in Requests :
           /\ pc'[r] # pc[r] => Stage(pc'[r]) > Stage(pc[r])
           /\ Arrive(r) \/ Proceed(r) \/ Break(r) => pc'[r] # pc[r]]_vars
  BY <1>1
<1> QED BY <1>2, Invariance, PTL DEF Spec

(* A transaction ends by commit, by rollback or with its server.           *)
LEMMA WaysToEnd ==
    ASSUME IInv, [Next]_vars, NEW r \in Requests, pc[r] = "end", pc'[r] = "done"
    PROVE  Commit(r) \/ Rollback(r) \/ Crash
<1> USE DEF Goto, Answer, db
<1>t. pc \in [Requests -> PCs]
  BY DEF IInv, Typed, TypeOK
<1>1. ~ UNCHANGED pc
  OBVIOUS
<1>2. ASSUME NEW q \in Requests, Arrive(q) \/ Proceed(q) \/ Break(q)
      PROVE  q = r
  <2>1. \A x \in Requests : x # q => pc'[x] = pc[x]
    BY <1>2, <1>t DEF Arrive, BeginSlotOp, BeginCheckin, Proceed, TryLock,
       GetForUpdate, GetNoRows, Apply, Unlock, Commit, Rollback, RecordCheckin,
       FindSlot, Break, TryLockNoReply, Fail
  <2> QED BY <2>1
<1>3. Arrive(r) \/ Proceed(r) \/ Break(r) => Commit(r) \/ Rollback(r)
  BY DEF Arrive, BeginSlotOp, BeginCheckin, Proceed, TryLock, GetForUpdate,
     GetNoRows, Apply, Unlock, RecordCheckin, FindSlot, Break, TryLockNoReply, Fail
<1> QED
  BY <1>1, <1>2, <1>3
     DEF Next, vars, CreateActivity, OpenActivity, ExpireDue, KeyLapse, Tick

(* What the Locker refuses it goes on refusing as long as the row stays as *)
(* it is: only an expiry depends on the time, and it only comes nearer.    *)
LEMMA RefusalEndures ==
    ASSUME NEW op \in Ops, NEW v \in View, NEW u \in Users, Agrees(v),
           NEW t \in Nat, NEW later \in Nat, t <= later,
           OpVerdict(op, v, u, t) \in Refusals
    PROVE  OpVerdict(op, v, u, later) = OpVerdict(op, v, u, t)
<1>1. CASE op # "confirm"
  BY <1>1 DEF OpVerdict, Ops, SlotOps
<1>2. CASE op = "confirm"
  <2>1. OpVerdict(op, v, u, t) = ConfirmVerdict(v, u, t)
        /\ OpVerdict(op, v, u, later) = ConfirmVerdict(v, u, later)
    BY <1>2 DEF OpVerdict
  <2>2. v.row.expires \in Int /\ (Lapsed(v.row, t) => Lapsed(v.row, later))
    BY DEF Lapsed, View, Row
  <2>3. CASE v.row.holder # u \/ Lapsed(v.row, t)
    BY <2>1, <2>2, <2>3 DEF ConfirmVerdict
  <2>4. CASE v.row.holder = u /\ v.row.status # "LOCKED"
    BY <2>1, <2>4 DEF ConfirmVerdict, Lapsed
  <2>5. CASE v.row.holder = u /\ v.row.status = "LOCKED" /\ ~Lapsed(v.row, t)
    <3>1. ConfirmVerdict(v, u, t) = "OK"
      BY <2>5 DEF ConfirmVerdict, CanSlot, SaveVerdict, UpdateMatches, HoldAccepts, Agrees
    <3> QED BY <3>1, <2>1 DEF Refusals
  <2> QED BY <2>3, <2>4, <2>5
<1> QED BY <1>1, <1>2

(* A request that has been refused keeps the row until it has answered,    *)
(* and would be refused again.                                             *)
RefusalStands ==
    \A r \in Requests : pc[r] \in {"unlock", "end"} /\ verdict[r] \in Refusals =>
        /\ rowLock[SlotOf(r)] = r
        /\ OpVerdict(call[r].op, Current(SlotOf(r)), call[r].user, now) = verdict[r]

(* A step of somebody else leaves a locked row as it is, and time goes on. *)
LEMMA LockedRowStays ==
    ASSUME IInv, [Next]_vars, NEW r \in Requests,
           pc[r] \in {"unlock", "end"}, verdict[r] # "OK", rowLock[SlotOf(r)] = r
    PROVE  /\ Current(SlotOf(r))' = Current(SlotOf(r)) \/ call'[r] # call[r]
           /\ now \in Nat /\ now' \in Nat /\ now <= now'
<1>t. TypeOK /\ TypeOK' /\ SlotOf(r) \in Slots /\ r # NoRequest
  BY NobodyAssumption, TypedStep DEF IInv, Typed, Control, AtSlot
<1>1. now' = now \/ now' = now + 1
  BY DEF Next, vars, CreateActivity, OpenActivity, Arrive, BeginSlotOp, BeginCheckin,
     Proceed, TryLock, GetForUpdate, GetNoRows, Apply, Unlock, Commit, Rollback,
     RecordCheckin, FindSlot, Break, TryLockNoReply, Fail, ExpireDue, KeyLapse, Tick, Crash
<1>2. slots'[SlotOf(r)] = slots[SlotOf(r)] /\ holds'[SlotOf(r)] = holds[SlotOf(r)]
  <2>1. CASE UNCHANGED <<slots, holds>>
    BY <2>1
  <2>2. ASSUME NEW q \in Requests, Commit(q)
        PROVE  slots'[SlotOf(r)] = slots[SlotOf(r)] /\ holds'[SlotOf(r)] = holds[SlotOf(r)]
    <3>1. rowLock[SlotOf(q)] = q /\ q # r
      BY <2>2 DEF Commit, IInv, Exclusive
    <3>2. SlotOf(q) # SlotOf(r)
      BY <3>1
    <3> QED BY <2>2, <3>2, <1>t DEF Commit, TypeOK
  <2>3. ASSUME NEW t \in 0 .. now, ExpireDue(t)
        PROVE  slots'[SlotOf(r)] = slots[SlotOf(r)] /\ holds'[SlotOf(r)] = holds[SlotOf(r)]
    BY <2>3, <1>t DEF ExpireDue
  <2> QED BY <2>1, <2>2, <2>3, RowsMove
<1>3. call'[r] = call[r] => Current(SlotOf(r))' = Current(SlotOf(r))
  BY <1>2
<1> QED BY <1>1, <1>3, <1>t DEF TypeOK

(* Every step keeps it.                                                    *)
LEMMA RefusalStep == IInv /\ RefusalStands /\ [Next]_vars => RefusalStands'
<1> SUFFICES ASSUME IInv, RefusalStands, [Next]_vars, NEW r \in Requests,
                    pc'[r] \in {"unlock", "end"}, verdict'[r] \in Refusals
             PROVE  /\ rowLock'[SlotOf(r)'] = r
                    /\ OpVerdict(call'[r].op, Current(SlotOf(r))', call'[r].user, now')
                         = verdict'[r]
  BY DEF RefusalStands
<1> USE DEF Goto, Answer
<1>t. TypeOK /\ Control /\ Typed'
  BY TypedStep DEF IInv, Typed
<1>1. ASSUME pc[r] \in {"unlock", "end"}, call'[r] = call[r], verdict'[r] = verdict[r],
             \A s \in Slots : rowLock'[s] = r <=> rowLock[s] = r
      PROVE  /\ rowLock'[SlotOf(r)'] = r
             /\ OpVerdict(call'[r].op, Current(SlotOf(r))', call'[r].user, now')
                  = verdict'[r]
  <2> DEFINE v == Current(SlotOf(r))
  <2>1. /\ rowLock[SlotOf(r)] = r /\ SlotOf(r) \in Slots
        /\ OpVerdict(call[r].op, v, call[r].user, now) = verdict[r]
    BY <1>1, <1>t DEF RefusalStands, Control, AtSlot
  <2>2. verdict[r] # "OK"
    BY <1>1 DEF Refusals
  <2>3. Current(SlotOf(r))' = v /\ now \in Nat /\ now' \in Nat /\ now <= now'
    BY <1>1, <2>1, <2>2, LockedRowStays
  <2>4. call[r].op \in Ops /\ call[r].user \in Users /\ v \in View /\ Agrees(v)
    BY <1>1, <1>t, <2>1
       DEF IInv, HoldsMatchSlots, Agrees, TypeOK, Control, Calls, Ops, View
  <2>5. OpVerdict(call[r].op, v, call[r].user, now') = verdict[r]
    <3> HIDE DEF v
    <3> QED BY <1>1, <2>1, <2>3, <2>4, RefusalEndures
  <2> QED BY <1>1, <2>1, <2>3, <2>5
<1>2. CASE Apply(r)
  <2>1. /\ pc[r] = "apply" /\ SlotOf(r) \in Slots
        /\ verdict'[r] = OpVerdict(call[r].op, tx[r], call[r].user, now)
        /\ UNCHANGED <<slots, holds, rowLock, now, call>>
    BY <1>2, <1>t DEF Apply, TypeOK, Control, AtSlot, db
  <2>2. rowLock[SlotOf(r)] = r /\ tx[r] = Current(SlotOf(r))
    BY <2>1 DEF IInv, Exclusive
  <2> QED BY <2>1, <2>2
<1>3. CASE Unlock(r)
  <2>1. /\ pc[r] = "unlock" /\ call' = call /\ verdict' = verdict /\ rowLock' = rowLock
    BY <1>3 DEF Unlock
  <2> QED BY <2>1, <1>1
<1>4. CASE Arrive(r) \/ Break(r) \/ (Proceed(r) /\ ~Apply(r) /\ ~Unlock(r))
  <2>1. pc'[r] \notin {"unlock", "end"} \/ verdict'[r] \notin Refusals
    BY <1>4, <1>t
       DEF Arrive, BeginSlotOp, BeginCheckin, Break, TryLockNoReply, Fail, Proceed,
           TryLock, GetForUpdate, GetNoRows, Commit, Rollback, RecordCheckin, FindSlot,
           TypeOK, Refusals
  <2> QED BY <2>1
<1>5. CASE Crash
  BY <1>5 DEF Crash, InFlight
<1>6. CASE pc'[r] = pc[r] /\ call'[r] = call[r] /\ verdict'[r] = verdict[r]
           /\ (\A s \in Slots : rowLock'[s] = r <=> rowLock[s] = r)
  BY <1>6, <1>1
<1> QED BY <1>2, <1>3, <1>4, <1>5, <1>6, StepOf

(* Answers are true: OK means that the write is in force, a refusal that   *)
(* the tables are left alone and that the Locker still would refuse.       *)
THEOREM AnswersTrue == Spec => AnswerIsTrue
<1>1. IInv /\ RefusalStands /\ [Next]_vars =>
        [\A r \in Requests :
           pc[r] = "end" /\ pc'[r] = "done" =>
             LET c == call[r]
             IN /\ verdict'[r] = "OK" =>
                     /\ slots'[c.slot].status = Target(c.op)
                     /\ slots'[c.slot].holder = IF c.op = "release" THEN NoUser ELSE c.user
                /\ verdict'[r] \notin {"OK", "ERROR", "LOST"} =>
                     UNCHANGED <<slots, holds>>
                /\ verdict'[r] \in Refusals =>
                     OpVerdict(c.op, Current(c.slot), c.user, now) = verdict'[r]]_vars
  <2> SUFFICES ASSUME IInv, RefusalStands, [Next]_vars, NEW r \in Requests,
                      pc[r] = "end", pc'[r] = "done"
               PROVE  /\ verdict'[r] = "OK" =>
                           /\ slots'[SlotOf(r)].status = Target(call[r].op)
                           /\ slots'[SlotOf(r)].holder =
                                IF call[r].op = "release" THEN NoUser ELSE call[r].user
                      /\ verdict'[r] \notin {"OK", "ERROR", "LOST"} =>
                           UNCHANGED <<slots, holds>>
                      /\ verdict'[r] \in Refusals =>
                           OpVerdict(call[r].op, Current(SlotOf(r)), call[r].user, now)
                             = verdict'[r]
    OBVIOUS
  <2> USE DEF Answer, db
  <2>t. verdict \in [Requests -> Verdicts] /\ slots \in [Slots -> Row]
        /\ SlotOf(r) \in Slots
    BY DEF IInv, Typed, TypeOK, Control, AtSlot
  <2>1. CASE Commit(r)
    BY <2>1, <2>t DEF Commit, IInv, Exclusive, Legal, Refusals
  <2>2. CASE Rollback(r)
    BY <2>2, <2>t DEF Rollback, RefusalStands, Refusals
  <2>3. CASE Crash
    BY <2>3 DEF Crash, InFlight, Refusals
  <2> QED BY <2>1, <2>2, <2>3, WaysToEnd
<1>2. Init => RefusalStands
  BY DEF Init, RefusalStands
<1>3. Spec => []RefusalStands
  BY <1>2, RefusalStep, Invariance, PTL DEF Spec
<1> QED BY <1>1, <1>3, Invariance, PTL DEF Spec, AnswerIsTrue

-----------------------------------------------------------------------------
(* The cause of the finding about ClaimedWhileOpen.                        *)

(* Whoever is about to claim has found the activity of the path open, and  *)
(* an activity that is open stays so.                                      *)
ClaimOpen ==
    \A r \in Requests : AtSlot(r) /\ call[r].op = "claim" => activity[call[r].act] = "OPEN"

(* Every step keeps it.                                                    *)
LEMMA ClaimOpenStep == IInv /\ ClaimOpen /\ [Next]_vars => ClaimOpen'
<1> SUFFICES ASSUME IInv, ClaimOpen, [Next]_vars, NEW r \in Requests,
                    AtSlot(r)', call'[r].op = "claim"
             PROVE  activity'[call'[r].act] = "OPEN"
  BY DEF ClaimOpen
<1> USE DEF Goto, Answer, db
<1>t. TypeOK /\ Control
  BY DEF IInv, Typed
<1>1. \A a \in Activities : activity[a] = "OPEN" => activity'[a] = "OPEN"
  BY <1>t DEF Next, vars, CreateActivity, OpenActivity, Arrive, BeginSlotOp, BeginCheckin,
     Proceed, TryLock, GetForUpdate, GetNoRows, Apply, Unlock, Commit, Rollback,
     RecordCheckin, FindSlot, Break, TryLockNoReply, Fail, ExpireDue, KeyLapse, Tick,
     Crash, TypeOK
<1>2. ASSUME AtSlot(r), call'[r] = call[r]
      PROVE  activity'[call'[r].act] = "OPEN"
  <2>1. call[r] \in Calls /\ activity[call[r].act] = "OPEN"
    BY <1>2, <1>t DEF ClaimOpen, Control, AtSlot
  <2> QED BY <2>1, <1>1, <1>2 DEF Calls
<1>3. ASSUME NEW u \in Users, NEW a \in Activities, NEW op \in SlotOps, NEW s \in Slots,
             BeginSlotOp(r, op, u, s, a)
      PROVE  activity'[call'[r].act] = "OPEN"
  <2>1. call'[r] = [op |-> op, user |-> u, slot |-> s, act |-> a] /\ pc'[r] # "done"
    BY <1>3, <1>t DEF BeginSlotOp, TypeOK, AtSlot
  <2>2. op = "claim" /\ activity[a] = "OPEN"
    BY <1>3, <2>1, <1>t DEF BeginSlotOp, TypeOK
  <2> QED BY <2>1, <2>2, <1>1
<1>4. ASSUME NEW u \in Users, NEW a \in Activities, NEW near \in BOOLEAN,
             BeginCheckin(r, u, a, near)
      PROVE  FALSE
  BY <1>4, <1>t DEF BeginCheckin, TypeOK, AtSlot
<1>5. CASE Proceed(r) \/ Break(r)
  <2>1. CASE FindSlot(r) \/ RecordCheckin(r)
    <3>1. call[r].op = "checkin" /\ call[r] \in Calls
      BY <2>1, <1>t DEF FindSlot, RecordCheckin, Control
    <3>2. call'[r].op = "checkin"
      BY <2>1, <3>1, <1>t DEF FindSlot, RecordCheckin, TypeOK, Calls, Held
    <3> QED BY <3>2
  <2>2. CASE ~FindSlot(r) /\ ~RecordCheckin(r)
    <3>1. AtSlot(r) /\ call' = call
      BY <1>5, <2>2 DEF AtSlot, Proceed, TryLock, GetForUpdate, GetNoRows, Apply, Unlock,
         Commit, Rollback, Break, TryLockNoReply, Fail
    <3> QED BY <3>1, <1>2
  <2> QED BY <2>1, <2>2
<1>6. CASE Crash
  BY <1>6 DEF Crash, InFlight, AtSlot
<1>7. CASE pc'[r] = pc[r] /\ call'[r] = call[r]
  BY <1>7, <1>2 DEF AtSlot
<1> QED BY <1>3, <1>4, <1>5, <1>6, <1>7, StepOf DEF Arrive

(* Every request is made under the path of its slot's own activity.        *)
PathsMatch ==
    \A r \in Requests : call[r].slot \in Slots => call[r].act = Home[call[r].slot]

(* Slots are claimed only while their activity is open, as long as no path *)
(* names another activity than the slot's: that slotOp never compares the  *)
(* two is the whole cause of what the run booking_other_path finds.        *)
THEOREM ClaimedWhileOpenUnlessMixed == Spec /\ []PathsMatch => []ClaimedWhileOpen
<1>1. ASSUME IInv, ClaimOpen, PathsMatch, ClaimedWhileOpen, [Next]_vars
      PROVE  ClaimedWhileOpen'
  <2> SUFFICES ASSUME NEW s \in Slots, slots'[s].status # "OPEN"
               PROVE  activity'[Home[s]] = "OPEN"
    BY DEF ClaimedWhileOpen
  <2>t. TypeOK /\ Home[s] \in Activities
    BY <1>1, HomeAssumption DEF IInv, Typed
  <2>1. activity[Home[s]] = "OPEN" => activity'[Home[s]] = "OPEN"
    BY <1>1, <2>t DEF Next, vars, db, CreateActivity, OpenActivity, Arrive, BeginSlotOp,
       BeginCheckin, Proceed, TryLock, GetForUpdate, GetNoRows, Apply, Unlock, Commit,
       Rollback, RecordCheckin, FindSlot, Break, TryLockNoReply, Fail, ExpireDue,
       KeyLapse, Tick, Crash, TypeOK
  <2>2. CASE slots[s].status # "OPEN"
    BY <1>1, <2>1, <2>2 DEF ClaimedWhileOpen
  <2>3. CASE slots[s].status = "OPEN"
    <3>1. \A t \in 0 .. now : ~ExpireDue(t)
      BY <1>1, <2>3, SweepFrees
    <3>2. PICK r \in Requests :
              /\ pc[r] = "end"
              /\ SlotOf(r) \in Slots
              /\ call[r].op \in Ops
              /\ slots' = [slots EXCEPT ![SlotOf(r)] = tx[r].row]
              /\ Legal(call[r].op, call[r].user, slots[SlotOf(r)], tx[r].row)
      BY <1>1, <2>3, <3>1, RowsMove
    <3>3. SlotOf(r) = s
      BY <2>3, <2>t, <3>2 DEF TypeOK
    <3>4. call[r].op = "claim"
      BY <2>3, <3>2, <3>3 DEF Legal, Ops, SlotOps
    <3>5. activity[Home[s]] = "OPEN"
      BY <1>1, <3>2, <3>3, <3>4 DEF ClaimOpen, AtSlot, PathsMatch
    <3> QED BY <2>1, <3>5
  <2> QED BY <2>2, <2>3
<1>2. Init => ClaimOpen /\ ClaimedWhileOpen
  BY DEF Init, ClaimOpen, AtSlot, ClaimedWhileOpen, FreshRow
<1>3. IInv /\ ClaimOpen /\ PathsMatch /\ ClaimedWhileOpen /\ [Next]_vars => ClaimedWhileOpen'
  BY <1>1
<1> QED BY <1>2, <1>3, ClaimOpenStep, Invariance, PTL DEF Spec

-----------------------------------------------------------------------------
(* The committed rows implement the slot machine of SlotHold.              *)
THEOREM BookingImplementsSlotHold == Spec => ImplementsSlotHold
<1>1. Init => Abstract!Init
  BY DEF Init, Abstract!Init, Abstract!Free, Lease, FreshRow
<1>2. IInv /\ [Next]_vars => [Abstract!Next]_Lease
  <2> SUFFICES ASSUME IInv, [Next]_vars, Lease' # Lease
               PROVE  Abstract!Next
    OBVIOUS
  <2> USE DEF Lease
  <2>1. CASE UNCHANGED <<slots, holds>>
    BY <2>1
  <2>2. ASSUME NEW t \in 0 .. now, ExpireDue(t)
        PROVE  Abstract!Next
    <3>1. Due(t) \in SUBSET Slots
      BY DEF Due
    <3>2. Abstract!Expire(Due(t))
      BY <2>2, <3>1, SweepFrees DEF Abstract!Expire, Abstract!Free
    <3> QED BY <3>1, <3>2 DEF Abstract!Next, Abstract!Expire
  <2>3. ASSUME NEW r \in Requests, SlotOf(r) \in Slots,
               call[r].op \in Ops, call[r].user \in Users,
               slots' = [slots EXCEPT ![SlotOf(r)] = tx[r].row],
               Legal(call[r].op, call[r].user, slots[SlotOf(r)], tx[r].row)
        PROVE  Abstract!Next
    <3> DEFINE s == SlotOf(r)
    <3>1. /\ slots \in [Slots -> Row] /\ slots'[s] = tx[r].row
          /\ \A x \in Slots \ {s} : slots'[x] = slots[x]
      BY <2>3 DEF IInv, Typed, TypeOK
    <3>2. CASE call[r].op = "claim"
      <4>1. Abstract!Claim(s, call[r].user)
        BY <2>3, <3>1, <3>2 DEF Abstract!Claim, Legal, Target
      <4> QED BY <4>1, <2>3 DEF Abstract!Next, Abstract!Claim
    <3>3. CASE call[r].op = "confirm"
      <4>1. Abstract!Confirm(s)
        BY <2>3, <3>1, <3>3 DEF Abstract!Confirm, Legal, Target
      <4> QED BY <4>1, <2>3 DEF Abstract!Next, Abstract!Confirm
    <3>4. CASE call[r].op = "release"
      <4>1. Abstract!Release(s)
        BY <2>3, <3>1, <3>4 DEF Abstract!Release, Abstract!Free, Legal, Target
      <4> QED BY <4>1, <2>3 DEF Abstract!Next, Abstract!Release
    <3>5. CASE call[r].op = "checkin"
      <4>1. slots[s].status = "CONFIRMED"
        <5>1. CASE slots[s].status = "CHECKED_IN"
          <6>1. \A x \in Slots : slots'[x].status = slots[x].status
                                 /\ slots'[x].holder = slots[x].holder
            BY <2>3, <3>1, <3>5, <5>1 DEF Legal, Target
          <6> QED BY <6>1
        <5> QED BY <5>1, <2>3, <3>5 DEF Legal
      <4>2. Abstract!CheckIn(s)
        BY <2>3, <3>1, <3>5, <4>1 DEF Abstract!CheckIn, Legal, Target
      <4> QED BY <4>2, <2>3 DEF Abstract!Next, Abstract!CheckIn
    <3> QED BY <2>3, <3>2, <3>3, <3>4, <3>5 DEF Ops, SlotOps
  <2> QED BY <2>1, <2>2, <2>3, RowsMove
<1> QED BY <1>1, <1>2, Invariance, PTL DEF Spec, ImplementsSlotHold, Abstract!Spec
=============================================================================
