----------------------------- MODULE SlotBooking -----------------------------
(***************************************************************************)
(* Booking the slots of activities: the HTTP handlers slotOp (claim,       *)
(* confirm, release), Checkin, CreateActivity and OpenActivity of          *)
(* internal/httpapi/handlers_booking.go, the Locker of                     *)
(* internal/booking/lock.go, the PostgresStore it runs on, the Redis key   *)
(* it takes, and the background sweep of expired locks (cmd/server).       *)
(*                                                                         *)
(* A request is one HTTP request.  It moves through its handler one        *)
(* database or Redis call at a time, so requests interleave between any    *)
(* two calls.  What a transaction has read and written is kept in tx[r]    *)
(* and reaches slots and holds only at its commit; SELECT ... FOR UPDATE   *)
(* is rowLock[s].  Time is a clock of whole units; a Redis key may lapse   *)
(* at any moment, because a handler may take longer than the key's 8 s.    *)
(***************************************************************************)
EXTENDS Integers, FiniteSets

CONSTANTS
    Users, Slots, Activities,
    Requests,       \* identities of HTTP requests; each is used once
    Home,           \* slots.activity_id
    TTL,            \* Locker.TTL, in clock units
    MaxTime,        \* bound: the clock stops here
    NoUser,         \* holder_id IS NULL
    NoSlot,         \* slotID == "" in Checkin
    NoActivity,     \* the path of a request that has not arrived
    NoRequest       \* nobody

ASSUME HomeAssumption == Home \in [Slots -> Activities]
ASSUME TimeAssumption == TTL \in Nat \ {0} /\ MaxTime \in Nat
ASSUME NobodyAssumption ==
    /\ NoUser \notin Users
    /\ NoSlot \notin Slots
    /\ NoRequest \notin Requests

VARIABLES
    activity,       \* activities.status; ABSENT before CreateActivity
    slots,          \* the rows of table slots, as committed
    holds,          \* the rows of table slot_holds, as committed
    checkins,       \* the rows of table checkins
    rowLock,        \* the transaction that has locked the slot's row
    key,            \* the Redis key "slot:"+id: whose token it holds
    now,            \* the clock
    pc,             \* where each request is in its handler
    call,           \* what each request asks for
    tx,             \* the slot as the request's transaction sees it
    verdict         \* the answer decided so far; given to the client at "done"

db == <<activity, slots, holds, checkins>>
vars == <<activity, slots, holds, checkins, rowLock, key, now,
          pc, call, tx, verdict>>

-----------------------------------------------------------------------------
(* Data.                                                                   *)

SlotStatus == {"OPEN", "LOCKED", "CONFIRMED", "CHECKED_IN"}
NoExpiry == -1      \* lock_expires_at IS NULL

Row == [status  : SlotStatus,
        holder  : Users \cup {NoUser},
        expires : Nat \cup {NoExpiry},
        version : Nat]

FreshRow == [status |-> "OPEN", holder |-> NoUser,
             expires |-> NoExpiry, version |-> 0]

(* A row of slot_holds; NoHold where the table has none for the slot.      *)
NoHold == [user |-> NoUser, status |-> "OPEN"]
Hold == [user : Users, status : SlotStatus \ {"OPEN"}] \cup {NoHold}

View == [row : Row, hold : Hold]
NoView == [row |-> FreshRow, hold |-> NoHold]

SlotOps == {"claim", "confirm", "release"}
Calls == [op   : SlotOps \cup {"checkin"}, user : Users,
          slot : Slots \cup {NoSlot},      act  : Activities]
NoCall == [op |-> "none", user |-> NoUser, slot |-> NoSlot, act |-> NoActivity]

Exists(s) == activity[Home[s]] # "ABSENT"
SlotOf(r) == call[r].slot
Current(s) == [row |-> slots[s], hold |-> holds[s]]

-----------------------------------------------------------------------------
(* internal/booking: the state machine and the store, as functions of what *)
(* the transaction sees.                                                   *)

(* Slip: a checked-in slot may be given up.                                *)
CanSlot_GivesBackCheckedIn(from, to, reason) ==
    \/ to = "OPEN" /\ reason = "RELEASE" /\ from # "OPEN"
    \/ <<from, to, reason>> \in
        { <<"OPEN", "LOCKED", "CLAIM">>, <<"LOCKED", "CONFIRMED", "CONFIRM">>,
          <<"CONFIRMED", "CHECKED_IN", "CHECKIN">>,
          <<"CHECKED_IN", "CHECKED_IN", "CHECKIN">> }

CanSlot(from, to, reason) ==
    <<from, to, reason>> \in
        { <<"OPEN", "LOCKED", "CLAIM">>,
          <<"LOCKED", "CONFIRMED", "CONFIRM">>,
          <<"LOCKED", "OPEN", "EXPIRE">>,
          <<"LOCKED", "OPEN", "RELEASE">>,
          <<"CONFIRMED", "CHECKED_IN", "CHECKIN">>,
          <<"CONFIRMED", "OPEN", "RELEASE">>,
          <<"CHECKED_IN", "CHECKED_IN", "CHECKIN">> }

(* The WHERE clause of SaveClaim's UPDATE slots.                           *)
UpdateMatches(row, user, status) ==
    CASE status = "LOCKED"     -> row.status = "OPEN"
      [] status = "CONFIRMED"  -> row.holder = user /\ row.status = "LOCKED"
      [] status = "CHECKED_IN" -> row.holder = user

(* Whether the INSERT or upsert into slot_holds then affects a row.        *)
HoldAccepts(hold, user, status) ==
    hold = NoHold \/ (status # "LOCKED" /\ hold.user = user)

SaveVerdict(v, user, status) ==
    IF ~UpdateMatches(v.row, user, status)
    THEN IF status = "LOCKED" THEN "TAKEN" ELSE "BAD_STATE"
    ELSE IF HoldAccepts(v.hold, user, status) THEN "OK" ELSE "TAKEN"

(* Slip: the version goes the wrong way.                                   *)
Saved_CountsDown(v, user, status, expires) ==
    [row  |-> [status |-> status, holder |-> user, expires |-> expires,
               version |-> v.row.version - 1],
     hold |-> [user |-> user, status |-> status]]

Saved(v, user, status, expires) ==
    [row  |-> [status  |-> status,
               holder  |-> user,
               expires |-> IF status = "CHECKED_IN" THEN v.row.expires
                                                    ELSE expires,
               version |-> v.row.version + 1],
     hold |-> [user |-> user, status |-> status]]

(* Slip: the row of slot_holds is left behind.                             *)
Released_KeepsHold(v) ==
    [row  |-> [FreshRow EXCEPT !.version = v.row.version + 1],
     hold |-> v.hold]

(* Slip: the version starts again with every holder.                       *)
Released_ResetsVersion(v) == [row |-> FreshRow, hold |-> NoHold]

Released(v) ==
    [row  |-> [FreshRow EXCEPT !.version = v.row.version + 1],
     hold |-> NoHold]

(* Slip: a lock still holds at its very deadline.                          *)
Lapsed_Late(row, clock) ==
    row.status = "LOCKED" /\ row.expires # NoExpiry /\ row.expires < clock

Lapsed(row, clock) ==
    row.status = "LOCKED" /\ row.expires # NoExpiry /\ row.expires <= clock

-----------------------------------------------------------------------------
(* The Locker's operations: the error they return ("OK" is nil) and the    *)
(* slot as their writes leave it inside the transaction.                   *)

ClaimVerdict(v, user) ==
    IF v.row.status # "OPEN" THEN "TAKEN"
    ELSE IF ~CanSlot(v.row.status, "LOCKED", "CLAIM") THEN "SLOT_STATE"
    ELSE SaveVerdict(v, user, "LOCKED")

ConfirmVerdict(v, user, clock) ==
    IF v.row.holder # user THEN "NOT_HOLDER"
    ELSE IF Lapsed(v.row, clock) THEN "EXPIRED"
    ELSE IF ~CanSlot(v.row.status, "CONFIRMED", "CONFIRM") THEN "SLOT_STATE"
    ELSE SaveVerdict(v, user, "CONFIRMED")

ReleaseVerdict(v, user) ==
    IF v.row.holder # user THEN "NOT_HOLDER"
    ELSE IF ~CanSlot(v.row.status, "OPEN", "RELEASE") THEN "SLOT_STATE"
    ELSE "OK"

CheckInVerdict(v, user) ==
    IF v.row.holder # user THEN "NOT_HOLDER"
    ELSE IF ~CanSlot(v.row.status, "CHECKED_IN", "CHECKIN") THEN "SLOT_STATE"
    ELSE SaveVerdict(v, user, "CHECKED_IN")

OpVerdict(op, v, user, clock) ==
    CASE op = "claim"   -> ClaimVerdict(v, user)
      [] op = "confirm" -> ConfirmVerdict(v, user, clock)
      [] op = "release" -> ReleaseVerdict(v, user)
      [] op = "checkin" -> CheckInVerdict(v, user)

(* Confirm's late branch writes too: it releases the slot, then reports    *)
(* ErrExpired, which makes withTx roll the release back.                   *)
OpWrites(op, v, user, clock) ==
    CASE op = "claim"   -> Saved(v, user, "LOCKED", clock + TTL)
      [] op = "confirm" -> IF Lapsed(v.row, clock) THEN Released(v)
                           ELSE Saved(v, user, "CONFIRMED", NoExpiry)
      [] op = "release" -> Released(v)
      [] op = "checkin" -> Saved(v, user, "CHECKED_IN", NoExpiry)

-----------------------------------------------------------------------------
Init ==
    /\ activity = [a \in Activities |-> "ABSENT"]
    /\ slots = [s \in Slots |-> FreshRow]
    /\ holds = [s \in Slots |-> NoHold]
    /\ checkins = {}
    /\ rowLock = [s \in Slots |-> NoRequest]
    /\ key = [s \in Slots |-> NoRequest]
    /\ now = 0
    /\ pc = [r \in Requests |-> "idle"]
    /\ call = [r \in Requests |-> NoCall]
    /\ tx = [r \in Requests |-> NoView]
    /\ verdict = [r \in Requests |-> "NONE"]

(* CreateActivity: one transaction inserts the draft and its open slots.   *)
CreateActivity(a) ==
    /\ activity[a] = "ABSENT"
    /\ activity' = [activity EXCEPT ![a] = "DRAFT"]
    /\ UNCHANGED <<slots, holds, checkins, rowLock, key, now,
                   pc, call, tx, verdict>>

(* OpenActivity by the host; CanActivity lets only a draft be opened.      *)
OpenActivity(a) ==
    /\ activity[a] = "DRAFT"
    /\ activity' = [activity EXCEPT ![a] = "OPEN"]
    /\ UNCHANGED <<slots, holds, checkins, rowLock, key, now,
                   pc, call, tx, verdict>>

-----------------------------------------------------------------------------
(* Requests.                                                               *)

(* Request r leaves its handler with answer v.                             *)
Answer(r, v) ==
    /\ pc' = [pc EXCEPT ![r] = "done"]
    /\ verdict' = [verdict EXCEPT ![r] = v]

Goto(r, label) == pc' = [pc EXCEPT ![r] = label]

(* slotOp up to withTx: the activity named in the path is loaded, and a    *)
(* claim is refused unless it is open.  Nothing compares it with the       *)
(* slot's own activity.                                                    *)
BeginSlotOp(r, op, u, s, a) ==
    /\ pc[r] = "idle"
    /\ call' = [call EXCEPT ![r] = [op |-> op, user |-> u, slot |-> s, act |-> a]]
    /\ \/ activity[a] = "ABSENT" /\ Answer(r, "NOT_FOUND")
       \/ op = "claim" /\ activity[a] = "DRAFT" /\ Answer(r, "ACTIVITY_STATE")
       \/ /\ op = "claim" /\ activity[a] = "OPEN"
          /\ Goto(r, "lock") /\ UNCHANGED verdict
       \/ /\ op # "claim" /\ activity[a] # "ABSENT"
          /\ Goto(r, "get") /\ UNCHANGED verdict
    /\ UNCHANGED <<db, rowLock, key, now, tx>>

(* Claim asks Redis for the slot's key: SET NX PX.                         *)
TryLock(r) ==
    /\ pc[r] = "lock"
    /\ \/ /\ key[SlotOf(r)] = NoRequest
          /\ key' = [key EXCEPT ![SlotOf(r)] = r]
          /\ Goto(r, "get") /\ UNCHANGED verdict
       \/ /\ key[SlotOf(r)] # NoRequest
          /\ Answer(r, "TAKEN") /\ UNCHANGED key
    /\ UNCHANGED <<db, rowLock, now, call, tx>>

(* Redis does not answer.  go-redis then returns a nil result beside its   *)
(* error, and TryLock looks at the result first: (false, nil, nil), which  *)
(* the Locker takes for a held key.  The SET may have been applied.        *)
TryLockNoReply(r) ==
    /\ pc[r] = "lock"
    /\ \/ UNCHANGED key
       \/ /\ key[SlotOf(r)] = NoRequest
          /\ key' = [key EXCEPT ![SlotOf(r)] = r]
    /\ Answer(r, "TAKEN")
    /\ UNCHANGED <<db, rowLock, now, call, tx>>

(* Slip: SELECT without FOR UPDATE does not wait.                          *)
GetForUpdate_NoWait(r) ==
    /\ pc[r] = "get"
    /\ Exists(SlotOf(r))
    /\ rowLock' = [rowLock EXCEPT ![SlotOf(r)] = r]
    /\ tx' = [tx EXCEPT ![r] = Current(SlotOf(r))]
    /\ Goto(r, "apply")
    /\ UNCHANGED <<db, key, now, call, verdict>>

(* SELECT ... FOR UPDATE: waits until no transaction has the row locked,   *)
(* then reads it as committed.                                             *)
GetForUpdate(r) ==
    /\ pc[r] = "get"
    /\ Exists(SlotOf(r))
    /\ rowLock[SlotOf(r)] = NoRequest
    /\ rowLock' = [rowLock EXCEPT ![SlotOf(r)] = r]
    /\ tx' = [tx EXCEPT ![r] = Current(SlotOf(r))]
    /\ Goto(r, "apply")
    /\ UNCHANGED <<db, key, now, call, verdict>>

(* Where an operation of the Locker returns to: Claim's deferred unlock    *)
(* runs before withTx ends the transaction.                                *)
AfterOp(r) == IF call[r].op = "claim" THEN "unlock" ELSE "end"

(* There is no such slot: ErrBadState.                                     *)
GetNoRows(r) ==
    /\ pc[r] = "get"
    /\ ~Exists(SlotOf(r))
    /\ Goto(r, AfterOp(r))
    /\ verdict' = [verdict EXCEPT ![r] = "BAD_STATE"]
    /\ UNCHANGED <<db, rowLock, key, now, call, tx>>

(* The Locker decides on the row it has read, at the present time, and     *)
(* writes inside its transaction.                                          *)
Apply(r) ==
    LET c == call[r]
        v == OpVerdict(c.op, tx[r], c.user, now)
    IN
    /\ pc[r] = "apply"
    /\ verdict' = [verdict EXCEPT ![r] = v]
    /\ tx' = [tx EXCEPT ![r] = IF v \in {"OK", "EXPIRED"}
                               THEN OpWrites(c.op, tx[r], c.user, now)
                               ELSE tx[r]]
    /\ Goto(r, AfterOp(r))
    /\ UNCHANGED <<db, rowLock, key, now, call>>

(* The deferred unlock: the script deletes the key only if it still holds  *)
(* this request's token; when Redis does not answer the key stays.         *)
Unlock(r) ==
    /\ pc[r] = "unlock"
    /\ \/ UNCHANGED key
       \/ /\ key[SlotOf(r)] = r
          /\ key' = [key EXCEPT ![SlotOf(r)] = NoRequest]
    /\ Goto(r, "end")
    /\ UNCHANGED <<db, rowLock, now, call, tx, verdict>>

(* The end of a transaction gives back the row lock it holds.              *)
FreeRow(r) ==
    rowLock' = [s \in Slots |-> IF rowLock[s] = r THEN NoRequest ELSE rowLock[s]]

(* Slip: the late branch of Confirm is committed with its error.           *)
Commit_LateRelease(r) ==
    /\ pc[r] = "end"
    /\ verdict[r] \in {"OK", "EXPIRED"}
    /\ slots' = [slots EXCEPT ![SlotOf(r)] = tx[r].row]
    /\ holds' = [holds EXCEPT ![SlotOf(r)] = tx[r].hold]
    /\ Answer(r, verdict[r])
    /\ FreeRow(r)
    /\ UNCHANGED <<activity, checkins, key, now, call, tx>>

(* withTx commits when the operation returned nil.  The connection may     *)
(* break after the database has committed: the client then sees an error   *)
(* although the write stands.                                              *)
Commit(r) ==
    /\ pc[r] = "end"
    /\ verdict[r] = "OK"
    /\ slots' = [slots EXCEPT ![SlotOf(r)] = tx[r].row]
    /\ holds' = [holds EXCEPT ![SlotOf(r)] = tx[r].hold]
    /\ \E v \in {"OK", "ERROR"} : Answer(r, v)
    /\ FreeRow(r)
    /\ UNCHANGED <<activity, checkins, key, now, call, tx>>

(* Slip: an error leaves the transaction open.                             *)
Rollback_StaysOpen(r) ==
    /\ pc[r] = "end"
    /\ Answer(r, IF verdict[r] = "OK" THEN "ERROR" ELSE verdict[r])
    /\ UNCHANGED <<db, rowLock, key, now, call, tx>>

(* withTx rolls back when the operation returned an error, and a commit    *)
(* that fails rolls back as well.                                          *)
Rollback(r) ==
    /\ pc[r] = "end"
    /\ Answer(r, IF verdict[r] = "OK" THEN "ERROR" ELSE verdict[r])
    /\ FreeRow(r)
    /\ tx' = [tx EXCEPT ![r] = NoView]
    /\ UNCHANGED <<db, key, now, call>>

(* A statement fails: the database is unreachable, or the client hangs up  *)
(* and the request's context is cancelled.                                 *)
Fail(r) ==
    /\ pc[r] \in {"get", "apply"}
    /\ verdict' = [verdict EXCEPT ![r] = "ERROR"]
    /\ Goto(r, AfterOp(r))
    /\ UNCHANGED <<db, rowLock, key, now, call, tx>>

-----------------------------------------------------------------------------
(* Checkin.                                                                *)

(* Up to the INSERT: the activity must be open and the user near it.       *)
BeginCheckin(r, u, a, near) ==
    /\ pc[r] = "idle"
    /\ call' = [call EXCEPT ![r] =
                  [op |-> "checkin", user |-> u, slot |-> NoSlot, act |-> a]]
    /\ \/ activity[a] = "ABSENT" /\ Answer(r, "NOT_FOUND")
       \/ activity[a] = "DRAFT" /\ Answer(r, "ACTIVITY_STATE")
       \/ activity[a] = "OPEN" /\ ~near /\ Answer(r, "CHECKIN_TOO_FAR")
       \/ activity[a] = "OPEN" /\ near /\ Goto(r, "record") /\ UNCHANGED verdict
    /\ UNCHANGED <<db, rowLock, key, now, tx>>

(* Slip: the error of the INSERT is only logged.                           *)
RecordCheckin_Lenient(r) ==
    LET row == <<call[r].act, call[r].user>>
    IN
    /\ pc[r] = "record"
    /\ checkins' \in {checkins, checkins \cup {row}}
    /\ Goto(r, "find") /\ UNCHANGED verdict
    /\ UNCHANGED <<activity, slots, holds, rowLock, key, now, call, tx>>

(* INSERT INTO checkins ... ON CONFLICT DO NOTHING, a statement of its     *)
(* own.  When it fails the handler stops; the row may be there all the     *)
(* same.                                                                   *)
RecordCheckin(r) ==
    LET row == <<call[r].act, call[r].user>>
    IN
    /\ pc[r] = "record"
    /\ \/ checkins' = checkins \cup {row} /\ Goto(r, "find") /\ UNCHANGED verdict
       \/ checkins' \in {checkins, checkins \cup {row}} /\ Answer(r, "ERROR")
    /\ UNCHANGED <<activity, slots, holds, rowLock, key, now, call, tx>>

(* The slots SELECT ... LIMIT 1 may return, read outside a transaction.    *)
Held(a, u) ==
    {s \in Slots : /\ Home[s] = a /\ Exists(s)
                   /\ slots[s].holder = u
                   /\ slots[s].status \in {"CONFIRMED", "CHECKED_IN"}}

(* One of the user's slots is looked up; with none, or when the query      *)
(* fails (its error is dropped), the check-in stands alone.                *)
FindSlot(r) ==
    /\ pc[r] = "find"
    /\ \/ /\ \E s \in Held(call[r].act, call[r].user) :
                call' = [call EXCEPT ![r].slot = s]
          /\ Goto(r, "get") /\ UNCHANGED verdict
       \/ Answer(r, "OK") /\ UNCHANGED call
    /\ UNCHANGED <<db, rowLock, key, now, tx>>

-----------------------------------------------------------------------------
(* The rest of the system.                                                 *)

Due(t) == {s \in Slots : Lapsed(slots[s], t)}

(* ExpireDue with a clock reading t taken when the sweep began: one        *)
(* transaction, which waits for the row locks of the rows it updates.      *)
ExpireDue(t) ==
    /\ Due(t) # {}
    /\ \A s \in Due(t) : rowLock[s] = NoRequest
    /\ slots' = [s \in Slots |-> IF s \in Due(t) THEN Released(Current(s)).row
                                                 ELSE slots[s]]
    /\ holds' = [s \in Slots |-> IF s \in Due(t) THEN NoHold ELSE holds[s]]
    /\ UNCHANGED <<activity, checkins, rowLock, key, now, pc, call, tx, verdict>>

(* A Redis key reaches its TTL.                                            *)
KeyLapse(s) ==
    /\ key[s] # NoRequest
    /\ key' = [key EXCEPT ![s] = NoRequest]
    /\ UNCHANGED <<db, rowLock, now, pc, call, tx, verdict>>

Tick ==
    /\ now < MaxTime
    /\ now' = now + 1
    /\ UNCHANGED <<db, rowLock, key, pc, call, tx, verdict>>

InFlight == {r \in Requests : pc[r] \notin {"idle", "done"}}

(* The server process dies: the database rolls open transactions back, no  *)
(* deferred unlock runs, so Redis keys stay.                               *)
Crash ==
    /\ InFlight # {}
    /\ pc' = [r \in Requests |-> IF r \in InFlight THEN "done" ELSE pc[r]]
    /\ verdict' = [r \in Requests |-> IF r \in InFlight THEN "LOST" ELSE verdict[r]]
    /\ tx' = [r \in Requests |-> IF r \in InFlight THEN NoView ELSE tx[r]]
    /\ rowLock' = [s \in Slots |-> NoRequest]
    /\ UNCHANGED <<db, key, now, call>>

-----------------------------------------------------------------------------
Arrive(r) ==
    \E u \in Users, a \in Activities :
        \/ \E op \in SlotOps, s \in Slots : BeginSlotOp(r, op, u, s, a)
        \/ \E near \in BOOLEAN : BeginCheckin(r, u, a, near)

(* What the handler of r does next when nothing breaks.                    *)
Proceed(r) ==
    \/ TryLock(r) \/ GetForUpdate(r) \/ GetNoRows(r) \/ Apply(r) \/ Unlock(r)
    \/ Commit(r) \/ Rollback(r) \/ RecordCheckin(r) \/ FindSlot(r)

Break(r) == TryLockNoReply(r) \/ Fail(r)

Next ==
    \/ \E a \in Activities : CreateActivity(a) \/ OpenActivity(a)
    \/ \E r \in Requests : Arrive(r) \/ Proceed(r) \/ Break(r)
    \/ \E t \in 0 .. now : ExpireDue(t)
    \/ \E s \in Slots : KeyLapse(s)
    \/ Tick
    \/ Crash

Spec == Init /\ [][Next]_vars

(* A request that has arrived keeps being served, the background loop runs *)
(* ExpireDue with a fresh clock reading every 30 s, and time passes.       *)
Fairness ==
    /\ \A r \in Requests : WF_vars(Proceed(r))
    /\ WF_vars(ExpireDue(now))
    /\ WF_vars(Tick)

FairSpec == Spec /\ Fairness

-----------------------------------------------------------------------------
(* Properties.                                                             *)

PCs == {"idle", "lock", "get", "apply", "unlock", "end", "record", "find", "done"}
Verdicts == {"NONE", "OK", "TAKEN", "NOT_HOLDER", "EXPIRED", "SLOT_STATE",
             "BAD_STATE", "NOT_FOUND", "ACTIVITY_STATE", "CHECKIN_TOO_FAR",
             "ERROR", "LOST"}

(* Every variable has its type; in particular the rows satisfy the CHECK   *)
(* constraints of tables slots and slot_holds.                             *)
TypeOK ==
    /\ activity \in [Activities -> {"ABSENT", "DRAFT", "OPEN"}]
    /\ slots \in [Slots -> Row]
    /\ holds \in [Slots -> Hold]
    /\ checkins \in SUBSET (Activities \X Users)
    /\ rowLock \in [Slots -> Requests \cup {NoRequest}]
    /\ key \in [Slots -> Requests \cup {NoRequest}]
    /\ now \in Nat
    /\ pc \in [Requests -> PCs]
    /\ call \in [Requests -> Calls \cup {NoCall}]
    /\ tx \in [Requests -> View]
    /\ verdict \in [Requests -> Verdicts]

(* slots and slot_holds agree on every slot: both say who has it and at    *)
(* which stage, or both say that it is free.  They are written by          *)
(* different statements, on six code paths.                                *)
HoldsMatchSlots ==
    \A s \in Slots :
        /\ holds[s] = [user |-> slots[s].holder, status |-> slots[s].status]
        /\ slots[s].status = "OPEN" <=> slots[s].holder = NoUser
        /\ slots[s].status = "LOCKED" <=> slots[s].expires # NoExpiry

(* The row lock alone makes booking exclusive: once a transaction holds it *)
(* and the state machine accepts the step, neither the WHERE clause of the *)
(* UPDATE nor the unique key of slot_holds ever refuses the write, and no  *)
(* request sees a slot change between its read and its commit.             *)
RowLockSuffices ==
    \A r \in Requests :
        /\ pc[r] = "apply" =>
             /\ rowLock[SlotOf(r)] = r
             /\ tx[r] = Current(SlotOf(r))
             /\ LET c == call[r]
                IN OpVerdict(c.op, tx[r], c.user, now) # "BAD_STATE"
             /\ tx[r].row.status = "OPEN" => tx[r].hold = NoHold
        /\ pc[r] \in {"unlock", "end"} /\ verdict[r] = "OK" =>
             /\ rowLock[SlotOf(r)] = r
             /\ tx[r].row.version = slots[SlotOf(r)].version + 1

(* A checked-in slot always has its check-in on record: the row of         *)
(* checkins is written first, by a statement outside the transaction that  *)
(* moves the slot, for the slot's activity and its holder.                 *)
CheckedInRecorded ==
    \A s \in Slots : slots[s].status = "CHECKED_IN" =>
        <<Home[s], slots[s].holder>> \in checkins

(* The three tables that six code paths and several statements write never *)
(* contradict each other, whoever fails or dies in between.                *)
TablesMatch == HoldsMatchSlots /\ CheckedInRecorded

(* Two claims of one slot that were both answered OK were won one after    *)
(* the other: the rows they were given carry different versions.           *)
WinnersDiffer ==
    \A r, q \in Requests :
        /\ r # q /\ SlotOf(r) = SlotOf(q)
        /\ \A p \in {r, q} : call[p].op = "claim" /\ pc[p] = "done" /\ verdict[p] = "OK"
        => tx[r].row.version # tx[q].row.version

(* Nobody loses a slot without having asked: a slot that is not free       *)
(* changes only by the transaction of a request of its own holder, or      *)
(* becomes free because its lock has lapsed.                               *)
HolderConsent ==
    [][\A s \in Slots :
         slots[s].status # "OPEN" /\ slots'[s] # slots[s] =>
            \/ s \in Due(now) /\ slots'[s].status = "OPEN"
            \/ \E r \in Requests : /\ pc[r] = "end" /\ pc'[r] = "done"
                                   /\ SlotOf(r) = s
                                   /\ call[r].user = slots[s].holder]_vars

Target(op) == CASE op = "claim"   -> "LOCKED"
                [] op = "confirm" -> "CONFIRMED"
                [] op = "release" -> "OPEN"
                [] op = "checkin" -> "CHECKED_IN"

Refusals == {"TAKEN", "NOT_HOLDER", "EXPIRED", "SLOT_STATE"}

(* The answer tells the truth about the database at the moment it is       *)
(* given: OK means that the slot is at the operation's stage, in the       *)
(* user's hands (or free, after a release); a refusal means that the       *)
(* request left no slot changed, and one of the Locker still is what the   *)
(* Locker would say, although it was decided some steps before.            *)
AnswerIsTrue ==
    [][\A r \in Requests :
         pc[r] = "end" /\ pc'[r] = "done" =>
           LET c == call[r]
           IN /\ verdict'[r] = "OK" =>
                   /\ slots'[c.slot].status = Target(c.op)
                   /\ slots'[c.slot].holder = IF c.op = "release" THEN NoUser ELSE c.user
              /\ verdict'[r] \notin {"OK", "ERROR", "LOST"} =>
                   UNCHANGED <<slots, holds>>
              /\ verdict'[r] \in Refusals =>
                   OpVerdict(c.op, Current(c.slot), c.user, now) = verdict'[r]]_vars

(* Every request that enters a handler is answered, if only by the loss of *)
(* the connection: no row lock is left behind for the others to wait on.   *)
EveryRequestAnswered ==
    \A r \in Requests : pc[r] # "idle" ~> pc[r] = "done"

(* A lock that is neither confirmed nor released does not outlive its TTL  *)
(* for ever: a LOCKED slot whose deadline is within the modelled time      *)
(* leaves LOCKED.                                                          *)
LeaseEnds ==
    \A s \in Slots :
        (slots[s].status = "LOCKED" /\ slots[s].expires <= MaxTime)
            ~> slots[s].status # "LOCKED"

(* Committed slots behave as the state machine says, seen by anyone who    *)
(* reads the tables: the stage and holder of every row implement SlotHold. *)
Lease == [s \in Slots |-> [stage |-> slots[s].status, holder |-> slots[s].holder]]

Abstract == INSTANCE SlotHold WITH lease <- Lease

ImplementsSlotHold == Abstract!Spec

-----------------------------------------------------------------------------
(* What the repository says and the code does not do.                      *)

(* lock.go:68, "Redis error -> degrade to DB pessimistic lock only": a     *)
(* claim is refused as taken only when the slot is taken or another        *)
(* claimant's key stands in the way, not because Redis is away.            *)
TakenMeansContended ==
    [][\A r \in Requests :
         pc[r] = "lock" /\ pc'[r] = "done" /\ verdict'[r] = "TAKEN" =>
            slots[SlotOf(r)].status # "OPEN" \/ key[SlotOf(r)] # NoRequest]_vars

(* memory.go:9, the in-process store is the "authoritative stand-in" of    *)
(* the production store: a confirmation that finds its lock expired frees  *)
(* the slot (lock.go:102) before it reports ErrExpired.                    *)
ExpiredConfirmReleases ==
    [][\A r \in Requests :
         pc[r] = "end" /\ pc'[r] = "done" /\ verdict'[r] = "EXPIRED" =>
            slots'[SlotOf(r)].status = "OPEN"]_vars

(* errors.go:28, ACTIVITY_STATE: "the activity's state does not allow this *)
(* operation".  A slot is claimed only while its activity is open.         *)
ClaimedWhileOpen ==
    \A s \in Slots : slots[s].status # "OPEN" => activity[Home[s]] = "OPEN"
=============================================================================
