------------------------------- MODULE ConnPool -------------------------------
(***************************************************************************)
(* The connection pool that all handlers and background loops of a server  *)
(* share (internal/db, Open), and how they use it.  Most of them hold one  *)
(* connection at a time: for a statement, a transaction or the rows of a   *)
(* query.  Three keep a query open and run further queries, each on a      *)
(* second connection, for the rows they read: ListSpots and NearbySpots    *)
(* (loadDepths, isClubMember and areFriends for every spot) and loadCatch  *)
(* (loadHydro for its one row).                                            *)
(*                                                                         *)
(* The pool hands out connections in the order in which they were asked    *)
(* for, and nobody waits with a deadline: a wait ends with a connection,   *)
(* or when the client hangs up and the request's context is cancelled.     *)
(***************************************************************************)
EXTENDS Integers, Sequences, FiniteSets

CONSTANTS
    Callers,        \* requests and background loops of one server
    Listers,        \* those that run queries inside an open query
    MaxConns,       \* pgxpool's MaxConns; db.Open makes it at least 8
    MaxRows         \* bound: inner queries of one open query

ASSUME CallersAssumption == IsFiniteSet(Callers) /\ Listers \subseteq Callers
ASSUME BoundsAssumption == MaxConns \in Nat \ {0} /\ MaxRows \in Nat

VARIABLES
    stage,          \* where each caller is, see TypeOK
    rows,           \* how many inner queries its open query still calls for
    queue,          \* the callers that wait for a connection, in order
    used            \* connections the pool counts as handed out

vars == <<stage, rows, queue, used>>

Stages == {
    "idle",         \* holds nothing
    "first",        \* waits for its connection
    "open",         \* holds it
    "second",       \* holds it, and waits for another one
    "inner" }       \* holds two

Waiting == {"first", "second"}

Init ==
    /\ stage = [r \in Callers |-> "idle"]
    /\ rows = [r \in Callers |-> 0]
    /\ queue = <<>>
    /\ used = 0

-----------------------------------------------------------------------------
(* Slip: a plain caller gets a query inside its open query.                *)
Nests_All(r, k) == TRUE

(* Only the listing handlers run queries inside an open one.               *)
Nests(r, k) == k > 0 => r \in Listers

(* A caller turns to the pool, for a query that calls for k more.          *)
Acquire(r, k) ==
    /\ stage[r] = "idle"
    /\ Nests(r, k)
    /\ stage' = [stage EXCEPT ![r] = "first"]
    /\ rows' = [rows EXCEPT ![r] = k]
    /\ queue' = Append(queue, r)
    /\ UNCHANGED used

(* The pool serves the caller that has waited longest.                     *)
Grant ==
    /\ queue # <<>>
    /\ used < MaxConns
    /\ LET r == Head(queue)
       IN  stage' = [stage EXCEPT ![r] = IF @ = "first" THEN "open" ELSE "inner"]
    /\ queue' = Tail(queue)
    /\ used' = used + 1
    /\ UNCHANGED rows

(* A row is read; a query on its behalf needs a second connection.         *)
InnerQuery(r) ==
    /\ stage[r] = "open"
    /\ rows[r] > 0
    /\ stage' = [stage EXCEPT ![r] = "second"]
    /\ queue' = Append(queue, r)
    /\ UNCHANGED <<rows, used>>

(* Slip: the rows of the inner query are never closed.                     *)
InnerDone_KeepsRows(r) ==
    /\ stage[r] = "inner"
    /\ stage' = [stage EXCEPT ![r] = "open"]
    /\ rows' = [rows EXCEPT ![r] = @ - 1]
    /\ UNCHANGED <<queue, used>>

InnerDone(r) ==
    /\ stage[r] = "inner"
    /\ stage' = [stage EXCEPT ![r] = "open"]
    /\ rows' = [rows EXCEPT ![r] = @ - 1]
    /\ used' = used - 1
    /\ UNCHANGED queue

(* Slip: the handler's last row gives the connection back, and so does the *)
(* deferred Close.                                                         *)
Close_Twice(r) ==
    /\ stage[r] = "open"
    /\ rows[r] = 0
    /\ stage' = [stage EXCEPT ![r] = "idle"]
    /\ used' = used - 2
    /\ UNCHANGED <<rows, queue>>

(* Slip: a handler returns without closing its rows.                       *)
Close_KeepsRows(r) ==
    /\ stage[r] = "open"
    /\ rows[r] = 0
    /\ stage' = [stage EXCEPT ![r] = "idle"]
    /\ UNCHANGED <<rows, queue, used>>

(* The statement, transaction or last row is done.                         *)
Close(r) ==
    /\ stage[r] = "open"
    /\ rows[r] = 0
    /\ stage' = [stage EXCEPT ![r] = "idle"]
    /\ used' = used - 1
    /\ UNCHANGED <<rows, queue>>

(* A scan of an open row fails: the handler answers at once, and its       *)
(* deferred rows.Close gives the connection back.                          *)
ScanFails(r) ==
    /\ stage[r] = "open"
    /\ rows[r] > 0
    /\ stage' = [stage EXCEPT ![r] = "idle"]
    /\ rows' = [rows EXCEPT ![r] = 0]
    /\ used' = used - 1
    /\ UNCHANGED queue

(* The client hangs up while its request waits.  A first query fails and   *)
(* the handler ends; failures of inner queries are passed over, so these   *)
(* run out quickly and the open query is closed in the end.                *)
Without(q, i) == [j \in 1 .. Len(q) - 1 |-> IF j < i THEN q[j] ELSE q[j + 1]]

HangUp(r) ==
    /\ stage[r] \in Waiting
    /\ \E i \in 1 .. Len(queue) : queue[i] = r /\ queue' = Without(queue, i)
    /\ stage' = [stage EXCEPT ![r] = IF @ = "first" THEN "idle" ELSE "open"]
    /\ rows' = [rows EXCEPT ![r] = 0]
    /\ UNCHANGED used

Step(r) == InnerQuery(r) \/ InnerDone(r) \/ Close(r)

Next ==
    \/ Grant
    \/ \E r \in Callers :
          \/ \E k \in 0 .. MaxRows : Acquire(r, k)
          \/ Step(r)
          \/ ScanFails(r)
          \/ HangUp(r)

Spec == Init /\ [][Next]_vars

(* The pool serves its queue and statements end.  Nobody is forced to hang *)
(* up, and no request to arrive.                                           *)
Fairness ==
    /\ WF_vars(Grant)
    /\ \A r \in Callers : WF_vars(Step(r))

FairSpec == Spec /\ Fairness

-----------------------------------------------------------------------------
(* Exactly the callers that wait are in the queue, once each.              *)
QueueExact(st, q) ==
    /\ \A i \in 1 .. Len(q) : st[q[i]] \in Waiting
    /\ \A i, j \in 1 .. Len(q) : q[i] = q[j] => i = j
    /\ \A r \in Callers :
          st[r] \in Waiting => \E i \in 1 .. Len(q) : q[i] = r

(* Every variable keeps its type, and the queue is that of the waiters.    *)
TypeOK ==
    /\ stage \in [Callers -> Stages]
    /\ rows \in [Callers -> 0 .. MaxRows]
    /\ queue \in Seq(Callers)
    /\ used \in 0 .. MaxConns
    /\ QueueExact(stage, queue)

Holding == {r \in Callers : stage[r] \in {"open", "second", "inner"}}
Twice == {r \in Callers : stage[r] = "inner"}

(* What the pool counts as handed out is what callers hold: no handler,    *)
(* on any of its ways out, keeps a connection or gives it back twice.      *)
NothingLeaks == used = Cardinality(Holding) + Cardinality(Twice)

(* The standstill that the code allows, for it never limits how many       *)
(* requests list: each connection is held by a listing handler that waits  *)
(* for a second one, to ask for one of its rows.                           *)
Stuck == {r \in Listers : stage[r] = "second"}
Stalled == Cardinality(Stuck) = MaxConns

(* There is no other standstill.  Unless the pool is Stalled, whenever     *)
(* somebody waits it has a connection to give or some caller can go on     *)
(* without another one: plain requests, transactions and background loops  *)
(* never hold each other up, however many there are.                       *)
OnlyListersStall ==
    queue # <<>> =>
        \/ used < MaxConns
        \/ \E r \in Callers : stage[r] \in {"open", "inner"}
        \/ Stalled

(* Everybody who waits for a connection gets one, or the pool comes to be  *)
(* Stalled, even if no client ever hangs up and other requests keep coming.*)
ServedOrStalled ==
    \A r \in Callers :
        /\ stage[r] = "first" ~> stage[r] # "first" \/ Stalled
        /\ stage[r] = "second" ~> stage[r] # "second" \/ Stalled
=============================================================================
