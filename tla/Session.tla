------------------------------ MODULE Session -------------------------------
(***************************************************************************)
(* Signed in: the web client's calls (frontend-user/src/api/client.ts),    *)
(* the user it shows (context/AuthContext.tsx), the tokens that both keep  *)
(* in localStorage, and what the server does with them: Login, Refresh and *)
(* GetMe of handlers_auth.go, AuthRequired and AuthOptional of             *)
(* middleware.go, internal/auth.                                           *)
(*                                                                         *)
(* One tab.  Its script runs without interruption from one await to the    *)
(* next; a fetch under way is a message on the wire, which the server may  *)
(* still serve when the script has given it up, or the page is gone.       *)
(*                                                                         *)
(* IssueTokens signs both tokens at once and setTokens stores both, so a   *)
(* pair is known by its user and by what is left of its refresh token.     *)
(***************************************************************************)
EXTENDS Integers, Sequences

CONSTANTS
    Users,          \* they have accounts, which nothing removes
    Calls,          \* identities of calls of api(); each is used once
    AccessTTL, RefreshTTL,
    Nobody

ASSUME NobodyAssumption == Nobody \notin Users \cup Calls
ASSUME TTLAssumption ==
    AccessTTL \in Nat \ {0} /\ RefreshTTL \in Nat /\ AccessTTL < RefreshTTL

VARIABLES
    shown,          \* AuthContext's user
    ready,          \* AuthContext's ready
    tokens,         \* the pair in localStorage
    pc, op,         \* where each call stands, and what it is for while it lasts
    wire,           \* its message: a request that asks, or its answer
    sender,         \* history: the user to whom the page was shown that called,
                    \* until the tab changes hands
    effects,        \* history: as whom the server has carried it out
    mixed,          \* history: the tab changed hands while calls were under way,
                    \* with no page load or quiet change since
    faulty          \* history: a fetch broke or a refresh came too late

vars == <<shown, ready, tokens, pc, op, wire, sender, effects, mixed, faulty>>
history == <<sender, effects, mixed, faulty>>

-----------------------------------------------------------------------------
NoTokens == [user |-> Nobody, left |-> 0]
Pairs == [user : Users \cup {Nobody}, left : 0 .. RefreshTTL]
IssueTokens(u) == [user |-> u, left |-> RefreshTTL]

(* ParseAccess and ParseRefresh.                                           *)
AccessHolds(t) == t.left > RefreshTTL - AccessTTL
RefreshHolds(t) == t.left > 0

NoMessage == [at |-> "none", kind |-> "none", pair |-> NoTokens]
Ask(kind, t) == [at |-> "asked", kind |-> kind, pair |-> t]

Waiting(c) == pc[c] \in {"sent", "refreshing", "resent"}

(* What is left on the wire of a call that nobody waits for: the server    *)
(* may still carry it out, if it is one that does something.               *)
Left(c) ==
    IF wire[c].at = "asked" /\ wire[c].kind = "act" THEN wire[c] ELSE NoMessage

(* The tab is open; somebody may have signed in just before.               *)
Init ==
    /\ shown \in Users \cup {Nobody}
    /\ ready = TRUE
    /\ tokens = IF shown = Nobody THEN NoTokens ELSE IssueTokens(shown)
    /\ pc = [c \in Calls |-> "idle"]
    /\ op = [c \in Calls |-> "none"]
    /\ wire = [c \in Calls |-> NoMessage]
    /\ sender = [c \in Calls |-> Nobody]
    /\ effects = [c \in Calls |-> <<>>]
    /\ mixed = FALSE
    /\ faulty = FALSE

-----------------------------------------------------------------------------
(* The tab.                                                                *)

(* api, up to its fetch.                                                   *)
Begin(c, what, t) ==
    /\ pc[c] = "idle"
    /\ pc' = [pc EXCEPT ![c] = "sent"]
    /\ op' = [op EXCEPT ![c] = what]
    /\ wire' = [wire EXCEPT ![c] = Ask(what, t)]

(* A page behind the Guard calls the server: to do something ("act"), or   *)
(* only to look at the spots, which a visitor may as well ("look").        *)
Call(c, what) ==
    /\ ready /\ shown # Nobody
    /\ Begin(c, what, tokens)
    /\ sender' = IF mixed THEN sender ELSE [sender EXCEPT ![c] = shown]
    /\ UNCHANGED <<shown, ready, tokens, effects, mixed, faulty>>

(* The script of a page that was left by a logout calls on: hydrateCatch   *)
(* asks again for 8 s, a photo follows its catch.  (After the next login   *)
(* it does so like any Call.)                                              *)
CallOn(c) ==
    /\ ready /\ shown = Nobody
    /\ Begin(c, "act", tokens)
    /\ UNCHANGED <<shown, ready, tokens, history>>

(* LoginPage is there as long as no user is.                               *)
Login(c, u) ==
    /\ shown = Nobody
    /\ Begin(c, "login", [user |-> u, left |-> 0])
    /\ UNCHANGED <<shown, ready, tokens, history>>

(* The calls that are under way when the tab changes hands, but c itself.  *)
Others(c) == {d \in Calls \ {c} : Waiting(d)}

ChangeHands(others) ==
    /\ sender' = [d \in Calls |-> IF d \in others THEN Nobody ELSE sender[d]]
    /\ mixed' = (others # {})

(* Slip: the tokens stay.                                                  *)
Logout_ShowsOnly ==
    /\ ready /\ shown # Nobody
    /\ shown' = Nobody
    /\ ChangeHands(Others(Nobody))
    /\ UNCHANGED <<ready, tokens, pc, op, wire, effects, faulty>>

Logout ==
    /\ ready /\ shown # Nobody
    /\ tokens' = NoTokens
    /\ shown' = Nobody
    /\ ChangeHands(Others(Nobody))
    /\ UNCHANGED <<ready, pc, op, wire, effects, faulty>>

(* The page is loaded again.  Whatever its script waited for is forgotten, *)
(* not what it has sent; AuthProvider asks who the tokens are of.          *)
Load(c) ==
    LET gone == {d \in Calls : Waiting(d)}
        left == [d \in Calls |-> Left(d)]
    IN
    /\ shown' = Nobody
    /\ mixed' = FALSE
    /\ \/ /\ tokens = NoTokens
          /\ ready' = TRUE
          /\ pc' = [d \in Calls |-> IF d \in gone THEN "done" ELSE pc[d]]
          /\ op' = [d \in Calls |-> "none"]
          /\ wire' = left
       \/ /\ tokens # NoTokens
          /\ ready' = FALSE
          /\ pc[c] = "idle"
          /\ pc' = [d \in Calls |-> IF d = c THEN "sent" ELSE IF d \in gone THEN "done" ELSE pc[d]]
          /\ op' = [d \in Calls |-> IF d = c THEN "me" ELSE "none"]
          /\ wire' = [left EXCEPT ![c] = Ask("me", tokens)]
    /\ UNCHANGED <<tokens, sender, effects, faulty>>

-----------------------------------------------------------------------------
(* The server.                                                             *)

Reply(c, at, t) ==
    wire' = [wire EXCEPT ![c] = [at |-> at, kind |-> @.kind, pair |-> t]]

(* AuthRequired, then the handler; a lapsed token is refused before        *)
(* anything is done.                                                       *)
ServeRequired(c) ==
    LET t == wire[c].pair
    IN
    /\ wire[c].at = "asked" /\ wire[c].kind \in {"act", "me"}
    /\ \/ /\ AccessHolds(t)
          /\ Reply(c, "ok", t)
          /\ effects' = IF wire[c].kind = "act"
                        THEN [effects EXCEPT ![c] = Append(@, t.user)] ELSE effects
       \/ /\ ~AccessHolds(t)
          /\ Reply(c, "401", NoTokens)
          /\ UNCHANGED effects
    /\ UNCHANGED <<shown, ready, tokens, pc, op, sender, mixed, faulty>>

(* AuthOptional: with a lapsed token one looks as a visitor, and is not    *)
(* told so.                                                                *)
ServeOptional(c) ==
    /\ wire[c].at = "asked" /\ wire[c].kind = "look"
    /\ Reply(c, "ok", NoTokens)
    /\ UNCHANGED <<shown, ready, tokens, pc, op, history>>

(* Login; that the password may be wrong is left to Break.                 *)
ServeLogin(c) ==
    /\ wire[c].at = "asked" /\ wire[c].kind = "login"
    /\ Reply(c, "ok", IssueTokens(wire[c].pair.user))
    /\ UNCHANGED <<shown, ready, tokens, pc, op, history>>

(* Slip: a refresh token is taken for as long as an access token.          *)
ServeRefresh_Short(c) ==
    LET t == wire[c].pair
    IN
    /\ wire[c].at = "asked" /\ wire[c].kind = "refresh"
    /\ \/ AccessHolds(t) /\ Reply(c, "ok", IssueTokens(t.user)) /\ UNCHANGED faulty
       \/ ~AccessHolds(t) /\ Reply(c, "401", NoTokens) /\ faulty' = (faulty \/ ~RefreshHolds(t))
    /\ UNCHANGED <<shown, ready, tokens, pc, op, sender, effects, mixed>>

(* Refresh: the token may be used again, and a new pair leaves it valid.   *)
ServeRefresh(c) ==
    LET t == wire[c].pair
    IN
    /\ wire[c].at = "asked" /\ wire[c].kind = "refresh"
    /\ \/ RefreshHolds(t) /\ Reply(c, "ok", IssueTokens(t.user)) /\ UNCHANGED faulty
       \/ ~RefreshHolds(t) /\ Reply(c, "401", NoTokens) /\ faulty' = TRUE
    /\ UNCHANGED <<shown, ready, tokens, pc, op, sender, effects, mixed>>

Serve(c) == ServeRequired(c) \/ ServeOptional(c) \/ ServeLogin(c) \/ ServeRefresh(c)

-----------------------------------------------------------------------------
(* The answers.                                                            *)

Answered(c, at) == Waiting(c) /\ wire[c].at = at

Close(c) ==
    /\ pc' = [pc EXCEPT ![c] = "done"]
    /\ op' = [op EXCEPT ![c] = "none"]
    /\ wire' = [wire EXCEPT ![c] = Left(c)]
    /\ UNCHANGED effects

(* The call succeeds: GET /me shows its user, wherever the tokens are by   *)
(* now.                                                                    *)
Succeed(c) ==
    /\ Answered(c, "ok") /\ wire[c].kind \in {"act", "look", "me"}
    /\ Close(c)
    /\ \/ /\ op[c] = "me"
          /\ shown' = wire[c].pair.user
          /\ ready' = TRUE
       \/ op[c] # "me" /\ UNCHANGED <<shown, ready>>
    /\ UNCHANGED <<tokens, sender, mixed, faulty>>

SignIn(c) ==
    /\ Answered(c, "ok") /\ wire[c].kind = "login"
    /\ Close(c)
    /\ tokens' = wire[c].pair
    /\ shown' = wire[c].pair.user
    /\ ChangeHands(Others(c))
    /\ faulty' = FALSE
    /\ UNCHANGED ready

(* Slip: the AuthProvider waits for success before it is ready.            *)
Fail_NotReady(c, t) ==
    /\ Close(c)
    /\ \/ op[c] = "me" /\ tokens' = NoTokens /\ shown' = Nobody
       \/ op[c] # "me" /\ tokens' = t /\ UNCHANGED shown
    /\ UNCHANGED <<ready, sender, mixed>>

(* The call throws; the AuthProvider gives up the tokens whatever GET /me  *)
(* failed of.  t are the tokens that the call itself has left.             *)
Fail(c, t) ==
    /\ Close(c)
    /\ \/ op[c] = "me" /\ tokens' = NoTokens /\ shown' = Nobody /\ ready' = TRUE
       \/ op[c] # "me" /\ tokens' = t /\ UNCHANGED <<shown, ready>>
    /\ UNCHANGED <<sender, mixed>>

(* Slip: the call that is sent again is a call like any other.             *)
Denied_Always(c) ==
    /\ Answered(c, "401") /\ pc[c] # "refreshing"
    /\ \/ /\ tokens # NoTokens
          /\ pc' = [pc EXCEPT ![c] = "refreshing"]
          /\ wire' = [wire EXCEPT ![c] = Ask("refresh", tokens)]
          /\ UNCHANGED <<shown, ready, tokens, op, history>>
       \/ tokens = NoTokens /\ Fail(c, tokens) /\ UNCHANGED faulty

(* 401: tryRefresh, if there is a token to try and the call is the first.  *)
Denied(c) ==
    /\ Answered(c, "401") /\ pc[c] # "refreshing"
    /\ \/ /\ pc[c] = "sent" /\ tokens # NoTokens
          /\ pc' = [pc EXCEPT ![c] = "refreshing"]
          /\ wire' = [wire EXCEPT ![c] = Ask("refresh", tokens)]
          /\ UNCHANGED <<shown, ready, tokens, op, history>>
       \/ /\ pc[c] = "resent" \/ tokens = NoTokens
          /\ Fail(c, tokens)
          /\ UNCHANGED faulty

(* tryRefresh: the new tokens are stored, and the call is sent with them.  *)
Refreshed(c) ==
    /\ Answered(c, "ok") /\ wire[c].kind = "refresh"
    /\ tokens' = wire[c].pair
    /\ pc' = [pc EXCEPT ![c] = "resent"]
    /\ wire' = [wire EXCEPT ![c] = Ask(op[c], wire[c].pair)]
    /\ UNCHANGED <<shown, ready, op, history>>

RefreshDenied(c) ==
    /\ Answered(c, "401") /\ pc[c] = "refreshing"
    /\ Fail(c, NoTokens)
    /\ UNCHANGED faulty

(* Slip: a request that breaks is sent again.                              *)
Break_Resends(c) ==
    /\ Waiting(c)
    /\ faulty' = TRUE
    /\ \/ /\ pc[c] = "sent" /\ op[c] # "login"
          /\ pc' = [pc EXCEPT ![c] = "resent"]
          /\ wire' = [wire EXCEPT ![c] = Ask(op[c], tokens)]
          /\ UNCHANGED <<shown, ready, tokens, op, sender, effects, mixed>>
       \/ /\ pc[c] # "sent" \/ op[c] = "login"
          /\ Fail(c, IF pc[c] = "refreshing" THEN NoTokens ELSE tokens)

(* The fetch is rejected, or answered with some other error.  The server   *)
(* may have served it, or may yet.                                         *)
Break(c) ==
    /\ Waiting(c)
    /\ faulty' = TRUE
    /\ Fail(c, IF pc[c] = "refreshing" THEN NoTokens ELSE tokens)

Receive(c) == Succeed(c) \/ SignIn(c) \/ Denied(c) \/ Refreshed(c) \/ RefreshDenied(c)

-----------------------------------------------------------------------------
(* Slip: what is left is counted below nothing.                            *)
Older_Below(t) == [t EXCEPT !.left = @ - 1]

Older(t) == [t EXCEPT !.left = IF @ > 0 THEN @ - 1 ELSE 0]

Tick ==
    /\ tokens' = Older(tokens)
    /\ wire' = [c \in Calls |-> [wire[c] EXCEPT !.pair = Older(@)]]
    /\ UNCHANGED <<shown, ready, pc, op, history>>

Next ==
    \/ \E c \in Calls :
         \/ \E what \in {"act", "look"} : Call(c, what)
         \/ CallOn(c)
         \/ \E u \in Users : Login(c, u)
         \/ Load(c) \/ Serve(c) \/ Receive(c) \/ Break(c)
    \/ Logout
    \/ Tick

Spec == Init /\ [][Next]_vars

(* The server answers what it is asked, and the script runs on.            *)
FairSpec == Spec /\ \A c \in Calls : WF_vars(Serve(c)) /\ WF_vars(Receive(c))

-----------------------------------------------------------------------------
(* Properties.                                                             *)

(* Every variable has its type.                                            *)
TypeOK ==
    /\ shown \in Users \cup {Nobody}
    /\ ready \in BOOLEAN /\ mixed \in BOOLEAN /\ faulty \in BOOLEAN
    /\ tokens \in Pairs
    /\ pc \in [Calls -> {"idle", "sent", "refreshing", "resent", "done"}]
    /\ op \in [Calls -> {"none", "act", "look", "me", "login"}]
    /\ wire \in [Calls -> [at : {"none", "asked", "ok", "401"},
                           kind : {"none", "act", "look", "me", "login", "refresh"},
                           pair : Pairs]]
    /\ sender \in [Calls -> Users \cup {Nobody}]
    /\ effects \in [Calls -> Seq(Users)]

(* A call is carried out once at most, although api sends it twice and the *)
(* server may serve what the page has given up; and as the user to whom    *)
(* the page was shown, unless the tab changed hands on the way.            *)
EnteredOnce ==
    \A c \in Calls :
        /\ Len(effects[c]) <= 1
        /\ sender[c] # Nobody => effects[c] \in {<<>>, <<sender[c]>>}

(* The tokens are those of the user who is shown, or gone; and with nobody *)
(* shown there are none.  So it is until a login or logout comes between a *)
(* call and its answer, and again from the next load of the page or the    *)
(* next login with nothing else under way.                                 *)
ShownOwnsTokens == ready /\ ~mixed => tokens.user \in {shown, Nobody}

(* Who is signed in stays so: calls that are refused together, refresh     *)
(* each on its own and end in any order take nobody's tokens away, as long *)
(* as no fetch breaks and no refresh token has lapsed.                     *)
StaysSignedIn == ready /\ ~mixed /\ ~faulty => tokens.user = shown

(* Every call ends, after one retry at most, however fast tokens lapse.    *)
EveryCallEnds == \A c \in Calls : Waiting(c) ~> pc[c] = "done"

(* The pages come up in the end after each load, whatever GET /me meets.   *)
PagesComeUp == ~ready ~> ready

(* No call and no load of the page hangs.                                  *)
NothingHangs == EveryCallEnds /\ PagesComeUp
=============================================================================
