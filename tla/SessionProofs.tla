--------------------------- MODULE SessionProofs ----------------------------
(***************************************************************************)
(* Theorems about Session, for any users, calls and times to live.  What   *)
(* they rest on: what a call has on the wire tells whether the server has  *)
(* carried it out (CallOK); while the page loads, exactly one call asks    *)
(* who the tokens are of (Hands); and while the tab stays in one hand, a   *)
(* refresh under way is the shown user's own (Owners).                     *)
(***************************************************************************)
EXTENDS Session, TLAPS

Holds(t) == t.left > 0 => t.user # Nobody

(* Only a pair that was issued lasts.                                      *)
PairsHold == Holds(tokens) /\ \A c \in Calls : Holds(wire[c].pair)

(* What a call has on the wire, and whether it was carried out.            *)
CallOK(c) ==
    /\ pc[c] = "idle" =>
          wire[c] = NoMessage /\ effects[c] = <<>> /\ op[c] = "none" /\ sender[c] = Nobody
    /\ pc[c] = "done" => wire[c] = NoMessage \/ wire[c].kind = "act"
    /\ Waiting(c) =>
          /\ wire[c].at # "none" /\ op[c] # "none"
          /\ wire[c].kind = IF pc[c] = "refreshing" THEN "refresh" ELSE op[c]
          /\ op[c] = "login" => pc[c] = "sent" /\ wire[c].at # "401"
          /\ op[c] \in {"me", "login"} => sender[c] = Nobody
    /\ wire[c].kind \in {"look", "me", "login", "refresh"} => effects[c] = <<>>
    /\ wire[c].kind = "act" /\ wire[c].at # "ok" => effects[c] = <<>>
    /\ wire[c].kind = "login" => wire[c].pair.user # Nobody
    /\ effects[c] = <<>> \/ \E u \in Users : effects[c] = <<u>> /\ sender[c] \in {u, Nobody}
    /\ sender[c] # Nobody /\ wire[c].kind = "act" /\ wire[c].at = "asked" =>
          wire[c].pair.user \in {sender[c], Nobody}

AsksWho(c) == Waiting(c) /\ op[c] = "me"

(* In whose hand the tab is.                                               *)
Hands ==
    /\ \A c \in Calls : Waiting(c) /\ sender[c] # Nobody =>
          ready /\ ~mixed /\ shown = sender[c]
    /\ \A c \in Calls : AsksWho(c) => ~ready
    /\ \A c, d \in Calls : AsksWho(c) /\ AsksWho(d) => c = d
    /\ ~ready => \E c \in Calls : AsksWho(c)

(* Whose the tokens are, and those of the refreshes under way.             *)
Owners ==
    /\ ~ready /\ ~mixed =>
          /\ shown = Nobody
          /\ \A c \in Calls : Waiting(c) =>
                /\ op[c] \in {"me", "login"}
                /\ op[c] = "me" /\ wire[c].at # "401" => wire[c].pair.user = tokens.user
    /\ ready /\ ~mixed =>
          /\ tokens.user \in {shown, Nobody}
          /\ \A c \in Calls : Waiting(c) /\ wire[c].kind = "refresh" /\ wire[c].at # "401" =>
                wire[c].pair.user = shown
    /\ ready /\ ~mixed /\ ~faulty => tokens.user = shown
    /\ \A c \in Calls : Waiting(c) /\ wire[c].kind = "refresh" /\ wire[c].at = "401" =>
          faulty \/ mixed

IInv == /\ TypeOK /\ PairsHold /\ (\A c \in Calls : CallOK(c)) /\ Hands /\ Owners

-----------------------------------------------------------------------------
Message == [at : {"none", "asked", "ok", "401"},
            kind : {"none", "act", "look", "me", "login", "refresh"},
            pair : Pairs]

LEMMA PairTypes ==
    /\ NoTokens \in Pairs
    /\ \A u \in Users : IssueTokens(u) \in Pairs
    /\ \A t \in Pairs : Older(t) \in Pairs /\ Older(t).user = t.user
    /\ NoMessage \in Message
<1>1. NoTokens \in Pairs /\ \A u \in Users : IssueTokens(u) \in Pairs
  BY TTLAssumption DEF NoTokens, Pairs, IssueTokens
<1>2. ASSUME NEW t \in Pairs PROVE Older(t) \in Pairs /\ Older(t).user = t.user
  BY <1>2, TTLAssumption DEF Older, Pairs
<1>3. NoMessage \in Message
  BY <1>1 DEF NoMessage, Message
<1> QED  BY <1>1, <1>2, <1>3

LEMMA OlderHolds == ASSUME NEW t \in Pairs, Holds(t) PROVE Holds(Older(t))
<1>1. t.left \in Nat
  BY TTLAssumption DEF Pairs
<1>2. Older(t).user = t.user /\ (Older(t).left > 0 => t.left > 0)
  BY <1>1 DEF Older, Pairs
<1> QED  BY <1>2 DEF Holds

(* A pair without a user is no pair.                                       *)
LEMMA NoUserNoTokens ==
    ASSUME NEW t \in Pairs, Holds(t), t.user = Nobody
    PROVE  t = NoTokens
BY TTLAssumption DEF Pairs, Holds, NoTokens

LEMMA TokensHold ==
    /\ Holds(NoTokens)
    /\ \A u \in Users : Holds(IssueTokens(u))
    /\ \A t \in Pairs : RefreshHolds(t) /\ Holds(t) => t.user \in Users
    /\ \A t \in Pairs : AccessHolds(t) /\ Holds(t) => t.user \in Users
<1>1. Holds(NoTokens) /\ \A u \in Users : Holds(IssueTokens(u))
  BY NobodyAssumption DEF Holds, NoTokens, IssueTokens
<1>2. ASSUME NEW t \in Pairs, Holds(t), t.left > 0 PROVE t.user \in Users
  BY <1>2 DEF Pairs, Holds
<1>3. ASSUME NEW t \in Pairs, AccessHolds(t) PROVE t.left > 0
  BY <1>3, TTLAssumption DEF AccessHolds, Pairs
<1> QED  BY <1>1, <1>2, <1>3 DEF RefreshHolds

Same(d) ==
    /\ pc'[d] = pc[d] /\ op'[d] = op[d] /\ wire'[d] = wire[d]
    /\ sender'[d] = sender[d] /\ effects'[d] = effects[d]

LEMMA SameCall == ASSUME NEW d, CallOK(d), Same(d) PROVE CallOK(d)'
BY DEF CallOK, Same, Waiting

LEMMA LeftTypes ==
    ASSUME TypeOK, NEW c \in Calls
    PROVE  /\ Left(c) \in Message
           /\ Left(c) = wire[c] \/ Left(c) = NoMessage
BY PairTypes DEF Left, TypeOK, Message

-----------------------------------------------------------------------------
LEMMA InitHolds == Init => IInv
<1> SUFFICES ASSUME Init PROVE IInv
  OBVIOUS
<1> USE DEF Init
<1>1. tokens \in Pairs /\ Holds(tokens)
  BY PairTypes, TokensHold
<1>2. TypeOK
  <2>1. wire \in [Calls -> Message]
    BY PairTypes
  <2>2. effects \in [Calls -> Seq(Users)]
    OBVIOUS
  <2> QED  BY <1>1, <2>1, <2>2 DEF TypeOK, Message
<1>3. PairsHold
  BY <1>1, TokensHold DEF PairsHold, NoMessage
<1>4. \A c \in Calls : ~Waiting(c)
  BY DEF Waiting
<1>5. \A c \in Calls : CallOK(c)
  BY <1>4 DEF CallOK, NoMessage
<1>6. Hands
  BY <1>4 DEF Hands, AsksWho
<1>7. tokens.user = shown
  BY DEF NoTokens, IssueTokens
<1>8. Owners
  BY <1>4, <1>7 DEF Owners
<1> QED  BY <1>2, <1>3, <1>5, <1>6, <1>8 DEF IInv

-----------------------------------------------------------------------------
(* The tab, action by action.                                              *)

LEMMA BeginKept ==
    ASSUME IInv, NEW c \in Calls, NEW what \in {"act", "look", "login"}, NEW t \in Pairs,
           Holds(t), Begin(c, what, t), UNCHANGED effects,
           sender' = sender \/ (sender' = [sender EXCEPT ![c] = shown] /\ t.user \in {shown, Nobody}),
           what = "login" => sender' = sender /\ t.user # Nobody
    PROVE  /\ wire' \in [Calls -> Message] /\ pc' \in [Calls -> {"idle", "sent", "refreshing", "resent", "done"}]
           /\ op' \in [Calls -> {"none", "act", "look", "me", "login"}]
           /\ sender' \in [Calls -> Users \cup {Nobody}]
           /\ \A d \in Calls : Holds(wire'[d].pair) /\ CallOK(d)'
           /\ \A d \in Calls \ {c} : Same(d)
           /\ pc'[c] = "sent" /\ op'[c] = what /\ wire'[c] = Ask(what, t)
<1> USE DEF IInv
<1>1. Ask(what, t) \in Message
  BY DEF Ask, Message
<1>2. /\ wire' \in [Calls -> Message] /\ pc' \in [Calls -> {"idle", "sent", "refreshing", "resent", "done"}]
      /\ op' \in [Calls -> {"none", "act", "look", "me", "login"}]
      /\ sender' \in [Calls -> Users \cup {Nobody}]
  BY <1>1 DEF Begin, TypeOK, Message
<1>3. \A d \in Calls \ {c} : Same(d)
  BY DEF Begin, TypeOK, Same
<1>4. pc'[c] = "sent" /\ op'[c] = what /\ wire'[c] = Ask(what, t)
  BY DEF Begin, TypeOK
<1>5. \A d \in Calls : Holds(wire'[d].pair)
  BY <1>3, <1>4 DEF PairsHold, Same, Ask
<1>6. CallOK(c)'
  <2>1. pc[c] = "idle" /\ effects'[c] = <<>> /\ sender[c] = Nobody
    BY DEF Begin, CallOK
  <2>2. /\ wire'[c].at = "asked" /\ wire'[c].kind = what /\ wire'[c].pair = t
    BY <1>4 DEF Ask
  <2>3. sender'[c] # Nobody => t.user \in {sender'[c], Nobody} /\ what # "login"
    BY <2>1 DEF TypeOK
  <2> QED  BY <1>4, <2>1, <2>2, <2>3 DEF CallOK, Waiting
<1> QED  BY <1>2, <1>3, <1>4, <1>5, <1>6, SameCall

LEMMA CallsKept ==
    ASSUME IInv, NEW c \in Calls,
           (\E what \in {"act", "look"} : Call(c, what)) \/ CallOn(c)
           \/ (\E u \in Users : Login(c, u))
    PROVE  IInv'
<1> USE DEF IInv
<1>0. TypeOK /\ PairsHold /\ Hands /\ Owners /\ pc[c] = "idle"
  BY DEF Call, CallOn, Login, Begin
<1>1. PICK what \in {"act", "look", "login"}, t \in Pairs :
        /\ Holds(t) /\ Begin(c, what, t)
        /\ what = "login" => t.user # Nobody
        /\ what # "login" => ready /\ t = tokens
        /\ \/ sender' = sender
           \/ /\ sender' = [sender EXCEPT ![c] = shown] /\ what # "login"
              /\ ready /\ ~mixed /\ t.user \in {shown, Nobody}
  <2>1. ASSUME NEW w \in {"act", "look"}, Call(c, w)
        PROVE  /\ Begin(c, w, tokens) /\ ready
               /\ \/ sender' = sender
                  \/ /\ sender' = [sender EXCEPT ![c] = shown]
                     /\ ready /\ ~mixed /\ tokens.user \in {shown, Nobody}
    BY <2>1 DEF Call, Owners
  <2>2. ASSUME NEW u \in Users, Login(c, u)
        PROVE  /\ Begin(c, "login", [user |-> u, left |-> 0]) /\ sender' = sender
               /\ u # Nobody /\ [user |-> u, left |-> 0] \in Pairs /\ Holds([user |-> u, left |-> 0])
    BY <2>2, TTLAssumption, NobodyAssumption DEF Login, history, Pairs, Holds
  <2>3. tokens \in Pairs /\ Holds(tokens)
    BY DEF TypeOK, PairsHold
  <2>4. CallOn(c) => Begin(c, "act", tokens) /\ sender' = sender /\ ready
    BY DEF CallOn, history
  <2> QED  BY <2>1, <2>2, <2>3, <2>4
<1>2. UNCHANGED <<shown, ready, tokens, effects, mixed, faulty>>
  BY DEF Call, CallOn, Login, history
<1>3. /\ wire' \in [Calls -> Message] /\ pc' \in [Calls -> {"idle", "sent", "refreshing", "resent", "done"}]
      /\ op' \in [Calls -> {"none", "act", "look", "me", "login"}]
      /\ sender' \in [Calls -> Users \cup {Nobody}]
      /\ \A d \in Calls : Holds(wire'[d].pair) /\ CallOK(d)'
      /\ \A d \in Calls \ {c} : Same(d)
      /\ pc'[c] = "sent" /\ op'[c] = what /\ wire'[c] = Ask(what, t)
  BY <1>1, <1>2, BeginKept
<1>4. TypeOK' /\ PairsHold'
  BY <1>2, <1>3 DEF TypeOK, PairsHold, Message
<1>5. \A d \in Calls \ {c} : (Waiting(d)' <=> Waiting(d)) /\ (AsksWho(d)' <=> AsksWho(d))
  BY <1>3 DEF Same, Waiting, AsksWho
<1>6. ~AsksWho(c) /\ ~AsksWho(c)' /\ sender[c] = Nobody
  BY <1>0, <1>3 DEF AsksWho, Waiting, CallOK
<1>7. Hands'
  <2>1. sender'[c] # Nobody => ready /\ ~mixed /\ shown = sender'[c]
    BY <1>1, <1>6 DEF TypeOK
  <2> QED  BY <1>2, <1>3, <1>5, <1>6, <2>1 DEF Hands, Same
<1>8. Owners'
  <2>1. ~ready => what = "login"
    BY <1>1
  <2>2. wire'[c].kind # "refresh" /\ wire'[c].at = "asked"
    BY <1>1, <1>3 DEF Ask
  <2> QED  BY <1>2, <1>3, <1>5, <2>1, <2>2 DEF Owners, Same
<1> QED  BY <1>3, <1>4, <1>7, <1>8

LEMMA HandsChange ==
    ASSUME TypeOK, NEW others \in SUBSET Calls, ChangeHands(others)
    PROVE  /\ sender' \in [Calls -> Users \cup {Nobody}]
           /\ mixed' \in BOOLEAN /\ (~mixed' => others = {})
           /\ \A d \in others : sender'[d] = Nobody
           /\ \A d \in Calls \ others : sender'[d] = sender[d]
BY DEF ChangeHands, TypeOK

(* A call whose sender is forgotten is as good as before.                  *)
LEMMA ForgottenCall ==
    ASSUME NEW d, CallOK(d), pc'[d] = pc[d], op'[d] = op[d], wire'[d] = wire[d],
           effects'[d] = effects[d], sender'[d] \in {sender[d], Nobody}
    PROVE  CallOK(d)'
BY DEF CallOK, Waiting

LEMMA LogoutKept == ASSUME IInv, Logout PROVE IInv'
<1> USE DEF IInv
<1> DEFINE others == Others(Nobody)
<1>1. /\ tokens' = NoTokens /\ shown' = Nobody /\ ready /\ ChangeHands(others)
      /\ UNCHANGED <<ready, pc, op, wire, effects, faulty>>
  BY DEF Logout
<1>2. others \in SUBSET Calls /\ \A d \in Calls : Waiting(d) <=> d \in others
  BY NobodyAssumption DEF Others
<1>3. /\ sender' \in [Calls -> Users \cup {Nobody}]
      /\ mixed' \in BOOLEAN /\ (~mixed' => others = {})
      /\ \A d \in others : sender'[d] = Nobody
      /\ \A d \in Calls \ others : sender'[d] = sender[d]
  BY <1>1, <1>2, HandsChange
<1>4. TypeOK' /\ PairsHold'
  BY <1>1, <1>3, PairTypes, TokensHold DEF TypeOK, PairsHold
<1>5. \A d \in Calls : CallOK(d)'
  BY <1>1, <1>3, ForgottenCall
<1>6. \A d \in Calls : (Waiting(d)' <=> Waiting(d)) /\ ~AsksWho(d) /\ ~AsksWho(d)'
  BY <1>1 DEF Hands, AsksWho, Waiting
<1>7. Hands'
  BY <1>1, <1>2, <1>3, <1>6 DEF Hands
<1>8. Owners'
  BY <1>1, <1>2, <1>3, <1>6 DEF Owners, NoTokens
<1> QED  BY <1>4, <1>5, <1>7, <1>8

LEMMA LoadKept == ASSUME IInv, NEW c \in Calls, Load(c) PROVE IInv'
<1> USE DEF IInv
<1> DEFINE gone == {d \in Calls : Waiting(d)}
           left == [d \in Calls |-> Left(d)]
<1>1. /\ shown' = Nobody /\ mixed' = FALSE
      /\ UNCHANGED <<tokens, sender, effects, faulty>>
  BY DEF Load
<1>2. ASSUME NEW d \in Calls
      PROVE  /\ left[d] \in Message /\ Holds(left[d].pair)
             /\ left[d] = wire[d] \/ left[d] = NoMessage
             /\ left[d] = NoMessage \/ left[d].kind = "act"
  BY LeftTypes, TokensHold DEF PairsHold, NoMessage, Left
<1>3. ASSUME NEW d \in Calls, pc'[d] = (IF d \in gone THEN "done" ELSE pc[d]),
             op'[d] = "none", wire'[d] = left[d]
      PROVE  CallOK(d)' /\ ~Waiting(d)'
  <2>1. CASE Waiting(d)
    BY <1>1, <1>2, <1>3, <2>1 DEF CallOK, Waiting, NoMessage
  <2>2. CASE ~Waiting(d)
    <3>1. left[d] = wire[d] \/ left[d] = NoMessage
      BY <1>2
    <3>2. pc[d] \in {"idle", "done"}
      BY <2>2 DEF TypeOK, Waiting
    <3> QED  BY <1>1, <1>2, <1>3, <2>2, <3>1, <3>2 DEF CallOK, Waiting, NoMessage
  <2> QED  BY <2>1, <2>2
<1>4. CASE /\ tokens = NoTokens /\ ready' = TRUE
           /\ pc' = [d \in Calls |-> IF d \in gone THEN "done" ELSE pc[d]]
           /\ op' = [d \in Calls |-> "none"] /\ wire' = left
  <2>1. TypeOK' /\ PairsHold'
    BY <1>1, <1>2, <1>4 DEF TypeOK, PairsHold, Message
  <2>2. \A d \in Calls : CallOK(d)' /\ ~Waiting(d)'
    BY <1>3, <1>4
  <2> QED  BY <1>1, <1>4, <2>1, <2>2 DEF Hands, Owners, AsksWho, NoTokens
<1>5. CASE /\ tokens # NoTokens /\ ready' = FALSE /\ pc[c] = "idle"
           /\ pc' = [d \in Calls |-> IF d = c THEN "sent" ELSE IF d \in gone THEN "done" ELSE pc[d]]
           /\ op' = [d \in Calls |-> IF d = c THEN "me" ELSE "none"]
           /\ wire' = [left EXCEPT ![c] = Ask("me", tokens)]
  <2>1. Ask("me", tokens) \in Message /\ Holds(tokens)
    BY DEF TypeOK, PairsHold, Ask, Message
  <2>2. wire' \in [Calls -> Message]
    BY <1>2, <1>5, <2>1
  <2>3. TypeOK'
    BY <1>1, <1>5, <2>2 DEF TypeOK, Message
  <2>4. pc'[c] = "sent" /\ op'[c] = "me" /\ wire'[c] = Ask("me", tokens)
    BY <1>5
  <2>5. \A d \in Calls \ {c} : wire'[d] = left[d]
    BY <1>5
  <2>6. PairsHold'
    BY <1>1, <1>2, <2>1, <2>4, <2>5 DEF PairsHold, Ask
  <2>7. \A d \in Calls \ {c} : CallOK(d)' /\ ~Waiting(d)'
    BY <1>3, <1>5, <2>5
  <2>8. CallOK(c)' /\ AsksWho(c)' /\ sender[c] = Nobody
    BY <1>1, <1>5, <2>4 DEF CallOK, Waiting, Ask, AsksWho
  <2>9. Hands'
    BY <1>1, <1>5, <2>7, <2>8 DEF Hands, AsksWho
  <2>10. Owners'
    BY <1>1, <1>5, <2>4, <2>7 DEF Owners, Ask
  <2> QED  BY <2>3, <2>6, <2>7, <2>8, <2>9, <2>10
<1> QED  BY <1>4, <1>5 DEF Load

-----------------------------------------------------------------------------
(* The server.                                                             *)

LEMMA ServeKept == ASSUME IInv, NEW c \in Calls, Serve(c) PROVE IInv'
<1> USE DEF IInv
<1> DEFINE t == wire[c].pair
<1>1. /\ UNCHANGED <<shown, ready, tokens, pc, op, sender, mixed>>
      /\ wire[c].at = "asked" /\ (faulty' = TRUE \/ faulty' = faulty)
  BY DEF Serve, ServeRequired, ServeOptional, ServeLogin, ServeRefresh, history
<1>2. t \in Pairs /\ Holds(t) /\ wire[c] \in Message
  BY DEF TypeOK, PairsHold, Message
<1>3. PICK at \in {"ok", "401"}, p \in Pairs :
        /\ Reply(c, at, p) /\ Holds(p)
        /\ at = "ok" /\ wire[c].kind \in {"me", "login", "refresh"} => p.user = t.user
        /\ at = "401" => /\ wire[c].kind # "login" /\ effects' = effects
                         /\ wire[c].kind = "refresh" => faulty' = TRUE
        /\ \/ effects' = effects /\ (at = "401" \/ wire[c].kind # "act")
           \/ /\ at = "ok" /\ wire[c].kind = "act" /\ t.user \in Users
              /\ effects' = [effects EXCEPT ![c] = Append(@, t.user)]
  <2>1. CASE ServeRequired(c)
    <3>1. CASE ~AccessHolds(t)
      BY <2>1, <3>1, PairTypes, TokensHold DEF ServeRequired
    <3>2. CASE AccessHolds(t)
      BY <1>2, <2>1, <3>2, TokensHold DEF ServeRequired
    <3> QED  BY <3>1, <3>2
  <2>2. CASE ServeOptional(c)
    BY <2>2, PairTypes, TokensHold DEF ServeOptional, history
  <2>3. CASE ServeLogin(c)
    <3>1. t.user \in Users \cup {Nobody}
      BY <1>2 DEF Pairs
    <3>2. IssueTokens(t.user) \in Pairs
      BY <3>1, TTLAssumption DEF IssueTokens, Pairs
    <3>3. t.user # Nobody
      BY <2>3 DEF ServeLogin, CallOK
    <3>4. IssueTokens(t.user).user = t.user /\ Holds(IssueTokens(t.user))
      BY <3>1, <3>3, TokensHold DEF IssueTokens
    <3> QED  BY <2>3, <3>2, <3>4 DEF ServeLogin, history
  <2>4. CASE ServeRefresh(c)
    <3>1. CASE ~RefreshHolds(t)
      BY <2>4, <3>1, PairTypes, TokensHold DEF ServeRefresh
    <3>2. CASE RefreshHolds(t)
      <4>1. IssueTokens(t.user) \in Pairs /\ Holds(IssueTokens(t.user))
            /\ IssueTokens(t.user).user = t.user
        BY <1>2, <3>2, PairTypes, TokensHold DEF IssueTokens
      <4> QED  BY <2>4, <3>2, <4>1 DEF ServeRefresh
    <3> QED  BY <3>1, <3>2
  <2> QED  BY <2>1, <2>2, <2>3, <2>4 DEF Serve
<1>4. /\ wire'[c].at = at /\ wire'[c].pair = p /\ wire'[c].kind = wire[c].kind
      /\ wire' \in [Calls -> Message]
      /\ \A d \in Calls \ {c} : wire'[d] = wire[d]
  <2>1. wire' = [wire EXCEPT ![c] = [at |-> at, kind |-> wire[c].kind, pair |-> p]]
    BY <1>2, <1>3 DEF Reply, TypeOK, Message
  <2>2. [at |-> at, kind |-> wire[c].kind, pair |-> p] \in Message
    BY <1>2 DEF Message
  <2> QED  BY <2>1, <2>2 DEF TypeOK, Message
<1>5. effects' \in [Calls -> Seq(Users)] /\ \A d \in Calls \ {c} : effects'[d] = effects[d]
  <2>1. effects \in [Calls -> Seq(Users)]
    BY DEF TypeOK
  <2>2. t.user \in Users => Append(effects[c], t.user) \in Seq(Users)
    BY <2>1
  <2> QED  BY <1>3, <2>1, <2>2
<1>6. TypeOK' /\ PairsHold'
  BY <1>1, <1>3, <1>4, <1>5 DEF TypeOK, PairsHold, Message
<1>7. CallOK(c)'
  <2>1. CASE effects' = effects /\ (at = "401" \/ wire[c].kind # "act")
    BY <1>1, <1>3, <1>4, <2>1 DEF CallOK, Waiting, NoMessage
  <2>2. CASE /\ at = "ok" /\ wire[c].kind = "act" /\ t.user \in Users
             /\ effects' = [effects EXCEPT ![c] = Append(@, t.user)]
    <3>1. effects[c] = <<>> /\ sender[c] \in {t.user, Nobody}
      BY <1>1, <2>2, NobodyAssumption DEF CallOK
    <3>2. effects'[c] = <<t.user>>
      BY <2>2, <3>1 DEF TypeOK
    <3> QED  BY <1>1, <1>4, <2>2, <3>1, <3>2 DEF CallOK, Waiting, NoMessage
  <2> QED  BY <1>3, <2>1, <2>2
<1>8. \A d \in Calls : CallOK(d)'
  BY <1>1, <1>4, <1>5, <1>7, SameCall DEF Same
<1>9. \A d \in Calls : (Waiting(d)' <=> Waiting(d)) /\ (AsksWho(d)' <=> AsksWho(d))
  BY <1>1 DEF Waiting, AsksWho
<1>10. Hands'
  BY <1>1, <1>9 DEF Hands
<1>11. Owners'
  <2>1. ASSUME NEW d \in Calls, Waiting(d), op[d] = "me", wire'[d].at # "401"
        PROVE  wire'[d].pair.user = wire[d].pair.user /\ wire[d].at # "401"
    BY <1>1, <1>3, <1>4, <2>1 DEF CallOK
  <2>2. ASSUME NEW d \in Calls, wire'[d].kind = "refresh", wire'[d].at # "401"
        PROVE  wire'[d].pair.user = wire[d].pair.user /\ wire[d].at # "401"
               /\ wire[d].kind = "refresh"
    BY <1>1, <1>3, <1>4, <2>2
  <2>3. ASSUME NEW d \in Calls, Waiting(d), wire'[d].kind = "refresh", wire'[d].at = "401"
        PROVE  faulty' \/ mixed'
    BY <1>1, <1>3, <1>4, <2>3 DEF Owners
  <2> QED  BY <1>1, <1>9, <2>1, <2>2, <2>3 DEF Owners
<1> QED  BY <1>6, <1>8, <1>10, <1>11

-----------------------------------------------------------------------------
(* The answers.                                                            *)

(* A call that comes to its end.                                           *)
LEMMA CloseKept ==
    ASSUME IInv, NEW c \in Calls, Waiting(c), Close(c)
    PROVE  /\ wire' \in [Calls -> Message] /\ effects' = effects
           /\ pc' \in [Calls -> {"idle", "sent", "refreshing", "resent", "done"}]
           /\ op' \in [Calls -> {"none", "act", "look", "me", "login"}]
           /\ \A d \in Calls : Holds(wire'[d].pair)
           /\ sender'[c] = sender[c] => CallOK(c)'
           /\ \A d \in Calls \ {c} :
                 /\ pc'[d] = pc[d] /\ op'[d] = op[d] /\ wire'[d] = wire[d]
                 /\ (Waiting(d)' <=> Waiting(d)) /\ (AsksWho(d)' <=> AsksWho(d))
           /\ ~Waiting(c)' /\ ~AsksWho(c)'
<1> USE DEF IInv
<1>1. Left(c) \in Message /\ (Left(c) = wire[c] \/ Left(c) = NoMessage)
      /\ (Left(c) = NoMessage \/ (Left(c).kind = "act" /\ Left(c).at = "asked"))
  BY LeftTypes DEF Left
<1>2. /\ pc'[c] = "done" /\ op'[c] = "none" /\ wire'[c] = Left(c) /\ effects' = effects
      /\ \A d \in Calls \ {c} : pc'[d] = pc[d] /\ op'[d] = op[d] /\ wire'[d] = wire[d]
  BY DEF Close, TypeOK
<1>3. /\ wire' \in [Calls -> Message]
      /\ pc' \in [Calls -> {"idle", "sent", "refreshing", "resent", "done"}]
      /\ op' \in [Calls -> {"none", "act", "look", "me", "login"}]
  BY <1>1 DEF Close, TypeOK, Message
<1>4. \A d \in Calls : Holds(wire'[d].pair)
  BY <1>1, <1>2, TokensHold DEF PairsHold, NoMessage
<1>5. ASSUME sender'[c] = sender[c] PROVE CallOK(c)'
  <2>1. CallOK(c)
    OBVIOUS
  <2> QED  BY <1>1, <1>2, <1>5, <2>1 DEF CallOK, Waiting, NoMessage
<1> QED  BY <1>2, <1>3, <1>4, <1>5 DEF Waiting, AsksWho

LEMMA SucceedKept == ASSUME IInv, NEW c \in Calls, Succeed(c) PROVE IInv'
<1> USE DEF IInv
<1>1. /\ Waiting(c) /\ wire[c].at = "ok" /\ Close(c)
      /\ UNCHANGED <<tokens, sender, mixed, faulty, effects>>
  BY DEF Succeed, Answered, Close
<1>2. /\ wire' \in [Calls -> Message] /\ effects' = effects
      /\ pc' \in [Calls -> {"idle", "sent", "refreshing", "resent", "done"}]
      /\ op' \in [Calls -> {"none", "act", "look", "me", "login"}]
      /\ \A d \in Calls : Holds(wire'[d].pair)
      /\ sender'[c] = sender[c] => CallOK(c)'
      /\ \A d \in Calls \ {c} :
            /\ pc'[d] = pc[d] /\ op'[d] = op[d] /\ wire'[d] = wire[d]
            /\ (Waiting(d)' <=> Waiting(d)) /\ (AsksWho(d)' <=> AsksWho(d))
      /\ ~Waiting(c)' /\ ~AsksWho(c)'
  BY <1>1, CloseKept
<1>3. shown' \in Users \cup {Nobody} /\ ready' \in BOOLEAN
  BY DEF Succeed, TypeOK, Pairs
<1>4. TypeOK' /\ PairsHold'
  BY <1>1, <1>2, <1>3 DEF TypeOK, PairsHold, Message
<1>5. \A d \in Calls : CallOK(d)'
  BY <1>1, <1>2, SameCall DEF Same
<1>6. CASE op[c] = "me" /\ shown' = wire[c].pair.user /\ ready' = TRUE
  <2>1. ~ready /\ \A d \in Calls \ {c} : ~AsksWho(d)
    BY <1>1, <1>6 DEF Hands, AsksWho
  <2>2. Hands'
    BY <1>1, <1>2, <1>6, <2>1 DEF Hands
  <2>3. ~mixed => shown' = tokens.user /\ \A d \in Calls \ {c} : Waiting(d) => op[d] = "login"
    BY <1>1, <1>6, <2>1 DEF Owners, AsksWho
  <2>4. \A d \in Calls \ {c} : Waiting(d) /\ op[d] = "login" => wire[d].kind = "login"
    BY DEF CallOK
  <2>5. ASSUME NEW d \in Calls, Waiting(d)', wire'[d].kind = "refresh" PROVE mixed
    BY <1>2, <2>3, <2>4, <2>5
  <2>6. Owners'
    BY <1>1, <1>6, <2>3, <2>5 DEF Owners
  <2> QED  BY <1>4, <1>5, <2>2, <2>6
<1>7. CASE op[c] # "me" /\ UNCHANGED <<shown, ready>>
  <2>1. ~AsksWho(c)
    BY <1>7 DEF AsksWho
  <2>2. Hands'
    BY <1>1, <1>2, <1>7, <2>1 DEF Hands
  <2>3. Owners'
    BY <1>1, <1>2, <1>7 DEF Owners
  <2> QED  BY <1>4, <1>5, <2>2, <2>3
<1> QED  BY <1>6, <1>7 DEF Succeed

LEMMA SignInKept == ASSUME IInv, NEW c \in Calls, SignIn(c) PROVE IInv'
<1> USE DEF IInv
<1> DEFINE others == Others(c)
<1>1. /\ Waiting(c) /\ wire[c].kind = "login" /\ Close(c) /\ ChangeHands(others)
      /\ tokens' = wire[c].pair /\ shown' = wire[c].pair.user
      /\ faulty' = FALSE /\ ready' = ready
  BY DEF SignIn, Answered
<1>2. others \in SUBSET Calls /\ c \notin others
      /\ \A d \in Calls \ {c} : Waiting(d) <=> d \in others
  BY DEF Others
<1>3. /\ sender' \in [Calls -> Users \cup {Nobody}]
      /\ mixed' \in BOOLEAN /\ (~mixed' => others = {})
      /\ \A d \in others : sender'[d] = Nobody
      /\ \A d \in Calls \ others : sender'[d] = sender[d]
  BY <1>1, <1>2, HandsChange
<1>4. /\ wire' \in [Calls -> Message] /\ effects' = effects
      /\ pc' \in [Calls -> {"idle", "sent", "refreshing", "resent", "done"}]
      /\ op' \in [Calls -> {"none", "act", "look", "me", "login"}]
      /\ \A d \in Calls : Holds(wire'[d].pair)
      /\ sender'[c] = sender[c] => CallOK(c)'
      /\ \A d \in Calls \ {c} :
            /\ pc'[d] = pc[d] /\ op'[d] = op[d] /\ wire'[d] = wire[d]
            /\ (Waiting(d)' <=> Waiting(d)) /\ (AsksWho(d)' <=> AsksWho(d))
      /\ ~Waiting(c)' /\ ~AsksWho(c)'
  BY <1>1, CloseKept
<1>5. TypeOK' /\ PairsHold'
  <2>1. tokens' \in Pairs /\ Holds(tokens') /\ shown' \in Users \cup {Nobody}
    BY <1>1 DEF TypeOK, PairsHold, Pairs
  <2> QED  BY <1>1, <1>3, <1>4, <2>1 DEF TypeOK, PairsHold, Message
<1>6. \A d \in Calls : CallOK(d)'
  <2>1. CallOK(c)'
    BY <1>2, <1>3, <1>4
  <2>2. ASSUME NEW d \in Calls \ {c} PROVE CallOK(d)'
    BY <1>3, <1>4, ForgottenCall
  <2> QED  BY <2>1, <2>2
<1>7. ~AsksWho(c)
  BY <1>1 DEF AsksWho, CallOK
<1>8. Hands'
  <2>1. \A d \in Calls : Waiting(d)' => sender'[d] = Nobody
    BY <1>2, <1>3, <1>4
  <2> QED  BY <1>1, <1>4, <1>7, <2>1 DEF Hands
<1>9. ~mixed' => ready /\ \A d \in Calls : ~Waiting(d)'
  <2>1. SUFFICES ASSUME ~mixed' PROVE ready /\ \A d \in Calls : ~Waiting(d)'
    OBVIOUS
  <2>2. \A d \in Calls \ {c} : ~Waiting(d)
    BY <1>2, <1>3, <2>1
  <2>3. \A d \in Calls : ~AsksWho(d)
    BY <1>7, <2>2 DEF AsksWho
  <2> QED  BY <1>4, <2>2, <2>3 DEF Hands
<1>10. ASSUME NEW d \in Calls, Waiting(d)' PROVE mixed'
  BY <1>3, <1>9, <1>10
<1>11. Owners'
  BY <1>1, <1>9, <1>10 DEF Owners
<1> QED  BY <1>5, <1>6, <1>8, <1>11

(* A call that throws.                                                     *)
LEMMA FailKept ==
    ASSUME IInv, NEW c \in Calls, NEW t \in {tokens, NoTokens}, Waiting(c), Fail(c, t),
           faulty' \in BOOLEAN, faulty => faulty',
           t = tokens \/ (pc[c] = "refreshing" /\ (faulty' \/ mixed))
    PROVE  IInv'
<1> USE DEF IInv
<1>1. Close(c) /\ UNCHANGED <<sender, mixed>>
  BY DEF Fail
<1>2. /\ wire' \in [Calls -> Message] /\ effects' = effects
      /\ pc' \in [Calls -> {"idle", "sent", "refreshing", "resent", "done"}]
      /\ op' \in [Calls -> {"none", "act", "look", "me", "login"}]
      /\ \A d \in Calls : Holds(wire'[d].pair)
      /\ sender'[c] = sender[c] => CallOK(c)'
      /\ \A d \in Calls \ {c} :
            /\ pc'[d] = pc[d] /\ op'[d] = op[d] /\ wire'[d] = wire[d]
            /\ (Waiting(d)' <=> Waiting(d)) /\ (AsksWho(d)' <=> AsksWho(d))
      /\ ~Waiting(c)' /\ ~AsksWho(c)'
  BY <1>1, CloseKept
<1>3. tokens' \in {tokens, NoTokens} /\ shown' \in Users \cup {Nobody} /\ ready' \in BOOLEAN
  BY DEF Fail, TypeOK
<1>4. TypeOK' /\ PairsHold'
  BY <1>1, <1>2, <1>3, PairTypes, TokensHold DEF TypeOK, PairsHold, Message
<1>5. \A d \in Calls : CallOK(d)'
  BY <1>1, <1>2, SameCall DEF Same
<1>6. CASE op[c] = "me" /\ tokens' = NoTokens /\ shown' = Nobody /\ ready' = TRUE
  <2>1. ~ready /\ \A d \in Calls \ {c} : ~AsksWho(d)
    BY <1>6 DEF Hands, AsksWho
  <2>2. Hands'
    BY <1>1, <1>2, <1>6, <2>1 DEF Hands
  <2>3. ~mixed => \A d \in Calls \ {c} : Waiting(d) => op[d] = "login"
    BY <1>6, <2>1 DEF Owners, AsksWho
  <2>4. \A d \in Calls \ {c} : Waiting(d) /\ op[d] = "login" => wire[d].kind = "login"
    BY DEF CallOK
  <2>5. ASSUME NEW d \in Calls, Waiting(d)', wire'[d].kind = "refresh" PROVE mixed
    BY <1>2, <2>3, <2>4, <2>5
  <2>6. Owners'
    BY <1>1, <1>6, <2>5 DEF Owners, NoTokens
  <2> QED  BY <1>4, <1>5, <2>2, <2>6
<1>7. CASE op[c] # "me" /\ tokens' = t /\ UNCHANGED <<shown, ready>>
  <2>1. ~AsksWho(c)
    BY <1>7 DEF AsksWho
  <2>2. Hands'
    BY <1>1, <1>2, <1>7, <2>1 DEF Hands
  <2>3. ~ready /\ ~mixed => tokens' = tokens
    <3>1. ~ready /\ ~mixed => op[c] = "login" /\ pc[c] = "sent"
      BY <1>7 DEF Owners, CallOK
    <3> QED  BY <1>7, <3>1
  <2>4. Owners'
    BY <1>1, <1>2, <1>3, <1>7, <2>3 DEF Owners, NoTokens
  <2> QED  BY <1>4, <1>5, <2>2, <2>4
<1> QED  BY <1>6, <1>7 DEF Fail

(* A call goes on to another step, with another message.                   *)
LEMMA AskedAgain ==
    ASSUME IInv, NEW c \in Calls, Waiting(c), NEW at \in {"refreshing", "resent"},
           NEW kind \in {"act", "look", "me", "refresh"}, NEW t \in Pairs, Holds(t),
           pc' = [pc EXCEPT ![c] = at], wire' = [wire EXCEPT ![c] = Ask(kind, t)],
           UNCHANGED <<op, sender, effects>>, effects[c] = <<>>, op[c] # "login",
           kind = IF at = "refreshing" THEN "refresh" ELSE op[c],
           sender[c] # Nobody /\ kind = "act" => t.user \in {sender[c], Nobody}
    PROVE  /\ wire' \in [Calls -> Message]
           /\ pc' \in [Calls -> {"idle", "sent", "refreshing", "resent", "done"}]
           /\ \A d \in Calls : Holds(wire'[d].pair) /\ CallOK(d)'
           /\ \A d \in Calls : (Waiting(d)' <=> Waiting(d)) /\ (AsksWho(d)' <=> AsksWho(d))
           /\ \A d \in Calls \ {c} : wire'[d] = wire[d]
           /\ wire'[c].at = "asked" /\ wire'[c].kind = kind /\ wire'[c].pair = t
<1> USE DEF IInv
<1>1. Ask(kind, t) \in Message
  BY DEF Ask, Message
<1>2. /\ wire' \in [Calls -> Message]
      /\ pc' \in [Calls -> {"idle", "sent", "refreshing", "resent", "done"}]
  BY <1>1 DEF TypeOK, Message
<1>3. pc'[c] = at /\ wire'[c].at = "asked" /\ wire'[c].kind = kind /\ wire'[c].pair = t
  BY DEF TypeOK, Ask
<1>4. \A d \in Calls \ {c} : pc'[d] = pc[d] /\ wire'[d] = wire[d]
  BY DEF TypeOK
<1>5. CallOK(c)'
  <2>1. CallOK(c)
    OBVIOUS
  <2> QED  BY <1>3, <2>1 DEF CallOK, Waiting
<1>6. \A d \in Calls : Holds(wire'[d].pair) /\ CallOK(d)'
  BY <1>3, <1>4, <1>5, SameCall DEF Same, PairsHold
<1> QED  BY <1>2, <1>3, <1>4, <1>6 DEF Waiting, AsksWho

LEMMA RefusedKept ==
    ASSUME IInv, NEW c \in Calls, Denied(c) \/ RefreshDenied(c) \/ Break(c)
    PROVE  IInv'
<1> USE DEF IInv
<1>1. CASE Break(c)
  BY <1>1, FailKept DEF Break, TypeOK
<1>2. CASE RefreshDenied(c)
  <2>1. Waiting(c) /\ pc[c] = "refreshing" /\ wire[c].at = "401" /\ Fail(c, NoTokens)
        /\ faulty' = faulty
    BY <1>2 DEF RefreshDenied, Answered
  <2>2. faulty \/ mixed
    BY <2>1 DEF CallOK, Owners
  <2> QED  BY <2>1, <2>2, FailKept DEF TypeOK
<1>3. CASE Denied(c) /\ Fail(c, tokens) /\ UNCHANGED faulty
  BY <1>3, FailKept DEF Denied, Answered, TypeOK
<1>4. CASE /\ Answered(c, "401") /\ pc[c] # "refreshing" /\ tokens # NoTokens
           /\ pc' = [pc EXCEPT ![c] = "refreshing"]
           /\ wire' = [wire EXCEPT ![c] = Ask("refresh", tokens)]
           /\ UNCHANGED <<shown, ready, tokens, op, history>>
  <2>1. Waiting(c) /\ wire[c].at = "401" /\ UNCHANGED <<sender, effects, mixed, faulty>>
    BY <1>4 DEF Answered, history
  <2>2. effects[c] = <<>> /\ op[c] # "login"
    <3>1. CallOK(c) /\ op[c] \in {"none", "act", "look", "me", "login"}
      BY DEF TypeOK
    <3> QED  BY <1>4, <2>1, <3>1 DEF CallOK
  <2>3. tokens \in Pairs /\ Holds(tokens) /\ tokens.user # Nobody
    BY <1>4, NoUserNoTokens DEF TypeOK, PairsHold
  <2>4. /\ wire' \in [Calls -> Message]
        /\ pc' \in [Calls -> {"idle", "sent", "refreshing", "resent", "done"}]
        /\ \A d \in Calls : Holds(wire'[d].pair) /\ CallOK(d)'
        /\ \A d \in Calls : (Waiting(d)' <=> Waiting(d)) /\ (AsksWho(d)' <=> AsksWho(d))
        /\ \A d \in Calls \ {c} : wire'[d] = wire[d]
        /\ wire'[c].at = "asked" /\ wire'[c].kind = "refresh" /\ wire'[c].pair = tokens
    BY <1>4, <2>1, <2>2, <2>3, AskedAgain
  <2>5. TypeOK' /\ PairsHold'
    BY <1>4, <2>1, <2>3, <2>4 DEF TypeOK, PairsHold, Message
  <2>6. Hands'
    BY <1>4, <2>1, <2>4 DEF Hands
  <2>7. Owners'
    BY <1>4, <2>1, <2>3, <2>4 DEF Owners
  <2> QED  BY <2>4, <2>5, <2>6, <2>7
<1> QED  BY <1>1, <1>2, <1>3, <1>4 DEF Denied

LEMMA RefreshedKept == ASSUME IInv, NEW c \in Calls, Refreshed(c) PROVE IInv'
<1> USE DEF IInv
<1> DEFINE t == wire[c].pair
<1>1. /\ Waiting(c) /\ wire[c].at = "ok" /\ wire[c].kind = "refresh" /\ tokens' = t
      /\ pc' = [pc EXCEPT ![c] = "resent"] /\ wire' = [wire EXCEPT ![c] = Ask(op[c], t)]
      /\ UNCHANGED <<shown, ready, op, sender, effects, mixed, faulty>>
  BY DEF Refreshed, Answered, history
<1>2. effects[c] = <<>> /\ op[c] \in {"act", "look", "me"} /\ t \in Pairs /\ Holds(t)
  <2>1. CallOK(c) /\ op[c] \in {"none", "act", "look", "me", "login"}
    BY DEF TypeOK
  <2>2. pc[c] = "refreshing"
    BY <1>1, <2>1 DEF CallOK
  <2> QED  BY <1>1, <2>1, <2>2 DEF CallOK, TypeOK, PairsHold
<1>3. sender[c] # Nobody => t.user = sender[c]
  BY <1>1 DEF Hands, Owners
<1>4. /\ wire' \in [Calls -> Message]
      /\ pc' \in [Calls -> {"idle", "sent", "refreshing", "resent", "done"}]
      /\ \A d \in Calls : Holds(wire'[d].pair) /\ CallOK(d)'
      /\ \A d \in Calls : (Waiting(d)' <=> Waiting(d)) /\ (AsksWho(d)' <=> AsksWho(d))
      /\ \A d \in Calls \ {c} : wire'[d] = wire[d]
      /\ wire'[c].at = "asked" /\ wire'[c].kind = op[c] /\ wire'[c].pair = t
  <2>1. UNCHANGED <<op, sender, effects>> /\ op[c] # "login"
    BY <1>1, <1>2
  <2> QED  BY <1>1, <1>2, <1>3, <2>1, AskedAgain
<1>5. TypeOK' /\ PairsHold'
  BY <1>1, <1>2, <1>4 DEF TypeOK, PairsHold, Message
<1>6. Hands'
  BY <1>1, <1>4 DEF Hands
<1>7. Owners'
  <2>1. CASE mixed
    BY <1>1, <2>1 DEF Owners
  <2>2. CASE ~mixed /\ ready
    BY <1>1, <1>2, <1>4, <2>2 DEF Owners
  <2>3. CASE ~mixed /\ ~ready
    <3>1. op[c] = "me" /\ t.user = tokens.user
      BY <1>1, <1>2, <2>3 DEF Owners
    <3> QED  BY <1>1, <1>2, <1>4, <2>3, <3>1 DEF Owners
  <2> QED  BY <2>1, <2>2, <2>3
<1> QED  BY <1>4, <1>5, <1>6, <1>7

LEMMA TickKept == ASSUME IInv, Tick PROVE IInv'
<1> USE DEF IInv
<1>1. /\ tokens' = Older(tokens)
      /\ wire' = [d \in Calls |-> [wire[d] EXCEPT !.pair = Older(@)]]
      /\ UNCHANGED <<shown, ready, pc, op, sender, effects, mixed, faulty>>
  BY DEF Tick, history
<1>2. tokens' \in Pairs /\ tokens'.user = tokens.user /\ Holds(tokens')
  BY <1>1, PairTypes, OlderHolds DEF TypeOK, PairsHold
<1>3. ASSUME NEW d \in Calls
      PROVE  /\ wire'[d] \in Message /\ Holds(wire'[d].pair)
             /\ wire'[d].at = wire[d].at /\ wire'[d].kind = wire[d].kind
             /\ wire'[d].pair.user = wire[d].pair.user
             /\ wire[d] = NoMessage => wire'[d] = NoMessage
  <2>1. wire[d] \in Message /\ wire[d].pair \in Pairs /\ Holds(wire[d].pair)
    BY DEF TypeOK, PairsHold, Message
  <2>2. wire'[d] = [wire[d] EXCEPT !.pair = Older(wire[d].pair)]
    BY <1>1
  <2>3. Older(NoTokens) = NoTokens
    BY DEF Older, NoTokens
  <2> QED  BY <2>1, <2>2, <2>3, PairTypes, OlderHolds DEF Message, NoMessage
<1>4. TypeOK' /\ PairsHold'
  BY <1>1, <1>2, <1>3 DEF TypeOK, PairsHold, Message
<1>5. ASSUME NEW d \in Calls PROVE CallOK(d)'
  <2>1. CallOK(d)
    OBVIOUS
  <2> QED  BY <1>1, <1>3, <2>1 DEF CallOK, Waiting
<1>6. \A d \in Calls : (Waiting(d)' <=> Waiting(d)) /\ (AsksWho(d)' <=> AsksWho(d))
  BY <1>1 DEF Waiting, AsksWho
<1>7. Hands'
  BY <1>1, <1>6 DEF Hands
<1>8. Owners'
  <2> HIDE DEF IInv
  <2>1. Owners
    BY DEF IInv
  <2>2. \A d \in Calls : /\ wire'[d].at = wire[d].at /\ wire'[d].kind = wire[d].kind
                        /\ wire'[d].pair.user = wire[d].pair.user /\ op'[d] = op[d]
    BY <1>1, <1>3
  <2>3. \A d \in Calls : Waiting(d)' <=> Waiting(d)
    BY <1>6
  <2>4. /\ tokens'.user = tokens.user /\ shown' = shown /\ ready' = ready
        /\ mixed' = mixed /\ faulty' = faulty
    BY <1>1, <1>2
  <2> QED  BY <2>1, <2>2, <2>3, <2>4 DEF Owners
<1> QED  BY <1>4, <1>5, <1>7, <1>8

-----------------------------------------------------------------------------
LEMMA InductiveStep == IInv /\ [Next]_vars => IInv'
<1> SUFFICES ASSUME IInv, [Next]_vars PROVE IInv'
  OBVIOUS
<1>1. ASSUME NEW c \in Calls, \E what \in {"act", "look"} : Call(c, what) PROVE IInv'
  BY <1>1, CallsKept
<1>2. ASSUME NEW c \in Calls, CallOn(c) \/ \E u \in Users : Login(c, u) PROVE IInv'
  BY <1>2, CallsKept
<1>3. ASSUME NEW c \in Calls, Load(c) PROVE IInv'
  BY <1>3, LoadKept
<1>4. ASSUME NEW c \in Calls, Serve(c) PROVE IInv'
  BY <1>4, ServeKept
<1>5. ASSUME NEW c \in Calls, Receive(c) PROVE IInv'
  BY <1>5, SucceedKept, SignInKept, RefusedKept, RefreshedKept DEF Receive
<1>6. ASSUME NEW c \in Calls, Break(c) PROVE IInv'
  BY <1>6, RefusedKept
<1>7. CASE Logout \/ Tick
  BY <1>7, LogoutKept, TickKept
<1>8. CASE UNCHANGED vars
  <2>1. TypeOK' /\ PairsHold'
    BY <1>8 DEF vars, IInv, TypeOK, PairsHold
  <2>2. \A c \in Calls : CallOK(c)'
    BY <1>8, SameCall DEF vars, IInv, Same
  <2>3. Hands'
    BY <1>8 DEF vars, IInv, Hands, AsksWho, Waiting
  <2>4. Owners'
    BY <1>8 DEF vars, IInv, Owners, Waiting
  <2> QED  BY <2>1, <2>2, <2>3, <2>4 DEF IInv
<1> QED  BY <1>1, <1>2, <1>3, <1>4, <1>5, <1>6, <1>7, <1>8 DEF Next

LEMMA Invariant == Spec => []IInv
<1>1. Init => IInv
  BY InitHolds
<1>2. IInv /\ [Next]_vars => IInv'
  BY InductiveStep
<1> QED  BY <1>1, <1>2, PTL DEF Spec

(* Every variable keeps its type.                                          *)
THEOREM TypeCorrect == Spec => []TypeOK
<1>1. IInv => TypeOK
  BY DEF IInv
<1> QED  BY <1>1, Invariant, PTL

(* No call is carried out twice, nor as another user than its sender.      *)
THEOREM CarriedOutOnce == Spec => []EnteredOnce
<1>1. IInv => EnteredOnce
  <2> SUFFICES ASSUME IInv, NEW c \in Calls
               PROVE  /\ Len(effects[c]) <= 1
                      /\ sender[c] # Nobody => effects[c] \in {<<>>, <<sender[c]>>}
    BY DEF EnteredOnce
  <2>1. effects[c] = <<>> \/ \E u \in Users : effects[c] = <<u>> /\ sender[c] \in {u, Nobody}
    BY DEF IInv, CallOK
  <2>2. Len(<<>>) = 0
    OBVIOUS
  <2>3. CASE effects[c] = <<>>
    BY <2>2, <2>3
  <2>4. CASE \E u \in Users : effects[c] = <<u>> /\ sender[c] \in {u, Nobody}
    <3>1. PICK u \in Users : effects[c] = <<u>> /\ sender[c] \in {u, Nobody}
      BY <2>4
    <3>2. Len(<<u>>) = 1
      OBVIOUS
    <3>3. Len(effects[c]) <= 1
      BY <3>1, <3>2
    <3> QED  BY <3>1, <3>3
  <2> QED  BY <2>1, <2>3, <2>4
<1> QED  BY <1>1, Invariant, PTL

(* The tokens belong to the user who is shown, or to nobody.               *)
THEOREM TokensAreOfShown == Spec => []ShownOwnsTokens
<1>1. IInv => ShownOwnsTokens
  BY DEF IInv, Owners, ShownOwnsTokens
<1> QED  BY <1>1, Invariant, PTL

(* Any number of refreshes at once, in any order, sign nobody out.         *)
THEOREM SignedInStays == Spec => []StaysSignedIn
<1>1. IInv => StaysSignedIn
  BY DEF IInv, Owners, StaysSignedIn
<1> QED  BY <1>1, Invariant, PTL
-----------------------------------------------------------------------------
(* What NothingHangs rests on, as far as single steps go.                  *)

(* How far a call has come: sent and answered, then the same for its       *)
(* refresh and for the one time it is sent again.                          *)
LegOf(place, at) ==
    CASE place = "idle"       -> 0
      [] place = "sent"       -> IF at = "asked" THEN 1 ELSE 2
      [] place = "refreshing" -> IF at = "asked" THEN 3 ELSE 4
      [] place = "resent"     -> IF at = "asked" THEN 5 ELSE 6
      [] place = "done"       -> 7

Leg(c) == LegOf(pc[c], wire[c].at)

(* No call goes back, and whatever happens to a call under way (it is      *)
(* served, answered or broken off) takes it further.                       *)
Onward ==
    \A c \in Calls :
        /\ Leg(c)' >= Leg(c)
        /\ Waiting(c) /\ (Serve(c) \/ Receive(c) \/ Break(c)) => Leg(c)' > Leg(c)

(* Where a call can be.                                                    *)
LEMMA LegValues ==
    /\ \A at : LegOf("idle", at) = 0 /\ LegOf("done", at) = 7
    /\ LegOf("sent", "asked") = 1 /\ LegOf("refreshing", "asked") = 3
    /\ LegOf("resent", "asked") = 5
    /\ \A at : at # "asked" =>
          LegOf("sent", at) = 2 /\ LegOf("refreshing", at) = 4 /\ LegOf("resent", at) = 6
BY DEF LegOf

LEMMA LegNumber == ASSUME TypeOK, NEW d \in Calls PROVE Leg(d) \in 0 .. 7
<1>1. pc[d] \in {"idle", "sent", "refreshing", "resent", "done"}
  BY DEF TypeOK
<1> QED  BY <1>1 DEF Leg, LegOf

(* A call that a step leaves alone stays on its leg.                       *)
LEMMA SameLeg ==
    ASSUME TypeOK, NEW d \in Calls, pc'[d] = pc[d],
           wire'[d].at = wire[d].at \/ pc[d] \in {"idle", "done"}
    PROVE  Leg(d)' >= Leg(d)
<1>1. Leg(d)' = Leg(d)
  BY LegValues DEF Leg
<1> QED  BY <1>1, LegNumber

(* What happens to call c itself.                                          *)
LEMMA OwnLeg ==
    ASSUME IInv, NEW c \in Calls, Waiting(c), Serve(c) \/ Receive(c) \/ Break(c)
    PROVE  Leg(c)' > Leg(c)
<1>t. /\ pc \in [Calls -> {"idle", "sent", "refreshing", "resent", "done"}]
      /\ wire \in [Calls -> Message]
      /\ pc[c] \in {"sent", "refreshing", "resent"}
  BY DEF IInv, TypeOK, Message, Waiting
<1>k. wire[c].kind = IF pc[c] = "refreshing" THEN "refresh" ELSE op[c]
  BY DEF IInv, CallOK
<1>1. CASE Serve(c)
  <2>1. /\ pc' = pc /\ wire[c].at = "asked"
        /\ \E at \in {"ok", "401"} : \E x : Reply(c, at, x)
    BY <1>1 DEF Serve, ServeRequired, ServeOptional, ServeLogin, ServeRefresh
  <2>2. wire'[c].at \in {"ok", "401"}
    BY <2>1, <1>t DEF Reply
  <2> QED  BY <2>1, <2>2, <1>t, LegValues DEF Leg
<1>2. CASE Close(c)
  BY <1>2, <1>t, LegValues DEF Leg, Close
<1>3. CASE Succeed(c) \/ SignIn(c) \/ RefreshDenied(c) \/ Break(c)
  BY <1>2, <1>3 DEF Succeed, SignIn, RefreshDenied, Break, Fail
<1>4. CASE Denied(c)
  <2>1. CASE Fail(c, tokens)
    BY <1>2, <2>1 DEF Fail
  <2>2. CASE /\ pc[c] = "sent" /\ wire[c].at = "401"
             /\ pc' = [pc EXCEPT ![c] = "refreshing"]
             /\ wire' = [wire EXCEPT ![c] = Ask("refresh", tokens)]
    <3>1. pc'[c] = "refreshing" /\ wire'[c].at = "asked"
      BY <2>2, <1>t DEF Ask
    <3> QED  BY <2>2, <3>1, LegValues DEF Leg
  <2> QED  BY <1>4, <2>1, <2>2 DEF Denied, Answered
<1>5. CASE Refreshed(c)
  <2>1. pc[c] = "refreshing" /\ wire[c].at = "ok"
    <3>1. wire[c].kind = "refresh" /\ wire[c].at = "ok"
      BY <1>5 DEF Refreshed, Answered
    <3>2. op[c] # "refresh"
      BY DEF IInv, TypeOK
    <3> QED  BY <1>k, <3>1, <3>2
  <2>2. pc'[c] = "resent" /\ wire'[c].at = "asked"
    BY <1>5, <1>t DEF Refreshed, Ask
  <2> QED  BY <2>1, <2>2, LegValues DEF Leg
<1> QED  BY <1>1, <1>3, <1>4, <1>5 DEF Receive

(* However tokens lapse, pages are loaded and answers come in, a call is   *)
(* sent twice at most and refreshes once at most: six steps after it was   *)
(* begun it has ended.                                                     *)
THEOREM CallsGoOnward == Spec => [][Onward]_vars
<1>1. ASSUME IInv, [Next]_vars, NEW d \in Calls
      PROVE  Leg(d)' >= Leg(d)
  <2>t. /\ pc \in [Calls -> {"idle", "sent", "refreshing", "resent", "done"}]
        /\ wire \in [Calls -> Message] /\ TypeOK
    BY <1>1 DEF IInv, TypeOK, Message
  <2>0. Leg(d) \in 0 .. 7
    BY <2>t, LegNumber
  <2>9. Leg(d)' \in 0 .. 7
    <3>1. TypeOK'
      BY <1>1, InductiveStep DEF IInv
    <3>2. pc'[d] \in {"idle", "sent", "refreshing", "resent", "done"}
      BY <3>1 DEF TypeOK
    <3> QED  BY <3>2 DEF Leg, LegOf
  <2>1. ASSUME NEW c \in Calls, NEW what, NEW x, Begin(c, what, x)
        PROVE  Leg(d)' >= Leg(d)
    <3>1. pc[c] = "idle" /\ pc'[c] = "sent" /\ wire'[c].at = "asked"
      BY <2>1, <2>t DEF Begin, Ask
    <3>2. d # c => pc'[d] = pc[d] /\ wire'[d] = wire[d]
      BY <2>1, <2>t DEF Begin
    <3> QED  BY <2>t, <3>1, <3>2, SameLeg, LegValues DEF Leg
  <2>2. ASSUME NEW c \in Calls, Load(c)
        PROVE  Leg(d)' >= Leg(d)
    <3>1. CASE Waiting(d)
      <4>1. pc'[d] = "done" \/ (d = c /\ pc[d] = "idle")
        BY <2>2, <3>1 DEF Load
      <4>2. pc[d] # "idle"
        BY <3>1 DEF Waiting
      <4> QED  BY <2>0, <4>1, <4>2, LegValues DEF Leg
    <3>2. CASE ~Waiting(d)
      <4>1. pc[d] \in {"idle", "done"}
        BY <2>t, <3>2 DEF Waiting
      <4>2. pc'[d] = pc[d] \/ (pc[d] = "idle" /\ pc'[d] = "sent" /\ wire'[d].at = "asked")
        BY <2>2, <2>t, <3>2 DEF Load, Ask
      <4> QED  BY <2>t, <4>1, <4>2, SameLeg, LegValues DEF Leg
    <3> QED  BY <3>1, <3>2
  <2>3. ASSUME NEW c \in Calls, Serve(c) \/ Receive(c) \/ Break(c)
        PROVE  Leg(d)' >= Leg(d)
    <3>1. CASE d = c /\ Waiting(c)
      <4>1. Leg(d)' > Leg(d)
        BY <1>1, <2>3, <3>1, OwnLeg
      <4> QED  BY <2>0, <2>9, <4>1
    <3>2. CASE d = c /\ ~Waiting(c)
      <4>1. Serve(c)
        BY <2>3, <3>2 DEF Receive, Succeed, SignIn, Denied, Refreshed, RefreshDenied, Answered, Break
      <4>2. pc' = pc /\ pc[c] \in {"idle", "done"}
        BY <2>t, <3>2, <4>1
           DEF Serve, ServeRequired, ServeOptional, ServeLogin, ServeRefresh, Waiting
      <4> QED  BY <2>t, <3>2, <4>2, SameLeg
    <3>3. CASE d # c
      <4>1. pc'[d] = pc[d] /\ wire'[d] = wire[d]
        BY <2>3, <2>t, <3>3
           DEF Serve, ServeRequired, ServeOptional, ServeLogin, ServeRefresh, Reply, Receive,
               Succeed, SignIn, Denied, Refreshed, RefreshDenied, Break, Fail, Close
      <4> QED  BY <2>t, <4>1, SameLeg
    <3> QED  BY <3>1, <3>2, <3>3
  <2>4. CASE Logout
    BY <2>4, <2>t, SameLeg DEF Logout
  <2>5. CASE Tick
    <3>1. pc'[d] = pc[d] /\ wire'[d].at = wire[d].at
      BY <2>5, <2>t DEF Tick, Message
    <3> QED  BY <2>t, <3>1, SameLeg
  <2>6. CASE UNCHANGED vars
    BY <2>6, <2>t, SameLeg DEF vars
  <2> QED  BY <1>1, <2>1, <2>2, <2>3, <2>4, <2>5, <2>6 DEF Next, Call, CallOn, Login
<1>2. ASSUME IInv, [Next]_vars
      PROVE  Onward
  BY <1>1, <1>2, OwnLeg DEF Onward
<1> QED  BY <1>2, Invariant, PTL DEF Spec
=============================================================================
