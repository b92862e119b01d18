--------------------------- MODULE SessionProofs ---------------------------
(***************************************************************************)
(* What holds of WebSession for any number of tabs, calls and tokens, and  *)
(* under every fault.                                                      *)
(***************************************************************************)
EXTENDS WebSession, TLAPS

-----------------------------------------------------------------------------
(* Types.                                                                  *)

(* A new pair, when the server issues one or a call comes back with it.    *)
PairOK == \A c \in Calls :
            /\ call[c].pc = "granted" => call[c].token \in Tokens
            /\ call[c].pc = "ok" /\ call[c].kind = "login" => call[c].token \in Tokens
            /\ call[c].pc # "idle" => call[c].tab \in Tabs

SessionTypes == TypeOK /\ PairOK

LEMMA NoCallType == NoCall \in Call
  BY DEF NoCall, Call, Kinds

LEMMA SentType ==
  ASSUME TypeOK, NEW b \in Tabs, NEW k \in Kinds
  PROVE  /\ Sent(b, k) \in Call
         /\ Sent(b, k).pc = "sent" /\ Sent(b, k).tab = b /\ ~Sent(b, k).again
         /\ Sent(b, k).kind = k
  BY DEF TypeOK, Sent, NoCall, Call, Kinds

(* What Goto and End do to the calls.                                      *)
LEMMA GotoCall ==
  ASSUME TypeOK, NEW c \in Calls, NEW t \in Tokens \cup {NoToken, Undefined},
         NEW l \in {"sent", "ok", "refused", "refresh", "granted", "denied"}, Goto(c, l, t)
  PROVE  /\ call' \in [Calls -> Call]
         /\ call'[c].pc = l /\ call'[c].token = t
         /\ call'[c].kind = call[c].kind /\ call'[c].tab = call[c].tab
         /\ call'[c].again = call[c].again /\ call'[c].stale = call[c].stale
         /\ \A d \in Calls : d # c => call'[d] = call[d]
  BY DEF TypeOK, Goto, Call

LEMMA EndCall ==
  ASSUME TypeOK, NEW c \in Calls, End(c)
  PROVE  /\ call' \in [Calls -> Call]
         /\ call'[c] = NoCall
         /\ \A d \in Calls : d # c => call'[d] = call[d]
  BY NoCallType DEF TypeOK, End

(* A call that is not the one that signs in keeps all but its mark.        *)
LEMMA SignInCall ==
  ASSUME TypeOK, NEW c \in Calls, SignIn(c)
  PROVE  /\ call' \in [Calls -> Call] /\ call'[c] = NoCall
         /\ \A d \in Calls : d # c =>
               /\ call'[d].pc = call[d].pc /\ call'[d].kind = call[d].kind
               /\ call'[d].tab = call[d].tab /\ call'[d].token = call[d].token
               /\ call'[d].again = call[d].again
               /\ call'[d].stale = (call[d].pc \in {"refresh", "denied"})
  <1>. DEFINE marks(d) == call[d].pc \in {"refresh", "denied"}
              w(d) == [call[d] EXCEPT !.stale = marks(d)]
  <1>1. call' = [d \in Calls |-> IF d = c THEN NoCall ELSE w(d)]
    BY DEF SignIn, Renewing
  <1>2. \A d \in Calls : call[d] \in Call /\ marks(d) \in BOOLEAN
    BY DEF TypeOK
  <1>. HIDE DEF marks
  <1>3. ASSUME NEW d \in Calls
        PROVE  /\ w(d) \in Call
               /\ w(d).pc = call[d].pc /\ w(d).kind = call[d].kind
               /\ w(d).tab = call[d].tab /\ w(d).token = call[d].token
               /\ w(d).again = call[d].again
               /\ w(d).stale = marks(d)
    BY <1>2 DEF Call
  <1>. HIDE DEF w
  <1>4. \A d \in Calls : d # c => call'[d] = w(d)
    BY <1>1
  <1>5. \A d \in Calls : d # c => call'[d].stale = (call[d].pc \in {"refresh", "denied"})
    BY <1>3, <1>4 DEF marks
  <1>. QED
    BY <1>1, <1>3, <1>4, <1>5, NoCallType

LEMMA IssueCall ==
  ASSUME TypeOK, NEW c \in Calls, Issue(c, "ok") \/ Issue(c, "granted")
  PROVE  /\ issued' = issued + 1 /\ issued' \in 0 .. MaxIssued
         /\ issued + 1 \in Tokens
         /\ Goto(c, "ok", issued + 1) \/ Goto(c, "granted", issued + 1)
  BY SessionAssumption DEF TypeOK, Issue, Tokens

LEMMA TokenTypes == NoToken \notin Tokens /\ Undefined \notin Tokens /\ Undefined # NoToken
  BY SessionAssumption DEF Tokens

LEMMA TypesNext == SessionTypes /\ [Next]_vars => SessionTypes'
  <1>. SUFFICES ASSUME SessionTypes, [Next]_vars PROVE SessionTypes'
    OBVIOUS
  <1>. USE DEF SessionTypes
  <1>t. /\ access \in Tokens \cup {NoToken, Undefined} /\ refresh \in Tokens \cup {NoToken}
        /\ user \in [Tabs -> BOOLEAN] /\ call \in [Calls -> Call]
        /\ issued \in 0 .. MaxIssued /\ oldest \in [access : Nat, refresh : Nat]
        /\ signed \in BOOLEAN
    BY DEF TypeOK
  <1>k. \A c \in Calls : /\ call[c].token \in Tokens \cup {NoToken, Undefined}
                         /\ call[c].kind \in Kinds
    BY <1>t DEF Call
  <1>n. NoCall.pc = "idle"
    BY DEF NoCall
  <1>1. ASSUME NEW c \in Calls, NEW b \in Tabs, NEW k \in Kinds, Start(c, b, k)
        PROVE  SessionTypes'
    BY <1>1, <1>t, SentType DEF Start, store, TypeOK, PairOK
  <1>2. ASSUME NEW c \in Calls, NEW b \in Tabs, Load(c, b)
        PROVE  SessionTypes'
    <2>1. "profile" \in Kinds
      BY DEF Kinds
    <2>2. \A d \in Calls : call'[d] \in {Sent(b, "profile"), NoCall, call[d]}
      BY <1>2 DEF Load
    <2>3. call' \in [Calls -> Call]
      BY <1>2, <1>t, <2>1, SentType, NoCallType DEF Load
    <2>. QED
      BY <1>2, <1>t, <1>n, <2>1, <2>2, <2>3, SentType DEF Load, store, TypeOK, PairOK
  <1>3. ASSUME NEW b \in Tabs, Logout(b) PROVE SessionTypes'
    BY <1>3, <1>t DEF Logout, ClearTokens, TypeOK, PairOK
  <1>4. ASSUME NEW c \in Calls, Renew(c) PROVE SessionTypes'
    <2>1. Goto(c, "refresh", refresh)
      BY <1>4 DEF Renew
    <2>2. /\ call' \in [Calls -> Call]
          /\ call'[c].pc = "refresh" /\ call'[c].tab = call[c].tab
          /\ \A d \in Calls : d # c => call'[d] = call[d]
      BY <1>t, <2>1, GotoCall
    <2>. QED
      BY <1>4, <1>t, <2>2 DEF Renew, store, TypeOK, PairOK
  <1>5. ASSUME NEW c \in Calls, Resend(c) PROVE SessionTypes'
    <2>1. call[c].token \in Tokens
      BY <1>5 DEF Resend, PairOK
    <2>2. access' \in Tokens /\ refresh' \in Tokens
      BY <1>5, <2>1, TokenTypes DEF Resend, SetToken, NewRefresh
    <2>3. call' \in [Calls -> Call]
          /\ \A d \in Calls : /\ call'[d].tab = call[d].tab
                              /\ d # c => call'[d] = call[d]
          /\ call'[c].pc = "sent"
      BY <1>5, <1>t, <2>1 DEF Resend, NewHeader, Call
    <2>. QED
      BY <1>5, <1>t, <2>2, <2>3 DEF Resend, TypeOK, PairOK
  <1>6. ASSUME NEW c \in Calls, End(c) \/ SignIn(c), UNCHANGED <<issued, oldest>>,
               signed' \in BOOLEAN, user' \in [Tabs -> BOOLEAN],
               access' \in Tokens \cup {NoToken, Undefined},
               refresh' \in Tokens \cup {NoToken}
        PROVE  SessionTypes'
    <2>1. CASE End(c)
      BY <1>6, <1>t, <1>n, <2>1, EndCall DEF TypeOK, PairOK
    <2>2. CASE SignIn(c)
      <3>1. PairOK'
        BY <1>n, <2>2, SignInCall DEF PairOK
      <3>. QED
        BY <1>6, <1>t, <2>2, <3>1, SignInCall DEF TypeOK
    <2>. QED
      BY <1>6, <2>1, <2>2
  <1>7. ASSUME NEW c \in Calls, Denied(c) \/ GiveUp(c) \/ NetworkError(c)
        PROVE  SessionTypes'
    BY <1>6, <1>7, <1>t DEF Denied, GiveUp, NetworkError, Throw, ClearTokens, store
  <1>8. ASSUME NEW c \in Calls, Succeed(c) PROVE SessionTypes'
    <2>1. call[c].kind = "login" => call[c].token \in Tokens
      BY <1>8 DEF Succeed, PairOK
    <2>2. /\ access' \in Tokens \cup {NoToken, Undefined}
          /\ refresh' \in Tokens \cup {NoToken}
      BY <1>8, <1>t, <2>1, TokenTypes DEF Succeed, SetToken, NewRefresh, store
    <2>3. user' \in [Tabs -> BOOLEAN]
      BY <1>8, <1>t DEF Succeed
    <2>4. (End(c) \/ SignIn(c)) /\ signed' \in BOOLEAN
      BY <1>8, <1>t DEF Succeed, SignIn
    <2>. QED
      BY <1>6, <1>8, <2>2, <2>3, <2>4 DEF Succeed
  <1>9. ASSUME NEW c \in Calls, Serve(c) PROVE SessionTypes'
    <2>1. PICK a \in Answers(c) :
             IF call[c].kind = "login" /\ a = "ok" THEN Issue(c, "ok")
             ELSE Goto(c, a, NoToken) /\ UNCHANGED issued
      BY <1>9 DEF Serve
    <2>2. a \in {"ok", "refused"}
      BY DEF Answers
    <2>3. call[c].tab \in Tabs
      BY <1>9 DEF Serve, PairOK
    <2>4. CASE call[c].kind = "login" /\ a = "ok"
      <3>1. Issue(c, "ok") /\ Goto(c, "ok", issued + 1)
        BY <2>1, <2>4 DEF Issue
      <3>. QED
        BY <1>9, <1>t, <2>3, <3>1, IssueCall, GotoCall DEF Serve, store, TypeOK, PairOK
    <2>5. CASE ~(call[c].kind = "login" /\ a = "ok")
      BY <1>9, <1>t, <2>1, <2>2, <2>3, <2>5, GotoCall DEF Serve, store, TypeOK, PairOK
    <2>. QED
      BY <2>4, <2>5
  <1>10. ASSUME NEW c \in Calls, ServeRefresh(c) PROVE SessionTypes'
    <2>1. call[c].tab \in Tabs
      BY <1>10 DEF ServeRefresh, PairOK
    <2>2. CASE Issue(c, "granted")
      <3>1. Goto(c, "granted", issued + 1)
        BY <2>2 DEF Issue
      <3>. QED
        BY <1>10, <1>t, <2>1, <2>2, <3>1, IssueCall, GotoCall
        DEF ServeRefresh, store, TypeOK, PairOK
    <2>3. CASE Goto(c, "denied", NoToken) /\ UNCHANGED issued
      BY <1>10, <1>t, <2>1, <2>3, GotoCall DEF ServeRefresh, store, TypeOK, PairOK
    <2>. QED
      BY <1>10, <2>2, <2>3 DEF ServeRefresh
  <1>11. ASSUME NEW c \in Calls, Throttled(c) PROVE SessionTypes'
    <2>1. CASE Throw(c)
      BY <1>6, <1>11, <1>t, <2>1 DEF Throttled, Throw, ClearTokens, store
    <2>2. CASE ~Throw(c)
      BY <1>11, <1>t, <2>2, GotoCall DEF Throttled, store, TypeOK, PairOK
    <2>. QED
      BY <2>1, <2>2
  <1>12. CASE ExpireAccess \/ ExpireRefresh
    <2>1. signed' \in BOOLEAN
      BY <1>12, <1>t DEF ExpireAccess, ExpireRefresh
    <2>2. oldest' \in [access : Nat, refresh : Nat]
      BY <1>12, <1>t DEF ExpireAccess, ExpireRefresh
    <2>. QED
      BY <1>12, <1>t, <2>1, <2>2 DEF ExpireAccess, ExpireRefresh, store, TypeOK, PairOK
  <1>13. CASE UNCHANGED vars
    BY <1>13 DEF vars, store, TypeOK, PairOK
  <1>. QED
    BY <1>1, <1>2, <1>3, <1>4, <1>5, <1>7, <1>8, <1>9, <1>10, <1>11, <1>12, <1>13
    DEF Next, Proceed

LEMMA TypesInit == Init => SessionTypes
  <1>. SUFFICES ASSUME Init PROVE SessionTypes
    OBVIOUS
  <1>1. call \in [Calls -> Call]
    BY NoCallType DEF Init
  <1>2. issued \in 0 .. MaxIssued
    BY SessionAssumption DEF Init
  <1>3. PairOK
    BY DEF Init, PairOK, NoCall
  <1>. QED
    BY <1>1, <1>2, <1>3 DEF Init, SessionTypes, TypeOK

(* Type correctness of the page and the server's tokens, every fault       *)
(* included; the page never stores a refresh token that is none.           *)
THEOREM TypeCorrect == Spec => []TypeOK
  <1>1. SessionTypes => TypeOK
    BY DEF SessionTypes
  <1>. QED
    BY <1>1, TypesInit, TypesNext, PTL DEF Spec

-----------------------------------------------------------------------------
(* The session.                                                            *)

Fresh(t) == t \in Tokens /\ t >= oldest.access
Good(t) == t \in Tokens /\ t >= oldest.refresh

(* Whether or not a user is signed in: no access token is older than its   *)
(* refresh token, a new pair stays valid until the call that fetched it    *)
(* has ended, and a call whose request was sent again is not refused.      *)
Renewed(c) ==
  LET w == call[c] IN
  /\ w.pc = "granted" \/ (w.pc = "ok" /\ w.kind = "login") => Fresh(w.token)
  /\ w.again => /\ w.pc = "sent" => Fresh(w.token)
                /\ w.pc \in {"sent", "ok", "refused"}
                /\ w.pc = "refused" => w.kind = "login"

FreshInv ==
  /\ SessionTypes
  /\ oldest.refresh <= oldest.access /\ oldest.access <= issued + 1
  /\ \A c \in Calls : Renewed(c)

(* While he is: the stored refresh token is good, and so is the one of a   *)
(* request for a new pair that was sent since; none of these was turned    *)
(* down.                                                                   *)
Safe(w) == w.stale \/ (w.pc # "denied" /\ (w.pc = "refresh" => Good(w.token)))
SignedInv == signed => Good(refresh) /\ \A c \in Calls : Safe(call[c])

SessionInv == FreshInv /\ SignedInv

LEMMA FreshIsGood ==
  ASSUME FreshInv, NEW t, Fresh(t)
  PROVE  Good(t)
  BY DEF FreshInv, SessionTypes, TypeOK, Fresh, Good, Tokens

(* RenewalHelps for one call.                                              *)
LEMMA SignedMayRenew ==
  ASSUME SessionInv, signed, NEW c \in Calls,
         call[c].pc = "refused", call[c].kind # "login"
  PROVE  MayRenew(c)
  BY TokenTypes DEF SessionInv, FreshInv, SignedInv, SessionTypes, TypeOK, Call, Renewed, Good,
                    MayRenew

(* A step that leaves the tokens of the server alone keeps what the others *)
(* hold.                                                                   *)
LEMMA OthersKept ==
  ASSUME SessionInv, NEW d \in Calls, call'[d] \in {call[d], NoCall},
         oldest' = oldest
  PROVE  /\ Renewed(d)'
         /\ signed => Safe(call[d])'
  BY DEF SessionInv, FreshInv, SignedInv, Renewed, Fresh, Safe, Good, NoCall

(* What the page and the server do with one call.                          *)
LEMMA CallStep ==
  ASSUME SessionInv, NEW c \in Calls, Proceed(c) \/ Throttled(c) \/ NetworkError(c)
  PROVE  /\ oldest' = oldest /\ issued' \in {issued, issued + 1}
         /\ Renewed(c)'
         /\ signed' => Good(refresh') /\ Safe(call[c])'
         /\ \A d \in Calls : d # c =>
                /\ Renewed(d)'
                /\ signed' => Safe(call[d])'
  <1>t. /\ TypeOK /\ PairOK /\ call \in [Calls -> Call] /\ call[c] \in Call
        /\ refresh \in Tokens \cup {NoToken} /\ issued \in 0 .. MaxIssued
        /\ oldest \in [access : Nat, refresh : Nat]
        /\ oldest.access <= issued + 1
    BY DEF SessionInv, FreshInv, SessionTypes, TypeOK
  <1>s. signed => Good(refresh)
    BY DEF SessionInv, SignedInv
  <1>w. Renewed(c)
    BY DEF SessionInv, FreshInv
  <1>o. ASSUME oldest' = oldest, signed' => signed,
               \A d \in Calls : d # c => call'[d] = call[d]
        PROVE  \A d \in Calls : d # c => Renewed(d)' /\ (signed' => Safe(call[d])')
    BY <1>o, OthersKept
  <1>e. ASSUME End(c) PROVE /\ Renewed(c)' /\ Safe(call[c])'
                            /\ \A d \in Calls : d # c => call'[d] = call[d]
    BY <1>e, <1>t, EndCall DEF Renewed, Safe, NoCall
  <1>1. CASE Renew(c)
    <2>1. /\ call'[c].pc = "refresh" /\ call'[c].token = refresh
          /\ call'[c].again = call[c].again /\ ~call[c].again
          /\ \A d \in Calls : d # c => call'[d] = call[d]
      BY <1>1, <1>t, GotoCall DEF Renew, MayRenew
    <2>2. UNCHANGED <<refresh, issued, oldest, signed>>
      BY <1>1 DEF Renew, store
    <2>. QED
      BY <1>o, <1>s, <2>1, <2>2 DEF Renewed, Safe, Good
  <1>2. CASE Resend(c)
    <2>1. Fresh(call[c].token)
      BY <1>2, <1>w DEF Resend, Renewed
    <2>2. /\ call'[c].pc = "sent" /\ call'[c].token = call[c].token
          /\ \A d \in Calls : d # c => call'[d] = call[d]
      BY <1>2, <1>t DEF Resend, NewHeader, Call
    <2>3. refresh' = call[c].token /\ Good(refresh')
      BY <1>2, <2>1, TokenTypes, FreshIsGood
      DEF Resend, SetToken, NewRefresh, Fresh, SessionInv
    <2>4. UNCHANGED <<issued, oldest, signed>>
      BY <1>2 DEF Resend
    <2>. QED
      BY <1>o, <2>1, <2>2, <2>3, <2>4 DEF Renewed, Safe, Fresh
  <1>3. CASE Denied(c)
    <2>1. signed' => signed /\ ~call[c].stale /\ call[c].pc = "denied"
      BY <1>3 DEF Denied
    <2>2. ~signed'
      BY <2>1 DEF SessionInv, SignedInv, Safe
    <2>. QED
      BY <1>3, <1>e, <1>o, <2>2 DEF Denied
  <1>h. ASSUME Throw(c), signed' => signed /\ call[c].kind # "profile"
        PROVE  /\ UNCHANGED <<issued, oldest>>
               /\ Renewed(c)'
               /\ signed' => Good(refresh') /\ Safe(call[c])'
               /\ \A d \in Calls : d # c => Renewed(d)' /\ (signed' => Safe(call[d])')
    BY <1>h, <1>e, <1>o, <1>s DEF Throw, store
  <1>4. CASE GiveUp(c)
    <2>1. signed => call[c].kind # "profile"
      BY <1>4, SignedMayRenew DEF GiveUp
    <2>2. Throw(c) /\ signed' = signed
      BY <1>4 DEF GiveUp
    <2>. QED
      BY <1>h, <2>1, <2>2
  <1>5. CASE NetworkError(c)
    <2>1. Throw(c) /\ (signed' => signed /\ call[c].kind # "profile")
      BY <1>5 DEF NetworkError
    <2>. QED
      BY <1>h, <2>1
  <1>6. CASE Succeed(c)
    <2>0. UNCHANGED <<issued, oldest>>
      BY <1>6 DEF Succeed
    <2>1. CASE call[c].kind = "login"
      <3>1. Fresh(call[c].token)
        BY <1>6, <1>w, <2>1 DEF Succeed, Renewed
      <3>2. refresh' = call[c].token /\ Good(refresh')
        BY <1>6, <2>1, <3>1, TokenTypes, FreshIsGood
        DEF Succeed, SetToken, NewRefresh, Fresh, SessionInv
      <3>3. SignIn(c)
        BY <1>6, <2>1 DEF Succeed
      <3>4. Renewed(c)' /\ Safe(call[c])'
        BY <1>t, <3>3, SignInCall DEF Renewed, Safe, NoCall
      <3>5. ASSUME NEW d \in Calls, d # c PROVE Renewed(d)' /\ Safe(call[d])'
        <4>1. Renewed(d)
          BY DEF SessionInv, FreshInv
        <4>2. /\ call'[d].pc = call[d].pc /\ call'[d].kind = call[d].kind
              /\ call'[d].token = call[d].token /\ call'[d].again = call[d].again
              /\ call'[d].stale = (call[d].pc \in {"refresh", "denied"})
          BY <1>t, <3>3, <3>5, SignInCall
        <4>3. Renewed(d)'
          BY <2>0, <4>1, <4>2 DEF Renewed, Fresh
        <4>4. Safe(call[d])'
          BY <4>2 DEF Safe
        <4>. QED
          BY <4>3, <4>4
      <3>. QED
        BY <2>0, <3>2, <3>4, <3>5
    <2>2. CASE call[c].kind # "login"
      <3>1. refresh' = refresh
        BY <1>6, <2>2 DEF Succeed, SetToken, NewRefresh, store
      <3>2. End(c) /\ signed' = signed
        BY <1>6, <2>2 DEF Succeed
      <3>. QED
        BY <1>e, <1>o, <1>s, <2>0, <3>1, <3>2
    <2>. QED
      BY <2>1, <2>2
  <1>i. ASSUME NEW l, l = "ok" \/ l = "granted", Issue(c, l)
        PROVE  /\ issued' = issued + 1 /\ call'[c].pc = l
               /\ call'[c].token \in Tokens /\ call'[c].token >= oldest.access
               /\ call'[c].again = call[c].again /\ call'[c].kind = call[c].kind
               /\ \A d \in Calls : d # c => call'[d] = call[d]
    <2>1. issued' = issued + 1 /\ issued + 1 \in Tokens /\ Goto(c, l, issued + 1)
      BY <1>i, <1>t, IssueCall DEF Issue
    <2>2. /\ call'[c].pc = l /\ call'[c].token = issued + 1
          /\ call'[c].again = call[c].again /\ call'[c].kind = call[c].kind
          /\ \A d \in Calls : d # c => call'[d] = call[d]
      BY <1>i, <1>t, <2>1, GotoCall
    <2>. QED
      BY <1>t, <2>1, <2>2
  <1>7. CASE Serve(c)
    <2>1. PICK a \in Answers(c) :
             IF call[c].kind = "login" /\ a = "ok" THEN Issue(c, "ok")
             ELSE Goto(c, a, NoToken) /\ UNCHANGED issued
      BY <1>7 DEF Serve
    <2>2. oldest' = oldest /\ refresh' = refresh /\ signed' = signed /\ call[c].pc = "sent"
      BY <1>7 DEF Serve, store
    <2>3. CASE call[c].kind = "login" /\ a = "ok"
      BY <1>o, <1>s, <1>w, <1>i, <2>1, <2>2, <2>3 DEF Renewed, Safe, Fresh
    <2>4. CASE ~(call[c].kind = "login" /\ a = "ok")
      <3>1. a \in {"ok", "refused"}
        BY DEF Answers
      <3>2. a = "refused" /\ call[c].again => call[c].kind = "login"
        <4>. SUFFICES ASSUME call[c].again, call[c].kind # "login" PROVE a = "ok"
          BY <3>1
        <4>1. AccessValid(call[c].token) /\ call[c].token # NoToken
          BY <1>w, <2>2, TokenTypes DEF Renewed, Fresh, AccessValid
        <4>. QED
          BY <4>1 DEF Answers
      <3>3. Goto(c, a, NoToken) /\ UNCHANGED issued
        BY <2>1, <2>4
      <3>4. /\ call'[c].pc = a /\ call'[c].again = call[c].again
            /\ call'[c].kind = call[c].kind
            /\ \A d \in Calls : d # c => call'[d] = call[d]
        BY <1>t, <3>1, <3>3, GotoCall
      <3>. QED
        BY <1>o, <1>s, <2>2, <2>4, <3>1, <3>2, <3>3, <3>4 DEF Renewed, Safe
    <2>. QED
      BY <2>3, <2>4
  <1>8. CASE ServeRefresh(c)
    <2>1. /\ oldest' = oldest /\ refresh' = refresh /\ signed' = signed
          /\ call[c].pc = "refresh" /\ ~call[c].again
      BY <1>8, <1>w DEF ServeRefresh, store, Renewed
    <2>2. CASE RefreshValid(call[c].token)
      <3>1. Issue(c, "granted")
        BY <1>8, <2>2 DEF ServeRefresh
      <3>. QED
        BY <1>o, <1>s, <1>i, <2>1, <3>1 DEF Renewed, Safe, Fresh
    <2>3. CASE ~RefreshValid(call[c].token)
      <3>1. Goto(c, "denied", NoToken) /\ UNCHANGED issued
        BY <1>8, <2>3 DEF ServeRefresh
      <3>2. /\ call'[c].pc = "denied" /\ call'[c].again = call[c].again
            /\ call'[c].stale = call[c].stale
            /\ \A d \in Calls : d # c => call'[d] = call[d]
        BY <1>t, <3>1, GotoCall
      <3>3. signed => call[c].stale
        BY <2>1, <2>3 DEF SessionInv, SignedInv, Safe, Good, RefreshValid
      <3>. QED
        BY <1>o, <1>s, <2>1, <3>1, <3>2, <3>3 DEF Renewed, Safe, Good
    <2>. QED
      BY <2>2, <2>3
  <1>9. CASE Throttled(c)
    <2>1. CASE /\ call[c].pc = "refresh" /\ Goto(c, "denied", NoToken) /\ signed' = FALSE
               /\ UNCHANGED <<store, user, issued, oldest>>
      <3>1. /\ call'[c].pc = "denied" /\ call'[c].again = call[c].again /\ ~call[c].again
            /\ \A d \in Calls : d # c => call'[d] = call[d]
        BY <2>1, <1>t, <1>w, GotoCall DEF Renewed
      <3>. QED
        BY <1>o, <2>1, <3>1 DEF Renewed
    <2>2. CASE Throw(c) /\ (signed' => signed /\ call[c].kind # "profile")
      BY <1>h, <2>2
    <2>. QED
      BY <1>9, <2>1, <2>2 DEF Throttled
  <1>. QED
    BY <1>1, <1>2, <1>3, <1>4, <1>5, <1>6, <1>7, <1>8, <1>9 DEF Proceed

(* A step that at most drops calls and starts new ones.                    *)
LEMMA NewRequests ==
  ASSUME SessionInv, SessionTypes', refresh' = refresh, issued' = issued, oldest' = oldest,
         signed' => signed,
         \A d \in Calls : \/ call'[d] = call[d]
                          \/ call'[d] = NoCall
                          \/ call'[d].pc = "sent" /\ ~call'[d].again
  PROVE  SessionInv'
  <1>1. ASSUME NEW d \in Calls
        PROVE  Renewed(d)' /\ (signed => Safe(call[d])')
    BY OthersKept DEF Renewed, Safe
  <1>. QED
    BY <1>1 DEF SessionInv, FreshInv, SignedInv, Good

LEMMA SessionNext == SessionInv /\ [Next]_vars => SessionInv'
  <1>. SUFFICES ASSUME SessionInv, [Next]_vars PROVE SessionInv'
    OBVIOUS
  <1>t. /\ SessionTypes' /\ TypeOK /\ call \in [Calls -> Call]
        /\ issued \in 0 .. MaxIssued /\ oldest \in [access : Nat, refresh : Nat]
        /\ oldest.refresh <= oldest.access /\ oldest.access <= issued + 1
    BY TypesNext DEF SessionInv, FreshInv, SessionTypes, TypeOK
  <1>1. ASSUME NEW c \in Calls, Proceed(c) \/ Throttled(c) \/ NetworkError(c)
        PROVE  SessionInv'
    <2>1. /\ oldest' = oldest /\ issued' \in {issued, issued + 1}
          /\ signed' => Good(refresh')
          /\ \A d \in Calls : Renewed(d)' /\ (signed' => Safe(call[d])')
      BY <1>1, CallStep
    <2>. QED
      BY <1>t, <2>1 DEF SessionInv, FreshInv, SignedInv, Good
  <1>2. ASSUME NEW c \in Calls, NEW b \in Tabs, NEW k \in Kinds, Start(c, b, k)
        PROVE  SessionInv'
    <2>1. Sent(b, k).pc = "sent" /\ ~Sent(b, k).again
      BY <1>t, SentType
    <2>2. /\ refresh' = refresh /\ issued' = issued /\ oldest' = oldest
          /\ signed' => signed
      BY <1>2 DEF Start, store
    <2>3. \A d \in Calls : call'[d] \in {call[d], Sent(b, k)}
      BY <1>t, <1>2 DEF Start
    <2>. QED
      BY <1>t, NewRequests, <2>1, <2>2, <2>3
  <1>3. ASSUME NEW c \in Calls, NEW b \in Tabs, Load(c, b) PROVE SessionInv'
    <2>1. "profile" \in Kinds
      BY DEF Kinds
    <2>2. Sent(b, "profile").pc = "sent" /\ ~Sent(b, "profile").again
      BY <1>t, <2>1, SentType
    <2>3. /\ refresh' = refresh /\ issued' = issued /\ oldest' = oldest
          /\ signed' => signed
      BY <1>3 DEF Load, store
    <2>4. \A d \in Calls : call'[d] \in {call[d], NoCall, Sent(b, "profile")}
      BY <1>3 DEF Load
    <2>. QED
      BY <1>t, NewRequests, <2>2, <2>3, <2>4
  <1>4. ASSUME NEW b \in Tabs, Logout(b) PROVE SessionInv'
    <2>1. \A d \in Calls : Renewed(d)'
      BY <1>4, OthersKept DEF Logout
    <2>. QED
      BY <1>t, <1>4, <2>1 DEF Logout, SessionInv, FreshInv, SignedInv
  <1>5. CASE ExpireAccess
    <2>1. /\ oldest'.access = oldest.access + 1 /\ oldest'.refresh = oldest.refresh
          /\ oldest.access <= issued
          /\ UNCHANGED <<refresh, call, issued, signed>>
      BY <1>5, <1>t DEF ExpireAccess, store
    <2>2. ASSUME NEW d \in Calls, Fresh(call[d].token),
                 call[d].pc \in {"granted", "ok"} \/ call[d].again
          PROVE  Fresh(call[d].token)'
      BY <1>5, <1>t, <2>1, <2>2 DEF ExpireAccess, Fresh, Tokens
    <2>3. \A d \in Calls : Renewed(d)'
      BY <2>1, <2>2 DEF SessionInv, FreshInv, Renewed, Fresh
    <2>. QED
      BY <1>t, <2>1, <2>3 DEF SessionInv, FreshInv, SignedInv, Safe, Good
  <1>6. CASE ExpireRefresh
    <2>1. /\ oldest'.access = oldest.access /\ oldest'.refresh = oldest.refresh + 1
          /\ oldest.refresh < oldest.access
          /\ UNCHANGED <<refresh, call, issued>>
      BY <1>6, <1>t DEF ExpireRefresh, store
    <2>2. \A d \in Calls : Renewed(d)'
      BY <2>1 DEF SessionInv, FreshInv, Renewed, Fresh
    <2>3. signed' => /\ signed /\ refresh # oldest.refresh
                     /\ \A d \in Calls : call[d].pc = "refresh" /\ ~call[d].stale
                            => call[d].token # oldest.refresh
      BY <1>6 DEF ExpireRefresh
    <2>4. \A t : Good(t) /\ t # oldest.refresh => Good(t)'
      BY <1>t, <2>1 DEF Good, Tokens
    <2>5. SignedInv'
      BY <1>t, <2>1, <2>3, <2>4 DEF SessionInv, SignedInv, Safe, Call, Good
    <2>. QED
      BY <1>t, <2>1, <2>2, <2>5 DEF SessionInv, FreshInv
  <1>7. CASE UNCHANGED vars
    <2>1. /\ refresh' = refresh /\ issued' = issued /\ oldest' = oldest
          /\ (signed' => signed) /\ call' = call
      BY <1>7 DEF vars, store
    <2>. QED
      BY <1>t, NewRequests, <2>1
  <1>. QED
    BY <1>1, <1>2, <1>3, <1>4, <1>5, <1>6, <1>7 DEF Next

LEMMA SessionInvHolds == Spec => []SessionInv
  <1>1. Init => SessionInv
    <2>. SUFFICES ASSUME Init PROVE SessionInv
      OBVIOUS
    <2>1. SessionTypes
      BY TypesInit
    <2>2. \A c \in Calls : Renewed(c)
      BY DEF Init, NoCall, Renewed
    <2>. QED
      BY <2>1, <2>2, SessionAssumption DEF Init, SessionInv, FreshInv, SignedInv
  <1>. QED
    BY <1>1, SessionNext, PTL DEF Spec

(* A user who has signed in, whatever other calls were under way, keeps a  *)
(* good refresh token until something ends his session that StaysSignedIn  *)
(* lists (an older call whose renewal is turned down is one), however many *)
(* calls of however many tabs renew it at once.                            *)
THEOREM StaysSignedInHolds == Spec => []StaysSignedIn
  <1>1. SessionInv => StaysSignedIn
    BY DEF SessionInv, SignedInv, Good, StaysSignedIn
  <1>. QED
    BY <1>1, SessionInvHolds, PTL

(* ... and whatever the server refuses him meanwhile is asked for again,   *)
(* with a token it takes.                                                  *)
THEOREM RenewalAlwaysHelps == Spec => []RenewalHelps
  <1>1. SessionInv => RenewalHelps
    BY SignedMayRenew DEF RenewalHelps
  <1>. QED
    BY <1>1, SessionInvHolds, PTL
=============================================================================
