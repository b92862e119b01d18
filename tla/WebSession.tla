----------------------------- MODULE WebSession -----------------------------
(***************************************************************************)
(* The session of a browser on the web page (templates/index.html): the    *)
(* pair of tokens in localStorage, shared by all tabs, and the calls of    *)
(* api(), which renews the pair when the server answers 401.               *)
(*                                                                         *)
(* Tokens are numbered in the order the server issues them, an access and  *)
(* a refresh token at a time (users/views.py, SIMPLE_JWT), and expire in   *)
(* that order.  One action is what the page does between two awaits, or    *)
(* what the server does with one request.                                  *)
(***************************************************************************)
EXTENDS Naturals, FiniteSets

CONSTANTS
    Tabs,       \* open tabs of one browser
    Calls,      \* calls of api() that may be under way at once
    MaxIssued,  \* bound: pairs of tokens
    NoToken,    \* no such item in localStorage
    Undefined,  \* the string that setItem makes of a missing field
    NoTab,      \* no tab: a call that is not under way
    Env         \* faults that may happen

EnvAll == {"network", "throttle", "expire_refresh"}

Tokens == 1 .. MaxIssued

ASSUME SessionAssumption ==
    /\ MaxIssued \in Nat
    /\ NoToken \notin Nat
    /\ Undefined \notin Nat \cup {NoToken}
    /\ NoTab \notin Tabs
    /\ Env \subseteq EnvAll

VARIABLES
    access,    \* localStorage: access
    refresh,   \* localStorage: refresh
    user,      \* is state.user set in this tab?
    call,      \* the calls of api()
    issued,    \* pairs the server has issued
    oldest,    \* the oldest access token and the oldest refresh token that are
               \* still valid
    signed     \* history: somebody has signed in, and nothing has happened since
               \* that ends a session

store == <<access, refresh>>
vars == <<store, user, call, issued, oldest, signed>>

-----------------------------------------------------------------------------
Kinds == {"login", "register", "profile", "data"}

(* sent: the request is at the server; ok, refused: it was answered so;    *)
(* refresh, granted, denied: the same for the request for new tokens.      *)
(* token: the one sent, or granted; again: the request is the second one.  *)
(* stale, for the properties: the request for new tokens was on its way    *)
(* when somebody last signed in.                                           *)
Call == [pc : {"idle", "sent", "ok", "refused", "refresh", "granted", "denied"},
         kind : Kinds, tab : Tabs \cup {NoTab},
         token : Tokens \cup {NoToken, Undefined}, again : BOOLEAN, stale : BOOLEAN]

NoCall == [pc |-> "idle", kind |-> "data", tab |-> NoTab,
           token |-> NoToken, again |-> FALSE, stale |-> FALSE]

Idle(c) == call[c].pc = "idle"
End(c) == call' = [call EXCEPT ![c] = NoCall]
Goto(c, l, t) == call' = [call EXCEPT ![c].pc = l, ![c].token = t]

AccessValid(t) == t \in Tokens /\ t >= oldest.access

(* Renewing a pair leaves the old one as it is: there is no blacklist.     *)
(* The first form has one that knows the last pair only.                   *)
RefreshValidOnce(t) == t \in Tokens /\ t >= oldest.refresh /\ t = issued
RefreshValid(t) == t \in Tokens /\ t >= oldest.refresh

(* The types, and that the page never stores a refresh token that is none. *)
TypeOK ==
    /\ access \in Tokens \cup {NoToken, Undefined}
    /\ refresh \in Tokens \cup {NoToken}
    /\ user \in [Tabs -> BOOLEAN]
    /\ call \in [Calls -> Call]
    /\ issued \in 0 .. MaxIssued
    /\ oldest \in [access : Nat, refresh : Nat]
    /\ signed \in BOOLEAN

Init ==
    /\ access = NoToken
    /\ refresh = NoToken
    /\ user = [b \in Tabs |-> FALSE]
    /\ call = [c \in Calls |-> NoCall]
    /\ issued = 0
    /\ oldest = [access |-> 1, refresh |-> 1]
    /\ signed = FALSE

-----------------------------------------------------------------------------
(* The page.                                                               *)

(* A call may end with a new pair, one for login with two; the bound sets  *)
(* them aside.                                                             *)
Room ==
    issued + 2 + Cardinality({c \in Calls : ~Idle(c)})
           + Cardinality({c \in Calls : ~Idle(c) /\ call[c].kind = "login"}) <= MaxIssued

Sent(b, k) == [NoCall EXCEPT !.pc = "sent", !.kind = k, !.tab = b, !.token = access]

(* A form is submitted, or a page asks for its data.                       *)
Start(c, b, k) ==
    /\ Idle(c)
    /\ Room
    /\ k # "profile"
    /\ call' = [call EXCEPT ![c] = Sent(b, k)]
    /\ UNCHANGED <<store, user, issued, oldest, signed>>

(* A tab is opened or loaded again: its calls are gone, and init() asks    *)
(* for the profile if there is a token.                                    *)
Load(c, b) ==
    /\ Idle(c) \/ call[c].tab = b
    /\ Room
    /\ call' = [d \in Calls |-> IF d = c /\ access # NoToken THEN Sent(b, "profile")
                                ELSE IF call[d].tab = b THEN NoCall ELSE call[d]]
    /\ user' = [user EXCEPT ![b] = FALSE]
    /\ UNCHANGED <<store, issued, oldest, signed>>

ClearTokens == access' = NoToken /\ refresh' = NoToken

(* setToken with a new pair, or with an answer that has none.  The first   *)
(* form stores the missing refresh token too.                              *)
NewRefreshAlways(t) == t
NewRefresh(t) == IF t = Undefined THEN refresh ELSE t
SetToken(t) == access' = t /\ refresh' = NewRefresh(t)

Logout(b) ==
    /\ user[b]
    /\ ClearTokens
    /\ user' = [user EXCEPT ![b] = FALSE]
    /\ signed' = FALSE
    /\ UNCHANGED <<call, issued, oldest>>

(* 401, and there is a refresh token: it is sent, once in a call.  The     *)
(* first form tries as often as it takes.                                  *)
MayRenewAgain(c) == refresh # NoToken
MayRenew(c) == ~call[c].again /\ refresh # NoToken

Renew(c) ==
    /\ call[c].pc = "refused"
    /\ MayRenew(c)
    /\ Goto(c, "refresh", refresh)
    /\ UNCHANGED <<store, user, issued, oldest, signed>>

(* The new pair is stored, and the request sent again with it.  The first  *)
(* form leaves the header as it was.                                       *)
SameHeader(c) == access
NewHeader(c) == call[c].token

Resend(c) ==
    /\ call[c].pc = "granted"
    /\ SetToken(call[c].token)
    /\ call' = [call EXCEPT ![c].pc = "sent", ![c].again = TRUE, ![c].token = NewHeader(c)]
    /\ UNCHANGED <<user, issued, oldest, signed>>

(* No new pair: the tokens are dropped, whosever they are by now, and the  *)
(* call throws.                                                            *)
Denied(c) ==
    /\ call[c].pc = "denied"
    /\ ClearTokens
    /\ End(c)
    /\ signed' = (signed /\ ~call[c].stale)
    /\ UNCHANGED <<user, issued, oldest>>

(* The call throws: init() drops the tokens, the others show the error.    *)
Throw(c) ==
    /\ IF call[c].kind = "profile" THEN ClearTokens ELSE UNCHANGED store
    /\ End(c)
    /\ UNCHANGED <<user, issued, oldest>>

GiveUp(c) ==
    /\ call[c].pc = "refused"
    /\ ~MayRenew(c)
    /\ Throw(c)
    /\ UNCHANGED signed

(* c has signed somebody in; the others go on.                             *)
Renewing(w) == w.pc \in {"refresh", "denied"}
SignIn(c) ==
    /\ call' = [d \in Calls |-> IF d = c THEN NoCall
                               ELSE [call[d] EXCEPT !.stale = Renewing(call[d])]]
    /\ signed' = TRUE

(* Login stores its tokens; so does register, whose answer has neither     *)
(* tokens nor a user.                                                      *)
Succeed(c) ==
    LET w == call[c] IN
    /\ w.pc = "ok"
    /\ CASE w.kind = "login" -> SetToken(w.token)
         [] w.kind = "register" -> SetToken(Undefined)
         [] OTHER -> UNCHANGED store
    /\ user' = [user EXCEPT ![w.tab] = CASE w.kind \in {"login", "profile"} -> TRUE
                                         [] w.kind = "register" -> FALSE
                                         [] OTHER -> @]
    /\ IF w.kind = "login" THEN SignIn(c) ELSE End(c) /\ UNCHANGED signed
    /\ UNCHANGED <<issued, oldest>>

-----------------------------------------------------------------------------
(* The server.                                                             *)

(* Login looks at the password only; everything else at the access token,  *)
(* which register may lack but not have wrong.                             *)
Answers(c) ==
    LET w == call[c] IN
    CASE w.kind = "login" -> {"ok", "refused"}
      [] w.kind = "register" /\ w.token = NoToken -> {"ok"}
      [] OTHER -> IF AccessValid(w.token) THEN {"ok"} ELSE {"refused"}

Issue(c, l) ==
    /\ issued < MaxIssued
    /\ issued' = issued + 1
    /\ Goto(c, l, issued + 1)

Serve(c) ==
    /\ call[c].pc = "sent"
    /\ \E a \in Answers(c) :
          IF call[c].kind = "login" /\ a = "ok" THEN Issue(c, "ok")
          ELSE Goto(c, a, NoToken) /\ UNCHANGED issued
    /\ UNCHANGED <<store, user, oldest, signed>>

ServeRefresh(c) ==
    /\ call[c].pc = "refresh"
    /\ IF RefreshValid(call[c].token) THEN Issue(c, "granted")
       ELSE Goto(c, "denied", NoToken) /\ UNCHANGED issued
    /\ UNCHANGED <<store, user, oldest, signed>>

(* So many requests an hour from an address or a user, on every endpoint;  *)
(* the one for new tokens is anonymous.                                    *)
Throttled(c) ==
    /\ "throttle" \in Env
    /\ \/ /\ call[c].pc = "refresh"
          /\ Goto(c, "denied", NoToken)
          /\ signed' = FALSE
          /\ UNCHANGED <<store, user, issued, oldest>>
       \/ /\ call[c].pc = "sent"
          /\ Throw(c)
          /\ signed' = (signed /\ call[c].kind # "profile")

(* An access token lasts longer than the call that fetches it.             *)
ExpireAccess ==
    /\ oldest.access <= issued
    /\ \A c \in Calls : call[c].pc \in {"granted", "ok"} \/ call[c].again
                            => call[c].token # oldest.access
    /\ oldest' = [oldest EXCEPT !.access = @ + 1]
    /\ UNCHANGED <<store, user, call, issued, signed>>

(* A refresh token lasts longer than the access token it came with.  With  *)
(* the one that is stored, or on its way to be renewed, the session ends.  *)
ExpireRefresh ==
    /\ "expire_refresh" \in Env
    /\ oldest.refresh < oldest.access
    /\ oldest' = [oldest EXCEPT !.refresh = @ + 1]
    /\ signed' = (signed /\ refresh # oldest.refresh
                         /\ \A c \in Calls : call[c].pc = "refresh" /\ ~call[c].stale
                                => call[c].token # oldest.refresh)
    /\ UNCHANGED <<store, user, call, issued>>

(* The request, or its answer, does not arrive.                            *)
NetworkError(c) ==
    /\ "network" \in Env
    /\ ~Idle(c)
    /\ Throw(c)
    /\ signed' = (signed /\ call[c].kind # "profile")

-----------------------------------------------------------------------------
(* The call goes on by itself.                                             *)
Proceed(c) == Serve(c) \/ ServeRefresh(c) \/ Renew(c) \/ Resend(c)
              \/ Denied(c) \/ GiveUp(c) \/ Succeed(c)

Next ==
    \/ \E c \in Calls : \/ Proceed(c) \/ Throttled(c) \/ NetworkError(c)
                        \/ \E b \in Tabs : Load(c, b) \/ \E k \in Kinds : Start(c, b, k)
    \/ \E b \in Tabs : Logout(b)
    \/ ExpireAccess \/ ExpireRefresh

Spec == Init /\ [][Next]_vars

(* The server answers what it is sent, and a promise that is settled is    *)
(* taken up.                                                               *)
LiveSpec == Spec /\ \A c \in Calls : WF_vars(Proceed(c))

-----------------------------------------------------------------------------
(* A user who has signed in, whatever other calls were under way, stays    *)
(* so: until he logs out, the refresh token expires, its request or the    *)
(* one for his profile is refused for its rate or the latter gets no       *)
(* answer, the page holds a refresh token that is good, however many calls *)
(* of however many tabs renew it at once, and whatever forms are sent      *)
(* meanwhile (index.html:76-97, base.py:137-141).  One call can end his    *)
(* session all the same: one that was renewing the tokens before him when  *)
(* he signed in, and is turned down now (index.html:91, 136).              *)
StaysSignedIn == signed => refresh \in Tokens /\ refresh >= oldest.refresh

(* As long as that lasts he never sees a 401: whatever the server refuses, *)
(* also a request sent before he signed in, is asked for again, with a     *)
(* token it takes (index.html:88-92).                                      *)
RenewalHelps ==
    signed => \A c \in Calls : call[c].pc = "refused" /\ call[c].kind # "login"
                                   => MayRenew(c)

(* A call comes to its end, also one that the server keeps refusing,       *)
(* unless its tab is loaded again and again (index.html:86-96).            *)
CallsEnd ==
    \A c \in Calls : \/ []<><<\E b \in Tabs : Load(c, b)>>_vars
                     \/ ~Idle(c) ~> Idle(c)
=============================================================================
