------------------------------ MODULE WebSession ------------------------------
(***************************************************************************)
(* A user's browser: tabs that share the tokens in localStorage, each with *)
(* its own calls to the API under way and its own idea of who is signed in *)
(* (api/client.ts, stores/authStore.ts, App.tsx, LoginPage, Layout).       *)
(*                                                                         *)
(* What a tab does between two awaits is one action. Accounts models the   *)
(* other end of a call.                                                    *)
(***************************************************************************)
EXTENDS Accounts

CONSTANTS
    Slots,          \* Slots[t]: calls the tab t can have under way
    Submits,        \* Submits[t]: what the user submits in the login form of t
    Form,           \* the slot of the page's own call when it starts
    MaxDisruptions  \* bound on expiries, and on messages lost and pages left

Forms == {"login", "register"}
Kinds == Forms \cup {"load", "profile", "data"}

ASSUME WebAssumption ==
    /\ DOMAIN Slots = Tabs /\ \A t \in Tabs : Form \in Slots[t]
    /\ Submits \in [Tabs -> SUBSET Forms]
    /\ MaxDisruptions \in Nat

VARIABLES
    storage,    \* the pair in localStorage
    auth,       \* auth[t]: "loading", "in" or "out"
    calls,      \* calls[t][s]
    usedBy,     \* usedBy[n]: the clients that sent n to be exchanged, NoTab
                \* for one that did not wait for the answer
    disruptions

webVars == <<storage, auth, calls, usedBy>>
vars == <<account, tokenVars, webVars, disruptions>>

Disruptions == {"expiry", "loss"}
NoCall == [step |-> "idle", kind |-> "data", answer |-> Answer("ok", NoToken)]

TypeOK ==
    /\ AccountType
    /\ storage \in AnyToken
    /\ auth \in [Tabs -> {"loading", "in", "out"}]
    /\ DOMAIN calls = Tabs
    /\ \A t \in Tabs : calls[t] \in [Slots[t] ->
          [step: {"idle", "sent", "answered", "waiting"}, kind: Kinds,
           answer: [status: {"ok", "401", "error"}, token: AnyToken]]]
    /\ usedBy \in [Tokens -> SUBSET Clients]
    /\ disruptions \in [Disruptions -> 0..MaxDisruptions]

Init ==
    /\ AccountInit
    /\ storage = NoToken
    /\ auth = [t \in Tabs |-> "loading"]
    /\ calls = [t \in Tabs |-> [s \in Slots[t] |-> NoCall]]
    /\ usedBy = [n \in Tokens |-> {}]
    /\ disruptions = [kind \in Disruptions |-> 0]

Pending(t, s) == calls[t][s].step # "idle"
Exchanging(t) == \E x \in exchanges : x.tab = t

\* A pair that nobody holds can be issued anew. Pairs have no order, so it does
\* not matter which one.
Held ==
    {storage} \cup {x.token : x \in exchanges} \cup {x.gives : x \in exchanges}
    \cup UNION {{calls[t][s].answer.token : s \in Slots[t]} : t \in Tabs}
Unheld == Tokens \ Held
NewPairs == IF Unheld = {} THEN {} ELSE {CHOOSE n \in Unheld : TRUE}

Sent(kind) == [NoCall EXCEPT !.step = "sent", !.kind = kind]
Got(kind, answer) ==
    [NoCall EXCEPT !.step = "answered", !.kind = kind, !.answer = answer]
Waiting(kind) == [NoCall EXCEPT !.step = "waiting", !.kind = kind]
SetCall(t, s, call) == calls' = [calls EXCEPT ![t][s] = call]

\* The page goes away with its calls, having heard the answers to some of its
\* exchanges. The others go on without it.
LeavePage(t, heard) ==
    LET left == exchanges \ heard
        orphan(x) == IF x.tab = t THEN [x EXCEPT !.tab = NoTab] ELSE x
        unheard == {x.token : x \in {y \in left : y.tab = t}}
    IN  /\ calls' = [calls EXCEPT ![t] = [s \in Slots[t] |-> NoCall]]
        /\ auth' = [auth EXCEPT ![t] = "loading"]
        /\ exchanges' = {orphan(x) :
              x \in {y \in left : y.tab # t \/ y.step # "answered"}}
        /\ usedBy' = [n \in Tokens |->
              IF n \in unheard THEN (usedBy[n] \ {t}) \cup {NoTab} ELSE usedBy[n]]

-----------------------------------------------------------------------------
(***************************************************************************)
(* What the user does.                                                     *)
(***************************************************************************)
\* The login page looks at nothing but whether it was submitted already: it is
\* there while the page finds out who is signed in, and when somebody is.
FormIsBusy(t) ==
    \E s \in Slots[t] : Pending(t, s) /\ calls[t][s].kind \in Forms \cup {"profile"}

HasStarted(t) ==
    auth[t] = "loading" => \E s \in Slots[t] : Pending(t, s) /\ calls[t][s].kind = "load"

Submit(t, s, kind) ==
    /\ HasStarted(t) /\ ~FormIsBusy(t) /\ ~Pending(t, s)
    /\ SetCall(t, s, Sent(kind))
    /\ UNCHANGED <<account, tokenVars, storage, auth, usedBy, disruptions>>

Fetch(t, s) ==
    /\ auth[t] = "in" /\ ~Pending(t, s)
    /\ SetCall(t, s, Sent("data"))
    /\ UNCHANGED <<account, tokenVars, storage, auth, usedBy, disruptions>>

\* logout of the store: the API is not told.
Logout(t) ==
    /\ auth[t] = "in"
    /\ storage' = NoToken
    /\ auth' = [auth EXCEPT ![t] = "out"]
    /\ UNCHANGED <<account, tokenVars, calls, usedBy, disruptions>>

Disrupt(kind) ==
    /\ disruptions[kind] < MaxDisruptions
    /\ disruptions' = [disruptions EXCEPT ![kind] = @ + 1]

Reload(t) ==
    /\ Disrupt("loss")
    /\ auth[t] # "loading"
    /\ LeavePage(t, {})
    /\ UNCHANGED <<account, age, revoked, storage>>

-----------------------------------------------------------------------------
(***************************************************************************)
(* What the page does.                                                     *)
(***************************************************************************)
\* loadUser, when the page starts.
LoadUser(t) ==
    /\ auth[t] = "loading" /\ ~Pending(t, Form)
    /\ \/ /\ storage = NoToken
          /\ auth' = [auth EXCEPT ![t] = "out"]
          /\ UNCHANGED calls
       \/ /\ storage # NoToken
          /\ SetCall(t, Form, Sent("load"))
          /\ UNCHANGED auth
    /\ UNCHANGED <<account, tokenVars, storage, usedBy, disruptions>>

\* A refresh that fails ends the session of all tabs, and reloads this one.
EndSession(t, heard) == storage' = NoToken /\ LeavePage(t, heard)

Answered(t, s, status) ==
    /\ calls[t][s].step = "answered"
    /\ calls[t][s].answer.status = status

\* login and register keep the tokens and ask for the profile.
Succeed(t, s) ==
    LET call == calls[t][s]
    IN  /\ Answered(t, s, "ok")
        /\ \/ /\ call.kind \in Forms
              /\ storage' = call.answer.token
              /\ SetCall(t, s, Sent("profile"))
              /\ UNCHANGED auth
           \/ /\ call.kind \in {"load", "profile"}
              /\ auth' = [auth EXCEPT ![t] = "in"]
              /\ SetCall(t, s, NoCall)
              /\ UNCHANGED storage
           \/ /\ call.kind = "data"
              /\ SetCall(t, s, NoCall)
              /\ UNCHANGED <<storage, auth>>
        /\ UNCHANGED <<account, tokenVars, usedBy, disruptions>>

\* A faulty form: the page that could not start has no state it knows.
FailUnclear(t, s) ==
    /\ Answered(t, s, "error")
    /\ SetCall(t, s, NoCall)
    /\ auth' = [auth EXCEPT ![t] = "failed"]
    /\ UNCHANGED <<account, tokenVars, storage, usedBy, disruptions>>

\* An error ends the call. That of the page that starts takes the tokens with
\* it, even those of a login since then.
Fail(t, s) ==
    /\ Answered(t, s, "error")
    /\ SetCall(t, s, NoCall)
    /\ \/ /\ calls[t][s].kind = "load"
          /\ storage' = NoToken
          /\ auth' = [auth EXCEPT ![t] = IF @ = "loading" THEN "out" ELSE @]
       \/ /\ calls[t][s].kind # "load"
          /\ UNCHANGED <<storage, auth>>
    /\ UNCHANGED <<account, tokenVars, usedBy, disruptions>>

\* A faulty form: every call that gets a 401 starts a refresh.
StartAnotherExchange(t, s) ==
    /\ Answered(t, s, "401")
    /\ storage # NoToken
    /\ exchanges' = exchanges \cup {NewExchange(t, storage)}
    /\ usedBy' = [usedBy EXCEPT ![storage] = @ \cup {t}]
    /\ SetCall(t, s, Waiting(calls[t][s].kind))
    /\ UNCHANGED <<account, age, revoked, storage, auth, disruptions>>

\* A 401: the first call of the tab to get one refreshes the tokens, the
\* others wait for it.
StartExchange(t, s) ==
    /\ Answered(t, s, "401")
    /\ storage # NoToken /\ ~Exchanging(t)
    /\ exchanges' = exchanges \cup {NewExchange(t, storage)}
    /\ usedBy' = [usedBy EXCEPT ![storage] = @ \cup {t}]
    /\ SetCall(t, s, Waiting(calls[t][s].kind))
    /\ UNCHANGED <<account, age, revoked, storage, auth, disruptions>>

AwaitExchange(t, s) ==
    /\ Answered(t, s, "401") /\ Exchanging(t)
    /\ SetCall(t, s, Waiting(calls[t][s].kind))
    /\ UNCHANGED <<account, tokenVars, storage, auth, usedBy, disruptions>>

NothingToExchange(t, s) ==
    /\ Answered(t, s, "401")
    /\ storage = NoToken /\ ~Exchanging(t)
    /\ EndSession(t, {})
    /\ UNCHANGED <<account, age, revoked, disruptions>>

\* A faulty form: the call that started the refresh is the only one to go on.
RefreshedOne(t, x) ==
    /\ x \in exchanges /\ x.tab = t /\ x.step = "answered"
    /\ x.gives # NoToken
    /\ storage' = x.gives
    /\ exchanges' = exchanges \ {x}
    /\ \E s \in Slots[t] :
          /\ calls[t][s].step = "waiting"
          /\ SetCall(t, s, Sent(calls[t][s].kind))
    /\ UNCHANGED <<account, age, revoked, auth, usedBy, disruptions>>

Refreshed(t, x) ==
    /\ x \in exchanges /\ x.tab = t /\ x.step = "answered"
    /\ x.gives # NoToken
    /\ storage' = x.gives
    /\ exchanges' = exchanges \ {x}
    /\ calls' = [calls EXCEPT ![t] = [s \in Slots[t] |->
          IF @[s].step = "waiting" THEN Sent(@[s].kind) ELSE @[s]]]
    /\ UNCHANGED <<account, age, revoked, auth, usedBy, disruptions>>

\* A faulty form: the page goes to the login without removing the tokens.
NotRefreshedKept(t, x) ==
    /\ x \in exchanges /\ x.tab = t /\ x.step = "answered"
    /\ x.gives = NoToken
    /\ LeavePage(t, {x})
    /\ UNCHANGED <<account, age, revoked, storage, disruptions>>

NotRefreshed(t, x) ==
    /\ x \in exchanges /\ x.tab = t /\ x.step = "answered"
    /\ x.gives = NoToken
    /\ EndSession(t, {x})
    /\ UNCHANGED <<account, age, revoked, disruptions>>

-----------------------------------------------------------------------------
(***************************************************************************)
(* The API answers, messages are lost, time passes.                        *)
(***************************************************************************)
\* A call carries the access token that was stored when it was sent. Only its
\* answer matters, so it may as well have been sent when it is answered.
Serve(t, s) ==
    LET call == calls[t][s]
    IN  /\ call.step = "sent"
        /\ \E status \in {"ok", "401", "error"}, n \in {NoToken} \cup NewPairs :
              LET answer == Answer(status, n)
              IN  /\ \/ call.kind = "register" /\ Register(n, answer)
                     \/ call.kind = "login" /\ LoginRefused(answer)
                     \/ call.kind = "login" /\ WrongPassword(answer)
                     \/ call.kind = "login" /\ LoginGranted(n, answer)
                     \/ call.kind \notin Forms /\ Authenticated(storage, answer)
                  /\ usedBy' = IF n = NoToken THEN usedBy ELSE [usedBy EXCEPT ![n] = {}]
                  /\ SetCall(t, s, Got(call.kind, answer))
        /\ UNCHANGED <<exchanges, storage, auth, disruptions>>

Exchange(x) ==
    \/ (CheckToken(x) \/ RevokeToken(x)) /\ UNCHANGED <<webVars, disruptions>>
    \/ /\ \E n \in NewPairs :
             IssueTokens(x, n) /\ usedBy' = [usedBy EXCEPT ![n] = {}]
       /\ UNCHANGED <<storage, auth, calls, disruptions>>

LoseCall(t, s) ==
    /\ Disrupt("loss")
    /\ calls[t][s].step \in {"sent", "answered"}
    /\ SetCall(t, s, Got(calls[t][s].kind, Answer("error", NoToken)))
    /\ UNCHANGED <<account, tokenVars, storage, auth, usedBy>>

\* The connection breaks before the refresh reaches the API, or before its
\* answer reaches the tab.
LoseExchange(x) ==
    /\ Disrupt("loss")
    /\ x \in exchanges /\ x.tab # NoTab /\ x.step \in {"sent", "answered"}
    /\ EndSession(x.tab, {})
    /\ UNCHANGED <<account, age, revoked>>

Elapse ==
    /\ Disrupt("expiry") /\ UNCHANGED webVars
    /\ Deactivate \/ \E n \in Held \ {NoToken} : Age(n)

-----------------------------------------------------------------------------
User(t) ==
    \/ \E s \in Slots[t] : Fetch(t, s)
    \/ \E s \in Slots[t], kind \in Submits[t] : Submit(t, s, kind)
    \/ Logout(t) \/ Reload(t)

Page(t, s) ==
    \/ Serve(t, s) \/ Succeed(t, s) \/ Fail(t, s)
    \/ StartExchange(t, s) \/ AwaitExchange(t, s) \/ NothingToExchange(t, s)

TokenRefresh(t) ==
    \E x \in exchanges : x.tab = t /\
        (Exchange(x) \/ Refreshed(t, x) \/ NotRefreshed(t, x))

Ghost == \E x \in exchanges : x.tab = NoTab /\ Exchange(x)

Trouble ==
    \/ Elapse
    \/ \E t \in Tabs : \E s \in Slots[t] : LoseCall(t, s)
    \/ \E x \in exchanges : LoseExchange(x)

\* Not a step of the system: what is left of pairs that nobody holds any more
\* is cleared before anything else happens, so that they can be issued anew.
Stale == {n \in Unheld : n \in revoked \/ age[n] # "new" \/ usedBy[n] # {}}

Forget ==
    /\ Stale # {}
    /\ revoked' = revoked \ Stale
    /\ age' = [n \in Tokens |-> IF n \in Stale THEN "new" ELSE age[n]]
    /\ usedBy' = [n \in Tokens |-> IF n \in Stale THEN {} ELSE usedBy[n]]
    /\ UNCHANGED <<account, exchanges, storage, auth, calls, disruptions>>

Next ==
    \/ Stale = {} /\ \E t \in Tabs :
          \/ User(t) \/ LoadUser(t) \/ TokenRefresh(t)
          \/ \E s \in Slots[t] : Page(t, s)
    \/ Stale = {} /\ (Ghost \/ Trouble)
    \/ Forget

Spec == Init /\ [][Next]_vars

-----------------------------------------------------------------------------
\* The refresh of a tab is refused only if the pair had lapsed, the account
\* is not active, or another page sent the same token: however many calls of
\* the tab find the access token expired, they never get in each other's way
\* (refreshPromise in client.ts).
RefusedForCause ==
    \A x \in exchanges :
        x.tab # NoTab /\ x.step = "answered" /\ x.gives = NoToken =>
            \/ age[x.token] = "lapsed"
            \/ account.state # "active"
            \/ usedBy[x.token] # {x.tab}

\* localStorage never keeps a refresh token that the API has revoked, except
\* while the answer to its exchange is on the way, or when the page that
\* exchanged it went away before the answer came (doRefresh, refresh).
StoredTokenIsGood ==
    storage \in revoked =>
        \/ \E x \in exchanges : x.token = storage
        \/ NoTab \in usedBy[storage]

\* A call that waits for a refresh has one to wait for: whichever way the refresh
\* ends, and whatever the user does meanwhile, nobody is left behind
\* (tryRefreshToken, logout).
WaitersAreWoken ==
    \A t \in Tabs : \A s \in Slots[t] :
        calls[t][s].step = "waiting" => Exchanging(t)

=============================================================================
